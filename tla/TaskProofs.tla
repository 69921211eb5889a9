---------------------------- MODULE TaskProofs ----------------------------
(***************************************************************************)
(* What the task structures promise, in three parts.                       *)
(*                                                                         *)
(* Processes, for any number of slots, process numbers and forks: every    *)
(* process has a father who lives and can still be told, until init dies.  *)
(*                                                                         *)
(* WaitQueue, for any sets of tasks and queues: sleep_on and wake_up lose  *)
(* no sleeper.                                                             *)
(*                                                                         *)
(* Directories, for any number of processes, inodes, files and calls: what *)
(* a process takes in a call, inodes, buffers, a file and a descriptor, it *)
(* gives back, whichever way through the call it goes.                     *)
(***************************************************************************)
EXTENDS Processes, WaitQueue, Directories, TLAPS, FiniteSetTheorems, WellFoundedInduction

\* A task table: its types, ...
Typed(t) == t \in [Slots -> TaskStructs \cup {NULL}]

\* ... each process number once, ...
Unique(t) == \A i, j \in Slots : t[i] # NULL /\ t[j] # NULL /\ i # j => t[i].pid # t[j].pid

\* ... and fathers who live; those that are left to process 1 have one as long
\* as init lives.
HasInit(t) == \E i \in Slots : t[i] # NULL /\ t[i].father = 0 /\ Lives(t[i])
HasFather(t, i) == \E j \in Slots : t[j] # NULL /\ t[j].pid = t[i].father /\ Lives(t[j])
Fathers(t) ==
    \A i \in Slots : t[i] # NULL =>
        \/ t[i].father = 0 /\ t[i].pid = 1
        \/ t[i].father = 1 /\ ~HasInit(t)
        \/ HasFather(t, i)

Sound(t) == Typed(t) /\ Unique(t) /\ Fathers(t)

\* The task in slot c runs.
Runs(t, c) == c = 0 \/ (c \in Slots /\ t[c] # NULL /\ t[c].state = "run")

Numbers == last_pid \in 1 .. PID_MAX /\ shell \in 0 .. PID_MAX /\ forks \in 0 .. MaxForks

IInv == Sound(task) /\ Runs(task, current) /\ Numbers
-----------------------------------------------------------------------------
\* The constants as numbers.
LEMMA Constants ==
    /\ NR_TASKS \in Nat /\ NR_TASKS > 2 /\ PID_MAX \in Nat /\ PID_MAX >= NR_TASKS
    /\ FirstPid \in 1 .. PID_MAX /\ PRIORITY \in Nat /\ PRIORITY > 0 /\ MaxForks \in Nat
    /\ {} \in Masks /\ 1 \in Slots
  BY ProcessConstants DEF Slots

\* A step that keeps who is there, the numbers of all and of their fathers,
\* and who has begun to exit.
LEMMA Frame ==
    ASSUME NEW t, NEW u, Sound(t), Typed(u),
           \A i \in Slots : u[i] = NULL <=> t[i] = NULL,
           \A i \in Slots : t[i] # NULL => /\ u[i].pid = t[i].pid /\ u[i].father = t[i].father
                                           /\ Lives(t[i]) <=> Lives(u[i])
    PROVE  Sound(u)
  <1>1. Unique(u)
    BY DEF Sound, Unique
  <1>2. HasInit(u) => HasInit(t)
    BY DEF HasInit
  <1>3. Fathers(u)
    <2> SUFFICES ASSUME NEW i \in Slots, u[i] # NULL, ~HasFather(u, i),
                        ~(u[i].father = 1 /\ ~HasInit(u))
                 PROVE  u[i].father = 0 /\ u[i].pid = 1
      BY DEF Fathers
    <2>1. t[i] # NULL /\ u[i].pid = t[i].pid /\ u[i].father = t[i].father
      OBVIOUS
    <2>2. ~HasFather(t, i)
      <3> SUFFICES ASSUME HasFather(t, i) PROVE FALSE
        OBVIOUS
      <3>1. PICK j \in Slots : t[j] # NULL /\ t[j].pid = t[i].father /\ Lives(t[j])
        BY DEF HasFather
      <3>2. u[j] # NULL /\ u[j].pid = t[j].pid /\ Lives(u[j])
        BY <3>1
      <3> QED BY <2>1, <3>1, <3>2 DEF HasFather
    <2> QED BY <1>2, <2>1, <2>2 DEF Sound, Fathers
  <1> QED BY <1>1, <1>3 DEF Sound

\* A set of naturals that has an element has a least one.
LEMMA LeastNatural ==
    ASSUME NEW T \in SUBSET Nat, T # {}
    PROVE  \E x \in T : \A y \in T : x <= y
  <1>1. \E x \in T : \A y \in T : ~(<<y, x>> \in OpToRel(<, Nat))
    BY NatLessThanWellFounded, WFMin
  <1>2. PICK x \in T : \A y \in T : ~(<<y, x>> \in OpToRel(<, Nat))
    BY <1>1
  <1>3. ASSUME NEW y \in T, ~(x <= y) PROVE FALSE
    <2>1. x \in Nat /\ y \in Nat /\ y < x
      BY <1>3
    <2>2. <<y, x>> \in OpToRel(<, Nat)
      BY <2>1 DEF OpToRel
    <2> QED BY <2>2, <1>2
  <1> QED BY <1>3

\* A bounded set of naturals that has an element has a greatest one.
LEMMA GreatestNatural ==
    ASSUME NEW n \in Nat, NEW F \in SUBSET (0 .. n), F # {}
    PROVE  \E x \in F : \A y \in F : y <= x
  <1> DEFINE T == {k \in Nat : \E x \in F : k = n - x}
  <1>1. \A x \in F : x \in Int /\ n - x \in Nat
    OBVIOUS
  <1>2. T # {} /\ T \in SUBSET Nat
    BY <1>1
  <1>3. PICK k \in T : \A j \in T : k <= j
    BY <1>2, LeastNatural
  <1>4. PICK x \in F : k = n - x
    BY <1>3
  <1>5. \A y \in F : n - x <= n - y
    BY <1>1, <1>3, <1>4
  <1>6. \A y \in F : y <= x
    BY <1>1, <1>5
  <1> QED BY <1>6
-----------------------------------------------------------------------------
\* What a task is made of, one field at a time.
LEMMA TaskFields ==
    ASSUME NEW r \in TaskStructs
    PROVE  /\ r # NULL
           /\ r.pid \in 1 .. PID_MAX /\ r.father \in 0 .. PID_MAX
           /\ r.state \in {"run", "int", "unint", "zombie"}
           /\ r.counter \in 0 .. 2 * PRIORITY /\ r.signal \in SUBSET Signals /\ r.blocked \in Masks
           /\ r.pc \in {"user", "ret", "wait", "pause", "close", "closed"}
           /\ r.arg \in {ANY} \cup 0 .. PID_MAX /\ r.session \in 0 .. PID_MAX /\ r.leader \in BOOLEAN
  BY NullIsNoStruct DEF TaskStructs

\* schedule() runs a task that can run, or the idle task.
LEMMA BestRuns ==
    ASSUME NEW t, Typed(t)
    PROVE  Runs(t, Best(t))
  <1> DEFINE R == Runnable(t)
             F == {t[i].counter : i \in R}
  <1>1. CASE R = {}
    BY <1>1 DEF Best, Runs
  <1>2. CASE R # {}
    <2>0. R \in SUBSET (0 .. NR_TASKS) /\ \A i \in R : i \in Slots /\ t[i] \in TaskStructs /\ t[i].state = "run" /\ t[i] # NULL
      BY Constants DEF Runnable, Typed, Slots
    <2>1. \A i \in R : t[i].counter \in 0 .. 2 * PRIORITY
      BY <2>0, TaskFields
    <2>2. F \in SUBSET (0 .. 2 * PRIORITY) /\ F # {}
      BY <1>2, <2>1
    <2>3. 2 * PRIORITY \in Nat /\ NR_TASKS \in Nat
      BY Constants
    <2>4. PICK m \in F : \A y \in F : y <= m
      <3> HIDE DEF F
      <3> DEFINE b == 2 * PRIORITY
      <3>1. b \in Nat /\ F \in SUBSET (0 .. b)
        BY <2>2, <2>3
      <3> HIDE DEF b
      <3> QED BY <2>2, <3>1, GreatestNatural
    <2> DEFINE G == {i \in R : t[i].counter = m}
    <2>5. G \in SUBSET (0 .. NR_TASKS) /\ G # {}
      BY <2>0, <2>4
    <2> HIDE DEF R
    <2>6. PICK x \in G : \A y \in G : y <= x
      <3> HIDE DEF G
      <3> QED BY <2>3, <2>5, GreatestNatural
    <2>7. x \in R /\ \A j \in R : t[x].counter > t[j].counter \/ (t[x].counter = t[j].counter /\ x >= j)
      <3>1. x \in R /\ t[x].counter = m /\ m \in Int /\ x \in Int
        BY <2>0, <2>1, <2>6
      <3>2. ASSUME NEW j \in R PROVE m > t[j].counter \/ (m = t[j].counter /\ x >= j)
        <4>1. t[j].counter <= m /\ t[j].counter \in Int /\ j \in Int
          BY <2>0, <2>1, <2>4
        <4>2. CASE t[j].counter = m
          BY <2>6, <4>1, <4>2, <3>1
        <4> QED BY <3>1, <4>1, <4>2
      <3> QED BY <3>1, <3>2
    <2>8. Best(t) \in R
      <3>1. Best(t) = CHOOSE i \in R : \A j \in R :
                t[i].counter > t[j].counter \/ (t[i].counter = t[j].counter /\ i >= j)
        BY <1>2 DEF Best, R
      <3> QED BY <2>7, <3>1
    <2> QED BY <2>0, <2>8 DEF Runs
  <1> QED BY <1>1, <1>2

\* Making signalled tasks runnable changes nothing else.
LEMMA WokenSound ==
    ASSUME NEW t, Sound(t)
    PROVE  Sound(Woken(t))
  <1> DEFINE u == Woken(t)
  <1>1. ASSUME NEW i \in Slots
        PROVE  /\ u[i] \in TaskStructs \cup {NULL} /\ (u[i] = NULL <=> t[i] = NULL)
               /\ t[i] # NULL => /\ u[i].pid = t[i].pid /\ u[i].father = t[i].father
                                 /\ Lives(t[i]) <=> Lives(u[i])
    <2>0. t[i] \in TaskStructs \cup {NULL}
      BY DEF Sound, Typed
    <2> DEFINE r == t[i]
    <2>1. CASE u[i] = t[i]
      BY <2>0, <2>1
    <2>2. CASE r # NULL /\ r.state # "zombie" /\ u[i] = [r EXCEPT !.state = "run"]
      <3>1. r \in TaskStructs
        BY <2>0, <2>2
      <3> HIDE DEF r
      <3>2. [r EXCEPT !.state = "run"] \in TaskStructs
        BY <3>1 DEF TaskStructs
      <3>3. [r EXCEPT !.state = "run"] # NULL
        BY <3>2, NullIsNoStruct
      <3>4. /\ [r EXCEPT !.state = "run"].pid = r.pid /\ [r EXCEPT !.state = "run"].father = r.father
            /\ [r EXCEPT !.state = "run"].state = "run" /\ [r EXCEPT !.state = "run"].pc = r.pc
        BY <3>1 DEF TaskStructs
      <3>5. r.state # "zombie" => (Lives(r) <=> Lives([r EXCEPT !.state = "run"]))
        BY <3>4 DEF Lives
      <3> QED BY <2>2, <3>2, <3>3, <3>4, <3>5 DEF r
    <2> QED BY <2>1, <2>2 DEF Woken
  <1>2. Typed(u)
    BY <1>1 DEF Typed, Woken
  <1> HIDE DEF u
  <1>3. Sound(u)
    BY <1>1, <1>2, Frame
  <1> QED BY <1>3 DEF u

\* Nor does setting the counters anew.
LEMMA ChargedSound ==
    ASSUME NEW t, Sound(t)
    PROVE  Sound(Charged(t))
  <1> DEFINE u == Recharged(t)
  <1>1. ASSUME NEW i \in Slots
        PROVE  /\ u[i] \in TaskStructs \cup {NULL} /\ (u[i] = NULL <=> t[i] = NULL)
               /\ t[i] # NULL => /\ u[i].pid = t[i].pid /\ u[i].father = t[i].father
                                 /\ Lives(t[i]) <=> Lives(u[i])
    <2>0. t[i] \in TaskStructs \cup {NULL}
      BY DEF Sound, Typed
    <2> DEFINE r == t[i]  s == [r EXCEPT !.counter = @ \div 2 + PRIORITY]
    <2>1. CASE u[i] = t[i]
      BY <2>0, <2>1
    <2>2. CASE r # NULL /\ u[i] = s
      <3>1. r \in TaskStructs
        BY <2>0, <2>2
      <3> HIDE DEF r
      <3>2. r.counter \in 0 .. 2 * PRIORITY
        BY <3>1, TaskFields
      <3>3. r.counter \div 2 + PRIORITY \in 0 .. 2 * PRIORITY
        BY <3>2, Constants
      <3>4. s \in TaskStructs
        BY <3>1, <3>3 DEF TaskStructs
      <3>5. s # NULL
        BY <3>4, NullIsNoStruct
      <3>6. s.pid = r.pid /\ s.father = r.father /\ s.state = r.state /\ s.pc = r.pc
        BY <3>1 DEF TaskStructs
      <3>7. Lives(r) <=> Lives(s)
        BY <3>6 DEF Lives
      <3> QED BY <2>2, <3>4, <3>5, <3>6, <3>7 DEF r
    <2> QED BY <2>1, <2>2 DEF Recharged
  <1>2. Typed(u)
    BY <1>1 DEF Typed, Recharged
  <1> HIDE DEF u
  <1>3. Sound(u)
    BY <1>1, <1>2, Frame
  <1> QED BY <1>3 DEF u, Charged

\* schedule(), called with a sound table.
LEMMA ScheduleSound ==
    ASSUME NEW t, Sound(t), schedule(t)
    PROVE  Sound(task') /\ Runs(task', current')
  <1>1. task' = Charged(Woken(t)) /\ current' = Best(Charged(Woken(t)))
    BY DEF schedule
  <1>2. Sound(Woken(t))
    BY WokenSound
  <1> DEFINE w == Woken(t)  c == Charged(w)
  <1> HIDE DEF w
  <1>3. Sound(c)
    BY <1>2, ChargedSound DEF w
  <1> HIDE DEF c
  <1>4. Runs(c, Best(c))
    BY <1>3, BestRuns DEF Sound
  <1> QED BY <1>1, <1>3, <1>4 DEF c, w

-----------------------------------------------------------------------------
\* A task changes, and keeps its number, its father and its life.
LEMMA UpdateSound ==
    ASSUME NEW t, Sound(t), NEW i \in Slots, t[i] # NULL, NEW r \in TaskStructs,
           r.pid = t[i].pid, r.father = t[i].father, Lives(t[i]) <=> Lives(r)
    PROVE  Sound([t EXCEPT ![i] = r])
  <1> DEFINE u == [t EXCEPT ![i] = r]
  <1>0. t \in [Slots -> TaskStructs \cup {NULL}]
    BY DEF Sound, Typed
  <1>1. Typed(u)
    BY <1>0 DEF Typed
  <1>2. u[i] = r /\ r # NULL /\ \A j \in Slots : j # i => u[j] = t[j]
    BY <1>0, NullIsNoStruct
  <1> HIDE DEF u
  <1>3. \A j \in Slots : u[j] = NULL <=> t[j] = NULL
    BY <1>2
  <1>4. \A j \in Slots : t[j] # NULL => /\ u[j].pid = t[j].pid /\ u[j].father = t[j].father
                                        /\ Lives(t[j]) <=> Lives(u[j])
    <2> TAKE j \in Slots
    <2>1. CASE j = i
      BY <1>2, <2>1
    <2>2. CASE j # i
      BY <1>2, <2>2
    <2> QED BY <2>1, <2>2
  <1>5. Sound(u)
    BY <1>1, <1>3, <1>4, Frame
  <1> QED BY <1>5 DEF u

\* A new task in a free slot, with a new number and a father who lives.
LEMMA AddSound ==
    ASSUME NEW t, Sound(t), NEW n \in Slots, t[n] = NULL, NEW r \in TaskStructs,
           \A i \in Slots : t[i] # NULL => t[i].pid # r.pid,
           NEW c \in Slots, t[c] # NULL, r.father = t[c].pid, Lives(t[c])
    PROVE  Sound([t EXCEPT ![n] = r])
  <1> DEFINE u == [t EXCEPT ![n] = r]
  <1>0. t \in [Slots -> TaskStructs \cup {NULL}] /\ Unique(t) /\ Fathers(t)
    BY DEF Sound, Typed
  <1>1. Typed(u)
    BY <1>0 DEF Typed
  <1>2. u[n] = r /\ r # NULL /\ \A j \in Slots : j # n => u[j] = t[j]
    BY <1>0, NullIsNoStruct
  <1> HIDE DEF u
  <1>3. \A j \in Slots : t[j] # NULL => u[j] = t[j]
    BY <1>2
  <1>4. Unique(u)
    <2> SUFFICES ASSUME NEW i \in Slots, NEW j \in Slots, u[i] # NULL, u[j] # NULL, i # j
                 PROVE  u[i].pid # u[j].pid
      BY DEF Unique
    <2>1. CASE i = n
      BY <1>2, <2>1
    <2>2. CASE j = n
      BY <1>2, <2>2
    <2>3. CASE i # n /\ j # n
      BY <1>0, <1>2, <2>3 DEF Unique
    <2> QED BY <2>1, <2>2, <2>3
  <1>5. HasInit(u) => HasInit(t)
    <2>1. r.father # 0
      <3>1. t[c] \in TaskStructs
        BY <1>0
      <3>2. t[c].pid \in 1 .. PID_MAX
        BY <3>1, TaskFields
      <3> QED BY <3>2, Constants
    <2> QED BY <1>2, <2>1 DEF HasInit
  <1>6. Fathers(u)
    <2> SUFFICES ASSUME NEW i \in Slots, u[i] # NULL
                 PROVE  \/ u[i].father = 0 /\ u[i].pid = 1
                        \/ u[i].father = 1 /\ ~HasInit(u)
                        \/ HasFather(u, i)
      BY DEF Fathers
    <2>1. CASE i = n
      <3>1. u[i] = r /\ u[c] = t[c]
        BY <1>2, <1>3, <2>1
      <3> QED BY <3>1 DEF HasFather
    <2>2. CASE i # n
      <3>1. u[i] = t[i]
        BY <1>2, <2>2
      <3>2. HasFather(t, i) => HasFather(u, i)
        BY <1>3, <3>1 DEF HasFather
      <3> QED BY <1>0, <1>5, <3>1, <3>2 DEF Fathers
    <2> QED BY <2>1, <2>2
  <1>7. Sound(u)
    BY <1>1, <1>4, <1>6 DEF Sound
  <1> QED BY <1>7 DEF u

\* A task that is no longer alive is nobody's father and may be released.
LEMMA RemoveSound ==
    ASSUME NEW t, Sound(t), NEW z \in Slots, t[z] # NULL, ~Lives(t[z])
    PROVE  Sound([t EXCEPT ![z] = NULL])
  <1> DEFINE u == [t EXCEPT ![z] = NULL]
  <1>0. t \in [Slots -> TaskStructs \cup {NULL}] /\ Unique(t) /\ Fathers(t)
    BY DEF Sound, Typed
  <1>1. Typed(u)
    BY <1>0 DEF Typed
  <1>2. u[z] = NULL /\ \A j \in Slots : j # z => u[j] = t[j]
    BY <1>0
  <1> HIDE DEF u
  <1>3. Unique(u)
    BY <1>0, <1>2 DEF Unique
  <1>4. HasInit(u) => HasInit(t)
    BY <1>2 DEF HasInit
  <1>5. Fathers(u)
    <2> SUFFICES ASSUME NEW i \in Slots, u[i] # NULL
                 PROVE  \/ u[i].father = 0 /\ u[i].pid = 1
                        \/ u[i].father = 1 /\ ~HasInit(u)
                        \/ HasFather(u, i)
      BY DEF Fathers
    <2>1. u[i] = t[i]
      BY <1>2
    <2>2. HasFather(t, i) => HasFather(u, i)
      <3> SUFFICES ASSUME HasFather(t, i) PROVE HasFather(u, i)
        OBVIOUS
      <3>1. PICK j \in Slots : t[j] # NULL /\ t[j].pid = t[i].father /\ Lives(t[j])
        BY DEF HasFather
      <3>2. j # z
        BY <3>1
      <3> QED BY <1>2, <2>1, <3>1, <3>2 DEF HasFather
    <2> QED BY <1>0, <1>4, <2>1, <2>2 DEF Fathers
  <1>6. Sound(u)
    BY <1>1, <1>3, <1>5 DEF Sound
  <1> QED BY <1>6 DEF u

\* The running task.
LEMMA Running ==
    ASSUME IInv, current # 0
    PROVE  /\ current \in Slots /\ Me \in TaskStructs /\ Me # NULL /\ Me = task[current]
           /\ Me.state = "run" /\ task \in [Slots -> TaskStructs \cup {NULL}]
           /\ Me.pc \notin {"close", "closed"} => Lives(Me)
  <1>1. current \in Slots /\ task[current] # NULL /\ task[current].state = "run"
    BY DEF IInv, Runs
  <1>2. task \in [Slots -> TaskStructs \cup {NULL}]
    BY DEF IInv, Sound, Typed
  <1>3. Me \in TaskStructs /\ Me = task[current]
    BY <1>1, <1>2 DEF Me
  <1>4. Me.pc \notin {"close", "closed"} => Lives(Me)
    BY <1>1, <1>3 DEF Lives
  <1> QED BY <1>1, <1>2, <1>3, <1>4

\* The running task changes what is its own.
LEMMA MeSound ==
    ASSUME NEW t, Sound(t), Runs(t, current), current # 0, NEW r \in TaskStructs,
           r.pid = t[current].pid, r.father = t[current].father, Lives(t[current]) <=> Lives(r)
    PROVE  /\ Sound([t EXCEPT ![current] = r])
           /\ r.state = "run" => Runs([t EXCEPT ![current] = r], current)
  <1>1. current \in Slots /\ t[current] # NULL /\ t \in [Slots -> TaskStructs \cup {NULL}]
    BY DEF Runs, Sound, Typed
  <1>2. Sound([t EXCEPT ![current] = r])
    BY <1>1, UpdateSound
  <1>3. [t EXCEPT ![current] = r][current] = r /\ r # NULL
    BY <1>1, NullIsNoStruct
  <1> QED BY <1>1, <1>2, <1>3 DEF Runs

\* A system call returns to ret_from_sys_call.
LEMMA ReturnSound ==
    ASSUME NEW t, Sound(t), Runs(t, current), current # 0, Lives(t[current]), Return(t)
    PROVE  Sound(task') /\ Runs(task', current')
  <1> DEFINE c == t[current]  r == [c EXCEPT !.pc = "ret", !.arg = 0]
  <1>1. current \in Slots /\ c \in TaskStructs /\ c.state = "run" /\ t \in [Slots -> TaskStructs \cup {NULL}]
    BY DEF Runs, Sound, Typed
  <1>2. task' = [t EXCEPT ![current] = r] /\ current' = current
    BY <1>1 DEF Return
  <1>3. r \in TaskStructs /\ r.pid = c.pid /\ r.father = c.father /\ r.state = "run" /\ r.pc = "ret"
    <2> HIDE DEF c
    <2>1. 0 \in {ANY} \cup 0 .. PID_MAX
      BY Constants
    <2> QED BY <1>1, <2>1 DEF TaskStructs
  <1>4. Lives(r)
    BY <1>3 DEF Lives
  <1> HIDE DEF r
  <1>5. Sound([t EXCEPT ![current] = r]) /\ Runs([t EXCEPT ![current] = r], current)
    BY <1>3, <1>4, MeSound
  <1> QED BY <1>2, <1>5

-----------------------------------------------------------------------------
\* The remainder of a number below twice the divisor.
LEMMA WrapPid ==
    ASSUME NEW m \in Nat \ {0}, NEW x \in 0 .. 2 * m - 1
    PROVE  x % m = IF x < m THEN x ELSE x - m
  OBVIOUS

\* There are more process numbers than tasks, so find_empty_process finds one
\* that nobody has.
LEMMA PidIsNew ==
    ASSUME IInv
    PROVE  NextPid \in 1 .. PID_MAX /\ \A i \in Slots : task[i] # NULL => task[i].pid # NextPid
  <1> DEFINE after(n) == ((last_pid + n - 1) % PID_MAX) + 1
             P(n) == after(n) \notin InUse /\ \A k \in 1 .. n - 1 : after(k) \in InUse
  <1>0. last_pid \in 1 .. PID_MAX /\ PID_MAX \in Nat \ {0} /\ PID_MAX >= NR_TASKS /\ NR_TASKS \in Nat /\ NR_TASKS > 2
    BY Constants DEF IInv, Numbers
  <1>1. PICK p \in 1 .. PID_MAX : p \notin InUse
    <2>1. IsFiniteSet(Slots) /\ Cardinality(Slots) = NR_TASKS - 1
      <3>1. 1 \in Int /\ NR_TASKS - 1 \in Int /\ ~(1 > NR_TASKS - 1)
        BY <1>0
      <3> QED BY <1>0, <3>1, FS_Interval DEF Slots
    <2>2. IsFiniteSet(Used) /\ Cardinality(Used) <= NR_TASKS - 1 /\ Cardinality(Used) \in Nat
      <3>1. Used \subseteq Slots
        BY DEF Used
      <3> QED BY <2>1, <3>1, FS_Subset, FS_CardinalityType
    <2>3. IsFiniteSet(InUse) /\ Cardinality(InUse) <= Cardinality(Used) /\ Cardinality(InUse) \in Nat
      <3> DEFINE f == [i \in Used |-> task[i].pid]
      <3>1. f \in Surjection(Used, InUse)
        BY DEF Surjection, InUse
      <3> QED BY <2>2, <3>1, FS_Surjection, FS_CardinalityType
    <2>4. IsFiniteSet(1 .. PID_MAX) /\ Cardinality(1 .. PID_MAX) = PID_MAX
      <3>1. 1 \in Int /\ PID_MAX \in Int /\ ~(1 > PID_MAX)
        BY <1>0
      <3> QED BY <1>0, <3>1, FS_Interval
    <2>5. ASSUME 1 .. PID_MAX \subseteq InUse PROVE FALSE
      <3>1. Cardinality(1 .. PID_MAX) <= Cardinality(InUse)
        BY <2>3, <2>5, FS_Subset
      <3> QED BY <1>0, <2>2, <2>3, <2>4, <3>1
    <2> QED BY <2>5
  <1>2. \A n \in 1 .. PID_MAX : after(n) \in 1 .. PID_MAX
    <2> TAKE n \in 1 .. PID_MAX
    <2> DEFINE x == last_pid + n - 1
    <2>1. x \in Int /\ PID_MAX \in Nat /\ PID_MAX > 0
      BY <1>0
    <2> HIDE DEF x
    <2>2. x % PID_MAX \in 0 .. PID_MAX - 1
      BY <2>1
    <2> QED BY <1>0, <2>2 DEF x
  <1>3. \E n \in 1 .. PID_MAX : after(n) = p
    <2>1. CASE p > last_pid
      <3> DEFINE n == p - last_pid  x == last_pid + n - 1
      <3>1. n \in 1 .. PID_MAX /\ x = p - 1 /\ x \in 0 .. 2 * PID_MAX - 1 /\ x < PID_MAX
        BY <1>0, <2>1
      <3>2. x % PID_MAX = x
        <4> HIDE DEF x
        <4> QED BY <1>0, <3>1, WrapPid
      <3>3. after(n) = p
        BY <1>0, <3>1, <3>2
      <3> QED BY <3>1, <3>3
    <2>2. CASE ~(p > last_pid)
      <3> DEFINE n == p - last_pid + PID_MAX  x == last_pid + n - 1
      <3>1. n \in 1 .. PID_MAX /\ x = p - 1 + PID_MAX /\ x \in 0 .. 2 * PID_MAX - 1 /\ ~(x < PID_MAX)
        BY <1>0, <2>2
      <3>2. x % PID_MAX = x - PID_MAX
        <4> HIDE DEF x
        <4> QED BY <1>0, <3>1, WrapPid
      <3>3. after(n) = p
        BY <1>0, <3>1, <3>2
      <3> QED BY <3>1, <3>3
    <2> QED BY <2>1, <2>2
  <1> HIDE DEF after
  <1>4. \E n \in 1 .. PID_MAX : P(n)
    <2> DEFINE T == {n \in 1 .. PID_MAX : after(n) \notin InUse}
    <2>1. T \in SUBSET Nat /\ T # {}
      BY <1>0, <1>1, <1>3
    <2>2. PICK n \in T : \A k \in T : n <= k
      <3> HIDE DEF T
      <3> QED BY <2>1, LeastNatural
    <2>3. ASSUME NEW k \in 1 .. n - 1 PROVE after(k) \in InUse
      <3>1. k \in 1 .. PID_MAX /\ ~(n <= k)
        BY <1>0, <2>2
      <3> QED BY <2>2, <3>1
    <2> QED BY <2>2, <2>3
  <1> DEFINE d == CHOOSE n \in 1 .. PID_MAX : P(n)
  <1>5. d \in 1 .. PID_MAX /\ P(d)
    BY <1>4
  <1>6. NextPid = after(d)
    BY DEF NextPid, after
  <1> HIDE DEF d
  <1>7. NextPid \in 1 .. PID_MAX /\ NextPid \notin InUse
    BY <1>2, <1>5, <1>6
  <1> QED BY <1>7 DEF InUse, Used

\* fork: the child has a number of its own and a father who lives.
LEMMA ForkInv ==
    ASSUME IInv, Fork
    PROVE  IInv'
  <1> DEFINE free == Slots \ Used
             nr == CHOOSE i \in free : \A j \in free : i <= j
             child == [Me EXCEPT !.pid = NextPid, !.father = Me.pid, !.counter = PRIORITY,
                                 !.signal = {}, !.pc = "ret", !.leader = IsInit,
                                 !.session = IF IsInit THEN NextPid ELSE @]
  <1>0. /\ current # 0 /\ Me.pc = "user" /\ current \in Slots /\ Me \in TaskStructs /\ Me = task[current]
        /\ Me # NULL /\ Me.state = "run" /\ task \in [Slots -> TaskStructs \cup {NULL}]
        /\ Sound(task) /\ Runs(task, current) /\ forks \in 0 .. MaxForks /\ shell \in 0 .. PID_MAX
    <2>1. current # 0 /\ Me.pc = "user"
      BY DEF Fork, InUser, Me
    <2> QED BY <2>1, Running DEF IInv, Numbers
  <1>1. NextPid \in 1 .. PID_MAX /\ \A i \in Slots : task[i] # NULL => task[i].pid # NextPid
    BY PidIsNew
  <1>2. last_pid' = NextPid
    BY DEF Fork
  <1>3. CASE /\ free # {} /\ Return([task EXCEPT ![nr] = child])
             /\ shell' = IF IsInit THEN NextPid ELSE shell
             /\ forks' = IF IsInit THEN forks ELSE forks + 1
    <2>1. nr \in free
      <3>1. free \in SUBSET Nat
        BY Constants DEF Slots
      <3>2. \E i \in free : \A j \in free : i <= j
        <4> HIDE DEF free
        <4> QED BY <1>3, <3>1, LeastNatural
      <3> HIDE DEF free
      <3> QED BY <3>2
    <2>2. nr \in Slots /\ task[nr] = NULL
      BY <2>1 DEF Used
    <2> HIDE DEF nr
    <2>3. /\ child \in TaskStructs /\ child.pid = NextPid /\ child.father = Me.pid
      <3> DEFINE m == Me  n == NextPid  s == IF IsInit THEN NextPid ELSE m.session  l == IsInit
      <3>1. m.session \in 0 .. PID_MAX /\ m.pid \in 1 .. PID_MAX /\ m.pid \in 0 .. PID_MAX /\ m \in TaskStructs
        BY <1>0, TaskFields, Constants
      <3>2. s \in 0 .. PID_MAX /\ n \in 1 .. PID_MAX
        BY <1>1, <3>1, Constants
      <3>3. PRIORITY \in 0 .. 2 * PRIORITY /\ {} \in SUBSET Signals
        BY Constants
      <3>4. l \in BOOLEAN
        BY DEF IsInit
      <3>5. child = [m EXCEPT !.pid = n, !.father = m.pid, !.counter = PRIORITY,
                              !.signal = {}, !.pc = "ret", !.leader = l, !.session = s]
        OBVIOUS
      <3> HIDE DEF m, n, s, l, child
      <3>6. child \in TaskStructs
        BY <3>1, <3>2, <3>3, <3>4, <3>5 DEF TaskStructs
      <3>7. child.pid = n /\ child.father = m.pid
        BY <3>1, <3>5 DEF TaskStructs
      <3> QED BY <3>6, <3>7 DEF m, n
    <2> HIDE DEF child
    <2> DEFINE t == [task EXCEPT ![nr] = child]
    <2>4. Lives(task[current])
      BY <1>0 DEF Lives
    <2>5. Sound(t)
      BY <1>0, <1>1, <2>2, <2>3, <2>4, AddSound
    <2>6. nr # current /\ Runs(t, current) /\ Lives(t[current])
      BY <1>0, <2>2, <2>4 DEF Runs
    <2> HIDE DEF t
    <2>7. Return(t)
      BY <1>3 DEF t
    <2>8. Sound(task') /\ Runs(task', current')
      BY <1>0, <2>5, <2>6, <2>7, ReturnSound
    <2>9. ~IsInit => forks < MaxForks
      BY DEF Fork
    <2>10. Numbers'
      BY <1>0, <1>1, <1>2, <1>3, <2>9, Constants DEF Numbers
    <2> QED BY <2>8, <2>10 DEF IInv
  <1>4. CASE Return(task) /\ UNCHANGED <<shell, forks>>
    <2>0. Lives(task[current])
      BY <1>0 DEF Lives
    <2>1. Sound(task') /\ Runs(task', current')
      BY <1>0, <1>4, <2>0, ReturnSound
    <2> QED BY <1>0, <1>1, <1>2, <1>4, <2>1 DEF IInv, Numbers
  <1> QED BY <1>3, <1>4 DEF Fork

\* Only init has the idle task for a father, and its number is 1.
LEMMA InitIsOne ==
    ASSUME NEW t, Sound(t), NEW m \in Slots, t[m] # NULL, t[m].father = 0
    PROVE  t[m].pid = 1
  <1>1. ~HasFather(t, m)
    <2> SUFFICES ASSUME NEW j \in Slots, t[j] # NULL, t[j].pid = 0 PROVE FALSE
      BY DEF HasFather
    <2>1. t[j] \in TaskStructs
      BY DEF Sound, Typed
    <2>2. t[j].pid \in 1 .. PID_MAX
      BY <2>1, TaskFields
    <2> QED BY <2>2, Constants
  <1> QED BY <1>1 DEF Sound, Fathers

\* do_exit: the children have process 1 for a father before their father stops
\* to be one.
LEMMA ExitSound ==
    ASSUME NEW t, Sound(t), Runs(t, current), current # 0,
           t[current].pid = Me.pid
    PROVE  Sound(ExitStart(t)) /\ Runs(ExitStart(t), current)
  <1> DEFINE u == ExitStart(t)
  <1>0. /\ t \in [Slots -> TaskStructs \cup {NULL}] /\ Unique(t) /\ Fathers(t)
        /\ current \in Slots /\ t[current] # NULL /\ t[current].state = "run"
    BY DEF Sound, Typed, Runs
  <1>1. ASSUME NEW i \in Slots
        PROVE  /\ u[i] \in TaskStructs \cup {NULL} /\ (u[i] = NULL <=> t[i] = NULL)
               /\ t[i] # NULL => /\ u[i].pid = t[i].pid /\ u[i].state = t[i].state
                                 /\ u[i].father = (IF t[i].father = Me.pid THEN 1 ELSE t[i].father)
                                 /\ u[i].pc = IF i = current THEN "close" ELSE t[i].pc
    <2>1. CASE t[i] = NULL
      BY <2>1 DEF ExitStart
    <2>2. CASE t[i] # NULL
      <3> DEFINE r == t[i]
                 dead == \E j \in Slots : t[j] # NULL /\ t[j].father = Me.pid /\ t[j].state = "zombie"
                 f == IF r.father = Me.pid THEN 1 ELSE r.father
                 c == IF i = current THEN "close" ELSE r.pc
                 g == IF i = 1 /\ dead THEN r.signal \cup {"CHLD"} ELSE r.signal
                 x == [r EXCEPT !.father = f, !.pc = c, !.signal = g]
      <3>1. u[i] = x
        BY <2>2 DEF ExitStart
      <3>2. r \in TaskStructs
        BY <1>0, <2>2
      <3>3. f \in 0 .. PID_MAX /\ g \in SUBSET Signals
        BY <3>2, TaskFields, Constants DEF Signals
      <3>4. c \in {"user", "ret", "wait", "pause", "close", "closed"}
        BY <3>2, TaskFields
      <3> HIDE DEF f, c, g, r
      <3>5. x \in TaskStructs
        BY <3>2, <3>3, <3>4 DEF TaskStructs
      <3>6. x.pid = r.pid /\ x.state = r.state /\ x.father = f /\ x.pc = c
        BY <3>2 DEF TaskStructs
      <3> HIDE DEF x
      <3>7. x # NULL
        BY <3>5, NullIsNoStruct
      <3> QED BY <2>2, <3>1, <3>5, <3>6, <3>7 DEF f, c, r
    <2> QED BY <2>1, <2>2
  <1>2. Typed(u)
    BY <1>1 DEF Typed, ExitStart
  <1> HIDE DEF u
  <1>3. Unique(u)
    BY <1>0, <1>1 DEF Unique
  <1>4. Me.pid # 0
    <2>1. t[current] \in TaskStructs
      BY <1>0
    <2>2. t[current].pid \in 1 .. PID_MAX
      BY <2>1, TaskFields
    <2> QED BY <2>2, Constants
  <1>5. \A j \in Slots : /\ u[j] # NULL /\ Lives(u[j]) /\ j # current => t[j] # NULL /\ Lives(t[j])
                         /\ t[j] # NULL /\ Lives(t[j]) /\ j # current => u[j] # NULL /\ Lives(u[j])
    BY <1>1 DEF Lives
  <1>6. Fathers(u)
    <2> SUFFICES ASSUME NEW i \in Slots, u[i] # NULL
                 PROVE  \/ u[i].father = 0 /\ u[i].pid = 1
                        \/ u[i].father = 1 /\ ~HasInit(u)
                        \/ HasFather(u, i)
      BY DEF Fathers
    <2>1. /\ t[i] # NULL /\ u[i].pid = t[i].pid
          /\ u[i].father = (IF t[i].father = Me.pid THEN 1 ELSE t[i].father)
      BY <1>1
    <2>2. ~Lives(u[current])
      <3>1. u[current].pc = "close"
        BY <1>0, <1>1
      <3> QED BY <3>1 DEF Lives
    <2>3. HasInit(u) => \E m \in Slots : /\ u[m] # NULL /\ Lives(u[m]) /\ m # current /\ t[m] # NULL
                                        /\ t[m].father = 0 /\ u[m].pid = t[m].pid
      <3> SUFFICES ASSUME NEW m \in Slots, u[m] # NULL, u[m].father = 0, Lives(u[m])
                   PROVE  m # current /\ t[m] # NULL /\ t[m].father = 0 /\ u[m].pid = t[m].pid
        BY DEF HasInit
      <3>1. /\ t[m] # NULL /\ u[m].pid = t[m].pid
            /\ u[m].father = (IF t[m].father = Me.pid THEN 1 ELSE t[m].father)
        BY <1>1
      <3> QED BY <2>2, <3>1
    <2>4. HasInit(u) => HasInit(t)
      BY <1>5, <2>3 DEF HasInit
    <2>5. CASE t[i].father = 0 /\ t[i].pid = 1
      BY <1>4, <2>1, <2>5
    <2>6. CASE t[i].father = 1 /\ ~HasInit(t)
      BY <2>1, <2>4, <2>6
    <2>7. CASE HasFather(t, i) /\ t[i].father = Me.pid
      <3>1. u[i].father = 1
        BY <2>1, <2>7
      <3>2. CASE ~HasInit(u)
        BY <3>1, <3>2
      <3>3. CASE HasInit(u)
        <4>1. PICK m \in Slots : /\ u[m] # NULL /\ Lives(u[m]) /\ t[m] # NULL
                                 /\ t[m].father = 0 /\ u[m].pid = t[m].pid
          BY <2>3, <3>3
        <4>2. t[m].pid = 1
          BY <4>1, InitIsOne
        <4> QED BY <3>1, <4>1, <4>2 DEF HasFather
      <3> QED BY <3>2, <3>3
    <2>8. CASE HasFather(t, i) /\ t[i].father # Me.pid
      <3>1. PICK j \in Slots : t[j] # NULL /\ t[j].pid = t[i].father /\ Lives(t[j])
        BY <2>8 DEF HasFather
      <3>2. j # current
        BY <2>8, <3>1
      <3>3. u[j] # NULL /\ u[j].pid = t[j].pid /\ Lives(u[j])
        BY <1>1, <1>5, <3>1, <3>2
      <3> QED BY <2>1, <2>8, <3>1, <3>3 DEF HasFather
    <2> QED BY <1>0, <2>1, <2>5, <2>6, <2>7, <2>8 DEF Fathers
  <1>7. Sound(u) /\ Runs(u, current)
    BY <1>0, <1>1, <1>2, <1>3, <1>6 DEF Sound, Runs
  <1> QED BY <1>7 DEF u

-----------------------------------------------------------------------------
\* The clock, the idle task and the calls that sleep or return at once.
LEMMA CallsInv ==
    ASSUME IInv,
           \/ Idle \/ Tick \/ ExitSleep \/ Pause \/ Paused
           \/ \E i \in Slots : Wake(i)
           \/ \E m \in Masks : SetMask(m)
           \/ \E pid \in Named : Kill(pid)
    PROVE  IInv'
  <1>0. Sound(task) /\ Runs(task, current) /\ Numbers
    BY DEF IInv
  <1>1. UNCHANGED <<last_pid, shell, forks>>
    BY DEF Idle, Tick, ExitSleep, Pause, Paused, Wake, SetMask, Kill
  <1>2. Numbers'
    BY <1>0, <1>1 DEF Numbers
  <1>3. SUFFICES Sound(task') /\ Runs(task', current')
    BY <1>2 DEF IInv
  <1>4. CASE Idle
    BY <1>0, <1>4, ScheduleSound DEF Idle
  <1>5. CASE Tick
    <2> DEFINE k == IF Me.counter > 0 THEN Me.counter - 1 ELSE 0
               r == [Me EXCEPT !.counter = k, !.pc = "ret"]
               t == [task EXCEPT ![current] = r]
    <2>1. /\ current # 0 /\ current \in Slots /\ Me \in TaskStructs /\ Me = task[current] /\ Me.state = "run"
          /\ task \in [Slots -> TaskStructs \cup {NULL}]
      BY <1>5, Running DEF Tick
    <2>0. Lives(task[current])
      <3>1. Me.pc = "user"
        BY <1>5 DEF Tick, Me
      <3> QED BY <2>1, <3>1 DEF Lives
    <2>2. k \in 0 .. 2 * PRIORITY
      BY <2>1, TaskFields, Constants
    <2> HIDE DEF k
    <2>3. r \in TaskStructs /\ r.pid = Me.pid /\ r.father = Me.father /\ r.state = "run" /\ r.pc = "ret"
      BY <2>1, <2>2 DEF TaskStructs
    <2>4. t = [task EXCEPT ![current].counter = IF @ > 0 THEN @ - 1 ELSE 0, ![current].pc = "ret"]
      BY <2>1 DEF k, Me
    <2> HIDE DEF r
    <2>5. Lives(r)
      BY <2>3 DEF Lives
    <2>6. Sound(t) /\ Runs(t, current)
      BY <1>0, <2>0, <2>1, <2>3, <2>5, MeSound
    <2> HIDE DEF t
    <2>7. schedule(t) \/ (task' = t /\ current' = current)
      BY <1>5, <2>4 DEF Tick
    <2> QED BY <2>6, <2>7, ScheduleSound
  <1>6. CASE ExitSleep
    <2> DEFINE r == [Me EXCEPT !.state = "unint", !.pc = "closed"]
               t == [task EXCEPT ![current] = r]
    <2>1. /\ current # 0 /\ current \in Slots /\ Me \in TaskStructs /\ Me = task[current] /\ Me.pc = "close"
          /\ task \in [Slots -> TaskStructs \cup {NULL}]
      BY <1>6, Running DEF ExitSleep
    <2>2. r \in TaskStructs /\ r.pid = Me.pid /\ r.father = Me.father /\ r.pc = "closed"
      BY <2>1 DEF TaskStructs
    <2>3. t = [task EXCEPT ![current].state = "unint", ![current].pc = "closed"]
      BY <2>1 DEF Me
    <2> HIDE DEF r
    <2>4. ~Lives(task[current]) /\ ~Lives(r)
      BY <2>1, <2>2 DEF Lives
    <2>5. Sound(t)
      BY <1>0, <2>1, <2>2, <2>4, MeSound
    <2> HIDE DEF t
    <2> QED BY <1>6, <2>3, <2>5, ScheduleSound DEF ExitSleep
  <1>7. CASE Pause
    <2> DEFINE r == [Me EXCEPT !.pc = "pause", !.state = "int"]
               t == [task EXCEPT ![current] = r]
    <2>1. /\ current # 0 /\ current \in Slots /\ Me \in TaskStructs /\ Me = task[current]
          /\ task \in [Slots -> TaskStructs \cup {NULL}]
      BY <1>7, Running DEF Pause, InUser
    <2>0. Lives(task[current])
      <3>1. Me.pc = "user" /\ current # 0
        BY <1>7 DEF Pause, InUser, Me
      <3> QED BY <2>1, <3>1, Running
    <2>2. r \in TaskStructs /\ r.pid = Me.pid /\ r.father = Me.father /\ r.state = "int" /\ r.pc = "pause"
      BY <2>1 DEF TaskStructs
    <2>3. t = [task EXCEPT ![current].pc = "pause", ![current].state = "int"]
      BY <2>1 DEF Me
    <2> HIDE DEF r
    <2>4. Lives(r)
      BY <2>2 DEF Lives
    <2>5. Sound(t)
      BY <1>0, <2>0, <2>1, <2>2, <2>4, MeSound
    <2> HIDE DEF t
    <2> QED BY <1>7, <2>3, <2>5, ScheduleSound DEF Pause
  <1>8. CASE Paused
    <2>1. current # 0 /\ Me.pc = "pause"
      BY <1>8 DEF Paused
    <2>2. Lives(task[current])
      BY <2>1, Running
    <2> QED BY <1>0, <1>8, <2>1, <2>2, ReturnSound DEF Paused
  <1>9. ASSUME NEW i \in Slots, Wake(i) PROVE Sound(task') /\ Runs(task', current')
    <2> DEFINE c == task[i]  r == [c EXCEPT !.state = "run"]
    <2>1. /\ c # NULL /\ c \in TaskStructs /\ c.state = "unint" /\ task \in [Slots -> TaskStructs \cup {NULL}]
      BY <1>0, <1>9 DEF Wake, Sound, Typed
    <2>2. task' = [task EXCEPT ![i] = r] /\ current' = current
      BY <1>9, <2>1 DEF Wake
    <2>3. r \in TaskStructs /\ r.pid = c.pid /\ r.father = c.father /\ r.state = "run" /\ r.pc = c.pc
      <3> HIDE DEF c
      <3> QED BY <2>1 DEF TaskStructs
    <2> HIDE DEF r
    <2>4. Lives(c) <=> Lives(r)
      BY <2>1, <2>3 DEF Lives
    <2>5. Sound(task')
      BY <1>0, <2>1, <2>2, <2>3, <2>4, UpdateSound
    <2>6. task'[i] = r /\ r # NULL /\ \A j \in Slots : j # i => task'[j] = task[j]
      BY <2>1, <2>2, <2>3, NullIsNoStruct
    <2>7. Runs(task', current')
      BY <1>0, <2>2, <2>3, <2>6 DEF Runs
    <2> QED BY <2>5, <2>7
  <1>10. ASSUME NEW m \in Masks, SetMask(m) PROVE Sound(task') /\ Runs(task', current')
    <2> DEFINE r == [Me EXCEPT !.blocked = m]
               t == [task EXCEPT ![current] = r]
    <2>1. /\ current # 0 /\ current \in Slots /\ Me \in TaskStructs /\ Me = task[current] /\ Me.state = "run"
          /\ task \in [Slots -> TaskStructs \cup {NULL}]
      BY <1>10, Running DEF SetMask, InUser
    <2>0. Lives(task[current])
      <3>1. Me.pc = "user" /\ current # 0
        BY <1>10 DEF SetMask, InUser, Me
      <3> QED BY <2>1, <3>1, Running
    <2>2. r \in TaskStructs /\ r.pid = Me.pid /\ r.father = Me.father /\ r.state = Me.state /\ r.pc = Me.pc
      BY <2>1 DEF TaskStructs
    <2>3. t = [task EXCEPT ![current].blocked = m]
      BY <2>1 DEF Me
    <2> HIDE DEF r
    <2>4. Lives(r)
      BY <2>0, <2>1, <2>2 DEF Lives
    <2>5. Sound(t) /\ Runs(t, current)
      BY <1>0, <2>0, <2>1, <2>2, <2>4, MeSound
    <2>6. Lives(t[current])
      BY <2>1, <2>4
    <2> HIDE DEF t
    <2> QED BY <1>10, <2>1, <2>3, <2>5, <2>6, ReturnSound DEF SetMask
  <1>11. ASSUME NEW pid \in Named, Kill(pid) PROVE Sound(task') /\ Runs(task', current')
    <2> DEFINE hit(i) == i \in Used /\ task[i].pid = pid /\ task[i].state # "zombie"
               t == [i \in Slots |-> IF hit(i) THEN [task[i] EXCEPT !.signal = @ \cup {"TERM"}] ELSE task[i]]
    <2>1. ASSUME NEW i \in Slots
          PROVE  /\ t[i] \in TaskStructs \cup {NULL} /\ (t[i] = NULL <=> task[i] = NULL)
                 /\ task[i] # NULL => /\ t[i].pid = task[i].pid /\ t[i].father = task[i].father
                                      /\ t[i].state = task[i].state /\ t[i].pc = task[i].pc
      <3>0. task[i] \in TaskStructs \cup {NULL}
        BY <1>0 DEF Sound, Typed
      <3>1. CASE ~hit(i)
        BY <3>0, <3>1
      <3>2. CASE hit(i)
        <4> DEFINE c == task[i]  r == [c EXCEPT !.signal = @ \cup {"TERM"}]
        <4>1. c \in TaskStructs /\ t[i] = r
          BY <3>0, <3>2 DEF Used
        <4>2. c.signal \cup {"TERM"} \in SUBSET Signals
          BY <4>1, TaskFields DEF Signals
        <4> HIDE DEF c
        <4>3. r \in TaskStructs /\ r.pid = c.pid /\ r.father = c.father /\ r.state = c.state /\ r.pc = c.pc
          BY <4>1, <4>2 DEF TaskStructs
        <4> HIDE DEF r
        <4> QED BY <4>1, <4>3, NullIsNoStruct DEF c
      <3> QED BY <3>1, <3>2
    <2>2. Typed(t)
      BY <2>1 DEF Typed
    <2>3. Return(t)
      BY <1>11 DEF Kill
    <2> HIDE DEF t
    <2>4. \A i \in Slots : task[i] # NULL => (Lives(task[i]) <=> Lives(t[i]))
      BY <2>1 DEF Lives
    <2>5. Sound(t)
      BY <1>0, <2>1, <2>2, <2>4, Frame
    <2>6. Runs(t, current) /\ current # 0
      BY <1>0, <1>11, <2>1 DEF Runs, Kill, InUser
    <2>7. Lives(t[current])
      <3>1. Me.pc = "user"
        BY <1>11 DEF Kill, InUser, Me
      <3>2. current \in Slots /\ task[current] # NULL /\ Lives(task[current])
        BY <2>6, <3>1, Running
      <3> QED BY <2>4, <3>2
    <2> QED BY <2>3, <2>5, <2>6, <2>7, ReturnSound
  <1> QED BY <1>4, <1>5, <1>6, <1>7, <1>8, <1>9, <1>10, <1>11

\* exit and the delivery of signals.
LEMMA DeliverInv ==
    ASSUME IInv, Exit \/ Deliver
    PROVE  IInv'
  <1>0. Sound(task) /\ Runs(task, current) /\ Numbers
    BY DEF IInv
  <1>1. /\ current # 0 /\ current \in Slots /\ Me \in TaskStructs /\ Me = task[current] /\ Me.state = "run"
        /\ task \in [Slots -> TaskStructs \cup {NULL}] /\ Me.pc \in {"user", "ret"}
    <2>1. current # 0 /\ Me.pc \in {"user", "ret"}
      BY DEF Exit, Deliver, InUser, Me
    <2> QED BY <2>1, Running
  <1>2. UNCHANGED <<current, last_pid, shell, forks>>
    BY DEF Exit, Deliver
  <1>3. Numbers'
    BY <1>0, <1>2 DEF Numbers
  <1>4. SUFFICES Sound(task') /\ Runs(task', current)
    BY <1>2, <1>3 DEF IInv
  <1>5. CASE Exit
    BY <1>0, <1>1, <1>5, ExitSound DEF Exit
  <1>6. CASE Deliver
    <2> DEFINE open == Me.signal \ Me.blocked
               s == IF "TERM" \in open THEN "TERM" ELSE "CHLD"
               g == Me.signal \ {s}
               r == [Me EXCEPT !.signal = g, !.pc = "user"]
               q == [Me EXCEPT !.pc = "user"]
               t == [task EXCEPT ![current] = r]
               v == [task EXCEPT ![current] = q]
    <2>1. g \in SUBSET Signals
      BY <1>1, TaskFields
    <2>2. /\ t = [task EXCEPT ![current].signal = @ \ {s}, ![current].pc = "user"]
          /\ v = [task EXCEPT ![current].pc = "user"]
      BY <1>1
    <2>3. \/ task' = v \/ task' = t
          \/ task' = ExitStart(t)
      BY <1>6, <2>2 DEF Deliver
    <2> HIDE DEF g
    <2>4. r \in TaskStructs /\ r.pid = Me.pid /\ r.father = Me.father /\ r.state = "run" /\ r.pc = "user"
      BY <1>1, <2>1 DEF TaskStructs
    <2>5. q \in TaskStructs /\ q.pid = Me.pid /\ q.father = Me.father /\ q.state = "run" /\ q.pc = "user"
      BY <1>1 DEF TaskStructs
    <2> HIDE DEF r, q
    <2>6. Lives(r) /\ Lives(q) /\ Lives(task[current])
      BY <1>1, <2>4, <2>5 DEF Lives
    <2>7. Sound(t) /\ Runs(t, current)
      BY <1>0, <1>1, <2>4, <2>6, MeSound
    <2>8. Sound(v) /\ Runs(v, current)
      BY <1>0, <1>1, <2>5, <2>6, MeSound
    <2>9. t[current].pid = Me.pid
      BY <1>1, <2>4
    <2> HIDE DEF t, v
    <2>10. CASE task' = ExitStart(t)
      BY <1>1, <2>7, <2>9, <2>10, ExitSound
    <2> QED BY <2>3, <2>7, <2>8, <2>10
  <1> QED BY <1>5, <1>6

-----------------------------------------------------------------------------
\* The end of do_exit: a father is told, or the task, which is nobody's father,
\* releases itself.
LEMMA ExitEndInv ==
    ASSUME IInv, ExitEnd
    PROVE  IInv'
  <1>0. Sound(task) /\ Runs(task, current) /\ Numbers
    BY DEF IInv
  <1>1. /\ current # 0 /\ current \in Slots /\ Me \in TaskStructs /\ Me = task[current] /\ Me # NULL
        /\ task \in [Slots -> TaskStructs \cup {NULL}] /\ ~Lives(Me)
    <2>1. current # 0 /\ Me.pc \in {"close", "closed"}
      BY DEF ExitEnd
    <2>2. ~Lives(Me)
      BY <2>1 DEF Lives
    <2> QED BY <2>1, <2>2, Running
  <1> DEFINE k == kill_session
             hit(i) == i \in Used /\ Me.leader /\ task[i].session = Me.session /\ task[i].state # "zombie"
  <1>2. ASSUME NEW i \in Slots
        PROVE  /\ k[i] \in TaskStructs \cup {NULL} /\ (k[i] = NULL <=> task[i] = NULL)
               /\ task[i] # NULL => /\ k[i].pid = task[i].pid /\ k[i].father = task[i].father
                                    /\ k[i].state = task[i].state /\ k[i].pc = task[i].pc
    <2>0. task[i] \in TaskStructs \cup {NULL}
      BY <1>1
    <2>1. CASE ~hit(i)
      BY <2>0, <2>1 DEF kill_session
    <2>2. CASE hit(i)
      <3> DEFINE c == task[i]  r == [c EXCEPT !.signal = @ \cup {"TERM"}]
      <3>1. c \in TaskStructs /\ k[i] = r
        BY <2>0, <2>2 DEF Used, kill_session
      <3>2. c.signal \cup {"TERM"} \in SUBSET Signals
        BY <3>1, TaskFields DEF Signals
      <3> HIDE DEF c
      <3>3. r \in TaskStructs /\ r.pid = c.pid /\ r.father = c.father /\ r.state = c.state /\ r.pc = c.pc
        BY <3>1, <3>2 DEF TaskStructs
      <3> HIDE DEF r
      <3> QED BY <3>1, <3>3, NullIsNoStruct DEF c
    <2> QED BY <2>1, <2>2
  <1>3. Typed(k)
    BY <1>2 DEF Typed, kill_session
  <1> HIDE DEF k
  <1>4. Sound(k)
    <2>1. \A i \in Slots : task[i] # NULL => (Lives(task[i]) <=> Lives(k[i]))
      BY <1>2 DEF Lives
    <2> QED BY <1>0, <1>2, <1>3, <2>1, Frame
  <1> DEFINE c == k[current]
             r == [c EXCEPT !.state = "zombie", !.signal = {}, !.blocked = {}, !.counter = 0,
                            !.session = 0, !.leader = FALSE]
             t == [k EXCEPT ![current] = r]
  <1>5. c \in TaskStructs /\ c # NULL /\ ~Lives(c) /\ c.father = Me.father
    <2>1. c \in TaskStructs /\ c # NULL /\ c.state = Me.state /\ c.pc = Me.pc /\ c.father = Me.father
      BY <1>1, <1>2
    <2> QED BY <1>1, <2>1 DEF Lives
  <1>6. r \in TaskStructs /\ r.pid = c.pid /\ r.father = c.father /\ r.state = "zombie"
    <2>1. 0 \in 0 .. 2 * PRIORITY /\ {} \in SUBSET Signals /\ {} \in Masks /\ 0 \in 0 .. PID_MAX
      BY Constants
    <2> HIDE DEF c
    <2> QED BY <1>5, <2>1 DEF TaskStructs
  <1>7. t = [k EXCEPT ![current] = [@ EXCEPT !.state = "zombie", !.signal = {}, !.blocked = {},
                                             !.counter = 0, !.session = 0, !.leader = FALSE]]
    BY <1>1, <1>3 DEF Typed
  <1> HIDE DEF r
  <1>8. Sound(t) /\ ~Lives(t[current])
    <2>1. ~Lives(r)
      BY <1>6 DEF Lives
    <2>2. Sound(t)
      BY <1>1, <1>4, <1>5, <1>6, <2>1, UpdateSound
    <2> QED BY <1>1, <1>3, <2>1, <2>2 DEF Typed
  <1>9. \A i \in Slots : t[i] = NULL <=> task[i] = NULL
    BY <1>1, <1>2, <1>3, <1>5, <1>6, NullIsNoStruct DEF Typed
  <1>10. schedule(tell_father(t))
    BY <1>7 DEF ExitEnd, k
  <1> HIDE DEF t
  <1> DEFINE F == {i \in Used : task[i].pid = Me.father}
             f == CHOOSE i \in Used : /\ task[i].pid = Me.father
                                      /\ \A j \in Used : task[j].pid = Me.father => i <= j
  <1>11. F \in SUBSET Nat
    BY Constants DEF Used, Slots
  <1>12. ASSUME F # {} PROVE Sound(tell_father(t))
    <2>1. f \in Used
      <3>1. PICK x \in F : \A y \in F : x <= y
        <4> HIDE DEF F
        <4> QED BY <1>11, <1>12, LeastNatural
      <3> QED BY <3>1
    <2>2. tell_father(t) = [t EXCEPT ![f].signal = @ \cup {"CHLD"}]
      BY <1>12 DEF tell_father
    <2> HIDE DEF f
    <2> DEFINE a == t[f]  b == [a EXCEPT !.signal = @ \cup {"CHLD"}]
    <2>3. f \in Slots /\ a # NULL /\ a \in TaskStructs /\ t \in [Slots -> TaskStructs \cup {NULL}]
      BY <1>8, <1>9, <2>1 DEF Used, Sound, Typed
    <2>4. a.signal \cup {"CHLD"} \in SUBSET Signals
      BY <2>3, TaskFields DEF Signals
    <2>5. tell_father(t) = [t EXCEPT ![f] = b]
      BY <2>2, <2>3
    <2>6. b \in TaskStructs /\ b.pid = a.pid /\ b.father = a.father /\ b.state = a.state /\ b.pc = a.pc
      <3> HIDE DEF a
      <3> QED BY <2>3, <2>4 DEF TaskStructs
    <2> HIDE DEF b
    <2>7. Lives(a) <=> Lives(b)
      BY <2>6 DEF Lives
    <2>8. Sound([t EXCEPT ![f] = b])
      BY <1>8, <2>3, <2>6, <2>7, UpdateSound
    <2> QED BY <2>5, <2>8
  <1>13. ASSUME F = {} PROVE Sound(tell_father(t))
    <2>1. tell_father(t) = [t EXCEPT ![current] = NULL]
      BY <1>13 DEF tell_father
    <2>2. t[current] # NULL
      BY <1>1, <1>9
    <2>3. Sound([t EXCEPT ![current] = NULL])
      BY <1>1, <1>8, <2>2, RemoveSound
    <2> QED BY <2>1, <2>3
  <1>14. Sound(tell_father(t))
    BY <1>12, <1>13
  <1> DEFINE v == tell_father(t)
  <1> HIDE DEF v
  <1>15. Sound(task') /\ Runs(task', current')
    <2>1. Sound(v) /\ schedule(v)
      BY <1>10, <1>14 DEF v
    <2> QED BY <2>1, ScheduleSound
  <1>16. Numbers'
    BY <1>0 DEF ExitEnd, Numbers
  <1> QED BY <1>15, <1>16 DEF IInv

\* sys_waitpid releases a zombie, which is nobody's father, or sleeps.
LEMMA ScanSound ==
    ASSUME IInv, current # 0, Me.pc \in {"user", "wait"}, NEW pid \in {ANY} \cup 0 .. PID_MAX,
           NEW hang \in BOOLEAN, Scan(pid, hang)
    PROVE  Sound(task') /\ Runs(task', current') /\ shell' \in 0 .. PID_MAX
  <1> DEFINE kids == {i \in Used : Matches(i, pid)}
             dead == {i \in kids : task[i].state = "zombie"}
             z == CHOOSE i \in dead : \A j \in dead : i >= j
  <1>0. /\ Sound(task) /\ Runs(task, current) /\ shell \in 0 .. PID_MAX
        /\ current \in Slots /\ Me \in TaskStructs /\ Me = task[current] /\ Me # NULL /\ Me.state = "run"
        /\ task \in [Slots -> TaskStructs \cup {NULL}] /\ Lives(task[current])
    BY Running DEF IInv, Numbers
  <1>1. CASE dead # {}
    <2>1. schedule([task EXCEPT ![z] = NULL, ![current].pc = "ret", ![current].arg = 0])
      BY <1>1 DEF Scan
    <2>2. shell' = IF IsInit /\ task[z].pid = shell THEN 0 ELSE shell
      BY <1>1 DEF Scan
    <2>3. shell' \in 0 .. PID_MAX
      BY <1>0, <2>2, Constants
    <2>4. z \in dead
      <3>1. dead \in SUBSET (0 .. NR_TASKS) /\ NR_TASKS \in Nat
        BY Constants DEF Used, Slots
      <3>2. \E x \in dead : \A y \in dead : y <= x
        <4> HIDE DEF dead
        <4> QED BY <1>1, <3>1, GreatestNatural
      <3>3. PICK x \in dead : \A y \in dead : y <= x
        BY <3>2
      <3>4. \A y \in dead : x >= y
        BY <3>1, <3>3
      <3> HIDE DEF dead
      <3> QED BY <3>4
    <2>5. z \in Slots /\ task[z] # NULL /\ z # current /\ ~Lives(task[z])
      BY <2>4 DEF Used, Matches, Lives
    <2> HIDE DEF z
    <2> DEFINE t == [task EXCEPT ![z] = NULL]
               r == [Me EXCEPT !.pc = "ret", !.arg = 0]
               u == [t EXCEPT ![current] = r]
    <2>6. Sound(t)
      BY <1>0, <2>5, RemoveSound
    <2>7. t[current] = Me /\ Runs(t, current) /\ t \in [Slots -> TaskStructs \cup {NULL}]
      BY <1>0, <2>5 DEF Runs
    <2>8. r \in TaskStructs /\ r.pid = Me.pid /\ r.father = Me.father /\ r.pc = "ret" /\ r.state = "run"
      <3>1. 0 \in {ANY} \cup 0 .. PID_MAX
        BY Constants
      <3> QED BY <1>0, <3>1 DEF TaskStructs
    <2>9. u = [task EXCEPT ![z] = NULL, ![current].pc = "ret", ![current].arg = 0]
      BY <1>0, <2>5
    <2> HIDE DEF r, t
    <2>10. Lives(r)
      BY <2>8 DEF Lives
    <2>11. Sound(u)
      BY <1>0, <2>6, <2>7, <2>8, <2>10, MeSound
    <2> HIDE DEF u
    <2>12. schedule(u)
      BY <2>1, <2>9
    <2> QED BY <2>3, <2>11, <2>12, ScheduleSound
  <1>2. CASE dead = {}
    <2>1. shell' \in 0 .. PID_MAX
      BY <1>0, <1>2 DEF Scan
    <2>2. CASE kids # {} /\ hang
      <3> DEFINE r == [Me EXCEPT !.pc = "wait", !.arg = pid, !.state = "int"]
                 t == [task EXCEPT ![current] = r]
      <3>1. r \in TaskStructs /\ r.pid = Me.pid /\ r.father = Me.father /\ r.pc = "wait" /\ r.state = "int"
        BY <1>0 DEF TaskStructs
      <3>2. t = [task EXCEPT ![current].pc = "wait", ![current].arg = pid, ![current].state = "int"]
        BY <1>0
      <3>3. schedule(t)
        BY <1>2, <2>2, <3>2 DEF Scan
      <3> HIDE DEF r
      <3>4. Lives(r)
        BY <3>1 DEF Lives
      <3>5. Sound(t)
        BY <1>0, <3>1, <3>4, MeSound
      <3> HIDE DEF t
      <3> QED BY <2>1, <3>3, <3>5, ScheduleSound
    <2>3. CASE ~(kids # {} /\ hang)
      <3>1. Return(task)
        BY <1>2, <2>3 DEF Scan
      <3> QED BY <1>0, <2>1, <3>1, ReturnSound
    <2> QED BY <2>2, <2>3
  <1> QED BY <1>1, <1>2

\* waitpid, begun and continued.
LEMMA WaitInv ==
    ASSUME IInv,
           \/ \E pid \in {ANY} \cup Named, hang \in BOOLEAN : Waitpid(pid, hang)
           \/ WaitAgain \/ WaitScan
    PROVE  IInv'
  <1>0. Sound(task) /\ Runs(task, current) /\ Numbers
    BY DEF IInv
  <1>1. UNCHANGED <<last_pid, forks>>
    BY DEF Waitpid, WaitAgain, WaitScan
  <1>2. SUFFICES Sound(task') /\ Runs(task', current') /\ shell' \in 0 .. PID_MAX
    BY <1>0, <1>1 DEF IInv, Numbers
  <1>3. ASSUME NEW pid \in {ANY} \cup Named, NEW hang \in BOOLEAN, Waitpid(pid, hang)
        PROVE  Sound(task') /\ Runs(task', current') /\ shell' \in 0 .. PID_MAX
    <2>1. pid \in {ANY} \cup 0 .. PID_MAX
      <3>1. \A n \in Named : n \in 1 .. PID_MAX
        BY ProcessConstants
      <3>2. CASE pid \in Named
        BY <3>1, <3>2, Constants
      <3> QED BY <3>2
    <2>2. current # 0 /\ Me.pc = "user" /\ Scan(pid, hang)
      BY <1>3 DEF Waitpid, InUser, Me
    <2> QED BY <2>1, <2>2, ScanSound
  <1>4. CASE WaitScan
    <2>1. current # 0 /\ Me.pc = "wait" /\ Scan(Me.arg, TRUE)
      BY <1>4 DEF WaitScan
    <2>2. Me.arg \in {ANY} \cup 0 .. PID_MAX
      BY <2>1, Running, TaskFields
    <2>3. ASSUME NEW a \in {ANY} \cup 0 .. PID_MAX, Scan(a, TRUE)
          PROVE  Sound(task') /\ Runs(task', current') /\ shell' \in 0 .. PID_MAX
      BY <2>1, <2>3, ScanSound
    <2> QED BY <2>1, <2>2, <2>3
  <1>5. CASE WaitAgain
    <2> DEFINE r == [Me EXCEPT !.signal = {}]
               g == Me.signal \ {"CHLD"}
               q == [Me EXCEPT !.signal = g]
               t == [task EXCEPT ![current] = r]
               v == [task EXCEPT ![current] = q]
    <2>1. /\ current # 0 /\ current \in Slots /\ Me \in TaskStructs /\ Me = task[current] /\ Me.state = "run"
          /\ task \in [Slots -> TaskStructs \cup {NULL}]
      BY <1>5, Running DEF WaitAgain
    <2>2. g \in SUBSET Signals /\ {} \in SUBSET Signals
      BY <2>1, TaskFields
    <2>3. t = [task EXCEPT ![current].signal = {}] /\ v = [task EXCEPT ![current].signal = @ \ {"CHLD"}]
      BY <2>1
    <2>4. (task' = t /\ current' = current) \/ Return(v)
      BY <1>5, <2>3 DEF WaitAgain
    <2>5. shell' \in 0 .. PID_MAX
      BY <1>0, <1>5 DEF WaitAgain, Numbers
    <2> HIDE DEF g
    <2>6. r \in TaskStructs /\ r.pid = Me.pid /\ r.father = Me.father /\ r.state = "run" /\ r.pc = Me.pc
      BY <2>1, <2>2 DEF TaskStructs
    <2>7. q \in TaskStructs /\ q.pid = Me.pid /\ q.father = Me.father /\ q.state = "run" /\ q.pc = Me.pc
      BY <2>1, <2>2 DEF TaskStructs
    <2> HIDE DEF r, q
    <2>8. Lives(task[current]) /\ Lives(r) /\ Lives(q)
      <3>1. Me.pc = "wait"
        BY <1>5 DEF WaitAgain
      <3> QED BY <2>1, <2>6, <2>7, <3>1 DEF Lives
    <2>9. Sound(t) /\ Runs(t, current)
      BY <1>0, <2>1, <2>6, <2>8, MeSound
    <2>10. Sound(v) /\ Runs(v, current)
      BY <1>0, <2>1, <2>7, <2>8, MeSound
    <2>11. Lives(v[current])
      BY <2>1, <2>8
    <2> HIDE DEF t, v
    <2> QED BY <2>1, <2>4, <2>5, <2>9, <2>10, <2>11, ReturnSound
  <1> QED BY <1>3, <1>4, <1>5

-----------------------------------------------------------------------------
\* Init alone.
LEMMA InitInv == Init => IInv
  <1> SUFFICES ASSUME Init PROVE IInv
    OBVIOUS
  <1> DEFINE r == [pid |-> 1, father |-> 0, state |-> "run", counter |-> PRIORITY,
                   signal |-> {}, blocked |-> {}, pc |-> "user", arg |-> 0,
                   session |-> 0, leader |-> FALSE]
  <1>1. r \in TaskStructs
    <2>1. /\ 1 \in 1 .. PID_MAX /\ 0 \in 0 .. PID_MAX /\ PRIORITY \in 0 .. 2 * PRIORITY /\ {} \in Masks
          /\ {} \in SUBSET Signals /\ 0 \in {ANY} \cup 0 .. PID_MAX
      BY Constants
    <2> QED BY <2>1 DEF TaskStructs
  <1>2. r.pid = 1 /\ r.father = 0 /\ r.state = "run" /\ r.pc = "user"
    OBVIOUS
  <1>3. task = [i \in Slots |-> IF i = 1 THEN r ELSE NULL] /\ current = 1
    BY DEF Init
  <1> HIDE DEF r
  <1>4. task[1] = r /\ r # NULL /\ \A i \in Slots : task[i] # NULL => i = 1
    BY <1>1, <1>3, NullIsNoStruct, Constants
  <1>5. Typed(task)
    BY <1>1, <1>3 DEF Typed
  <1>6. Unique(task) /\ Fathers(task)
    BY <1>2, <1>4 DEF Unique, Fathers
  <1>7. Runs(task, current)
    BY <1>2, <1>3, <1>4, Constants DEF Runs
  <1>8. Numbers
    BY Constants DEF Init, Numbers
  <1> QED BY <1>5, <1>6, <1>7, <1>8 DEF IInv, Sound

\* Every step keeps the invariant.
LEMMA NextInv == IInv /\ [Next]_vars => IInv'
  <1> SUFFICES ASSUME IInv, [Next]_vars PROVE IInv'
    OBVIOUS
  <1>1. CASE Idle \/ Tick \/ ExitSleep \/ Pause \/ Paused
    BY <1>1, CallsInv
  <1>2. ASSUME NEW i \in Slots, Wake(i) PROVE IInv'
    BY <1>2, CallsInv
  <1>3. ASSUME NEW m \in Masks, SetMask(m) PROVE IInv'
    BY <1>3, CallsInv
  <1>4. ASSUME NEW pid \in Named, Kill(pid) PROVE IInv'
    BY <1>4, CallsInv
  <1>5. CASE Exit \/ Deliver
    BY <1>5, DeliverInv
  <1>6. CASE ExitEnd
    BY <1>6, ExitEndInv
  <1>7. CASE WaitAgain \/ WaitScan
    BY <1>7, WaitInv
  <1>8. ASSUME NEW pid \in {ANY} \cup Named, NEW hang \in BOOLEAN, Waitpid(pid, hang) PROVE IInv'
    BY <1>8, WaitInv
  <1>9. CASE Fork
    BY <1>9, ForkInv
  <1>10. CASE UNCHANGED vars
    BY <1>10 DEF vars, IInv, Numbers
  <1> QED BY <1>1, <1>2, <1>3, <1>4, <1>5, <1>6, <1>7, <1>8, <1>9, <1>10 DEF Next, Kernel

\* Every process but init has a father who lives and has not begun to exit, as
\* long as init does, and afterwards every process that is not left to process
\* 1; and process numbers are unique, for any number of slots and process
\* numbers.  do_exit, fork, waitpid and the signals in any order leave nobody
\* whose end nobody is told of, but for init and, after it, its children.
THEOREM FathersLive == Spec => []FatherLives
  <1>1. IInv => FatherLives
    <2> SUFFICES ASSUME IInv PROVE FatherLives
      OBVIOUS
    <2>1. TypeOK
      BY DEF IInv, Sound, Typed, Runs, Numbers, TypeOK, Used
    <2>2. ASSUME NEW i \in Used, NEW j \in Used, i # j PROVE task[i].pid # task[j].pid
      BY <2>2 DEF IInv, Sound, Unique, Used
    <2>3. InitLives => HasInit(task)
      BY DEF InitLives, HasInit, Used
    <2>4. ASSUME NEW i \in Used
          PROVE  \/ task[i].father = 0 /\ task[i].pid = 1
                 \/ task[i].father = 1 /\ ~InitLives
                 \/ \E j \in Used : task[j].pid = task[i].father /\ Lives(task[j])
      <3>1. HasFather(task, i) => \E j \in Used : task[j].pid = task[i].father /\ Lives(task[j])
        BY DEF HasFather, Used
      <3> QED BY <2>3, <3>1 DEF IInv, Sound, Fathers, Used
    <2> QED BY <2>1, <2>2, <2>4 DEF FatherLives
  <1> QED BY <1>1, InitInv, NextInv, PTL DEF Spec

-----------------------------------------------------------------------------
(***************************************************************************)
(* The sleep/wake primitives, for any set of tasks and queues.             *)
(***************************************************************************)
\* Where a sleeping task can be: the queue it is on is of the kind of the
\* function it is in, and only interruptible_sleep_on leaves a task in
\* TASK_INTERRUPTIBLE.
Located ==
    \A t \in Tasks :
        /\ pc[t] = "sleep_on" => on[t] \in Queues \ interruptible
        /\ pc[t] = "interruptible_sleep_on" => on[t] \in interruptible
        /\ state[t] = INTERRUPTIBLE => pc[t] = "interruptible_sleep_on"
        /\ (pc[t] = "do_exit") => (state[t] \in {RUNNING, ZOMBIE})
        /\ state[t] = ZOMBIE => pc[t] = "do_exit"

SleepBase == SleepTypes /\ Located

\* The initial state satisfies the invariant.
LEMMA BaseInit == SleepInit => SleepBase
  BY NilIsNoTask DEF SleepInit, SleepBase, SleepTypes, Located, RUNNING, INTERRUPTIBLE,
     UNINTERRUPTIBLE, ZOMBIE

\* Every step keeps the variables well-typed and the tasks where their state
\* says they are.
LEMMA BaseNext == SleepBase /\ [SleepNext]_sleepVars => SleepBase'
<1> USE NilIsNoTask DEF SleepBase, SleepTypes, Located, RUNNING, INTERRUPTIBLE,
      UNINTERRUPTIBLE, ZOMBIE, Outside, SetRunning, WakeSignalled
<1> SUFFICES ASSUME SleepBase, [SleepNext]_sleepVars PROVE SleepBase'
  OBVIOUS
<1>1. CASE Schedule
  BY <1>1 DEF Schedule
<1>2. ASSUME NEW t \in Tasks, NEW q \in Queues \ interruptible, SleepOn(t, q) PROVE SleepBase'
  BY <1>2 DEF SleepOn, Enter
<1>3. ASSUME NEW t \in Tasks, NEW q \in interruptible, InterruptibleSleepOn(t, q) PROVE SleepBase'
  BY <1>3 DEF InterruptibleSleepOn, Enter
<1>4. ASSUME NEW t \in Tasks, SleepOnReturn(t) PROVE SleepBase'
  BY <1>4 DEF SleepOnReturn, Leave
<1>5. ASSUME NEW t \in Tasks, InterruptibleRepeat(t) PROVE SleepBase'
  BY <1>5 DEF InterruptibleRepeat
<1>6. ASSUME NEW t \in Tasks, InterruptibleReturn(t) PROVE SleepBase'
  BY <1>6 DEF InterruptibleReturn, Leave
<1>7. ASSUME NEW t \in Tasks, SendSig(t) PROVE SleepBase'
  BY <1>7 DEF SendSig
<1>8. ASSUME NEW t \in Tasks, CatchSignal(t) PROVE SleepBase'
  BY <1>8 DEF CatchSignal
<1>9. ASSUME NEW t \in Tasks, DoExit(t) PROVE SleepBase'
  BY <1>9 DEF DoExit
<1>10. ASSUME NEW q \in Queues, WakeUp(q) PROVE SleepBase'
  BY <1>10 DEF WakeUp
<1>11. CASE UNCHANGED sleepVars
  BY <1>11 DEF sleepVars
<1>12. QED
  BY <1>1, <1>2, <1>3, <1>4, <1>5, <1>6, <1>7, <1>8, <1>9, <1>10, <1>11 DEF SleepNext, Resume

\* The variables of the sleep/wake code keep their types in every behaviour.
THEOREM TypeCorrect == SleepSpec => []SleepTypes
<1>1. SleepInit => SleepBase
  BY BaseInit
<1>2. SleepBase /\ [SleepNext]_sleepVars => SleepBase'
  BY BaseNext
<1>3. SleepBase => SleepTypes
  BY DEF SleepBase
<1>4. QED
  BY <1>1, <1>2, <1>3, PTL DEF SleepSpec
-----------------------------------------------------------------------------
\* A step that leaves the sleepers, their pointers and the heads of the
\* uninterruptible queues alone, and puts nobody to sleep, orphans nobody.
LEMMA NoOrphanFrame ==
    ASSUME SleepBase, NoOrphan,
           UNCHANGED <<on, tmp, interruptible>>,
           \A q \in Queues \ interruptible : queue'[q] = queue[q],
           \A t \in Tasks : pc'[t] = "sleep_on" <=> pc[t] = "sleep_on",
           \A t \in Tasks : Asleep(t)' => Asleep(t)
    PROVE  NoOrphan'
  BY DEF NoOrphan, Referenced, SleepBase, Located, Asleep

\* Whatever removes the last pointer to a sleeper has just made it runnable.
LEMMA NextNoOrphan == SleepBase /\ NoOrphan /\ [SleepNext]_sleepVars => NoOrphan'
<1> USE NilIsNoTask DEF SleepBase, SleepTypes, Located, RUNNING, INTERRUPTIBLE,
      UNINTERRUPTIBLE, ZOMBIE, Outside, SetRunning, WakeSignalled, Asleep
<1> SUFFICES ASSUME SleepBase, NoOrphan, [SleepNext]_sleepVars PROVE NoOrphan'
  OBVIOUS
<1>1. CASE Schedule
  BY <1>1, NoOrphanFrame DEF Schedule
<1>2. ASSUME NEW t \in Tasks, NEW q \in Queues \ interruptible, SleepOn(t, q) PROVE NoOrphan'
  <2> SUFFICES ASSUME NEW s \in Tasks, Asleep(s)' PROVE Referenced(s)'
    BY DEF NoOrphan
  <2>1. CASE s = t
    BY <1>2, <2>1 DEF SleepOn, Referenced, Enter
  <2>2. CASE s # t
    <3>1. Asleep(s) /\ Referenced(s)
      BY <1>2, <2>2 DEF SleepOn, NoOrphan, Enter
    <3>2. on'[s] = on[s] /\ pc'[t] = "sleep_on" /\ on'[t] = q /\ tmp'[t] = queue[q]
      BY <1>2, <2>2 DEF SleepOn, Enter
    <3>3. CASE queue[on[s]] = s /\ on[s] = q
      BY <2>2, <3>2, <3>3 DEF Referenced
    <3>4. CASE queue[on[s]] = s /\ on[s] # q
      BY <1>2, <3>1, <3>2, <3>4 DEF SleepOn, Referenced, Enter
    <3>5. CASE \E u \in Tasks \ {s} : pc[u] = "sleep_on" /\ on[u] = on[s] /\ tmp[u] = s
      <4>1. PICK u \in Tasks \ {s} : pc[u] = "sleep_on" /\ on[u] = on[s] /\ tmp[u] = s
        BY <3>5
      <4>2. u # t
        BY <1>2, <4>1 DEF SleepOn, Enter
      <4>3. pc'[u] = "sleep_on" /\ on'[u] = on'[s] /\ tmp'[u] = s
        BY <1>2, <3>2, <4>1, <4>2 DEF SleepOn, Enter
      <4>4. QED
        BY <4>1, <4>3 DEF Referenced
    <3>6. QED
      BY <3>1, <3>3, <3>4, <3>5 DEF Referenced
  <2>3. QED
    BY <2>1, <2>2
<1>3. ASSUME NEW t \in Tasks, NEW q \in interruptible, InterruptibleSleepOn(t, q) PROVE NoOrphan'
  BY <1>3 DEF InterruptibleSleepOn, NoOrphan, Referenced, Enter
<1>4. ASSUME NEW t \in Tasks, SleepOnReturn(t) PROVE NoOrphan'
  <2> SUFFICES ASSUME NEW s \in Tasks, Asleep(s)' PROVE Referenced(s)'
    BY DEF NoOrphan
  <2>1. s # t /\ s # tmp[t] /\ Asleep(s)
    BY <1>4 DEF SleepOnReturn, Leave
  <2>2. on'[s] = on[s] /\ queue' = queue
    BY <1>4, <2>1 DEF SleepOnReturn, Leave
  <2>3. CASE queue[on[s]] = s
    BY <2>2, <2>3 DEF Referenced
  <2>4. CASE \E u \in Tasks \ {s} : pc[u] = "sleep_on" /\ on[u] = on[s] /\ tmp[u] = s
    <3>1. PICK u \in Tasks \ {s} : pc[u] = "sleep_on" /\ on[u] = on[s] /\ tmp[u] = s
      BY <2>4
    <3>2. pc'[u] = "sleep_on" /\ on'[u] = on'[s] /\ tmp'[u] = s
      BY <1>4, <2>1, <2>2, <3>1 DEF SleepOnReturn, Leave
    <3>3. QED
      BY <3>1, <3>2 DEF Referenced
  <2>5. QED
    BY <2>1, <2>3, <2>4 DEF NoOrphan, Referenced
<1>5. ASSUME NEW t \in Tasks, InterruptibleRepeat(t) PROVE NoOrphan'
  BY <1>5, NoOrphanFrame DEF InterruptibleRepeat
<1>6. ASSUME NEW t \in Tasks, InterruptibleReturn(t) PROVE NoOrphan'
  BY <1>6 DEF InterruptibleReturn, NoOrphan, Referenced, Leave
<1>7. ASSUME NEW t \in Tasks, SendSig(t) PROVE NoOrphan'
  BY <1>7, NoOrphanFrame DEF SendSig
<1>8. ASSUME NEW t \in Tasks, CatchSignal(t) PROVE NoOrphan'
  BY <1>8, NoOrphanFrame DEF CatchSignal
<1>9. ASSUME NEW t \in Tasks, DoExit(t) PROVE NoOrphan'
  BY <1>9, NoOrphanFrame DEF DoExit
<1>10. ASSUME NEW q \in Queues, WakeUp(q) PROVE NoOrphan'
  BY <1>10 DEF WakeUp, NoOrphan, Referenced
<1>11. CASE UNCHANGED sleepVars
  BY <1>11, NoOrphanFrame DEF sleepVars
<1>12. QED
  BY <1>1, <1>2, <1>3, <1>4, <1>5, <1>6, <1>7, <1>8, <1>9, <1>10, <1>11 DEF SleepNext, Resume

\* No task sleeping in sleep_on is ever dropped from its chain, for any number
\* of tasks and queues, interruptible sleepers and signals included.
THEOREM NeverOrphaned == SleepSpec => []NoOrphan
<1>1. SleepInit => NoOrphan
  BY DEF SleepInit, NoOrphan, Asleep
<1>2. QED
  BY <1>1, BaseInit, BaseNext, NextNoOrphan, PTL DEF SleepSpec

-----------------------------------------------------------------------------
\* A queue is never used by both functions.
LEMMA KindsAreFixed == [SleepNext]_sleepVars => interruptible' = interruptible
  BY DEF SleepNext, sleepVars, Resume, Schedule, SleepOn, InterruptibleSleepOn, Enter, SleepOnReturn, Leave,
     InterruptibleRepeat, InterruptibleReturn, WakeUp, SendSig, CatchSignal, DoExit

\* With uninterruptible sleepers only, every step keeps the chains disjoint
\* lists of sleeping tasks.
LEMMA NextProperChains ==
    SleepBase /\ ProperChains /\ [SleepNext]_sleepVars => ProperChains'
<1> USE NilIsNoTask DEF SleepBase, SleepTypes, Located, RUNNING, INTERRUPTIBLE,
      UNINTERRUPTIBLE, ZOMBIE, Outside, SetRunning, WakeSignalled, Asleep
<1> SUFFICES ASSUME SleepBase, ProperChains, [SleepNext]_sleepVars, interruptible = {} PROVE ProperChains'
  BY KindsAreFixed DEF ProperChains
<1>1. CASE Schedule
  BY <1>1 DEF Schedule, ProperChains
<1>2. ASSUME NEW t \in Tasks, NEW q \in Queues \ interruptible, SleepOn(t, q) PROVE ProperChains'
  <2>1. /\ \A r \in Queues : queue[r] # t
        /\ \A u \in Tasks : pc[u] = "sleep_on" => tmp[u] # t
    BY <1>2 DEF SleepOn, ProperChains, Enter
  <2>2. QED
    BY <1>2, <2>1 DEF SleepOn, ProperChains, Enter
<1>4. ASSUME NEW t \in Tasks, SleepOnReturn(t) PROVE ProperChains'
  BY <1>4 DEF SleepOnReturn, ProperChains, Leave
<1>5. ASSUME NEW t \in Tasks, InterruptibleRepeat(t) PROVE ProperChains'
  BY <1>5 DEF InterruptibleRepeat
<1>6. ASSUME NEW t \in Tasks, InterruptibleReturn(t) PROVE ProperChains'
  BY <1>6 DEF InterruptibleReturn, Leave
<1>7. ASSUME NEW t \in Tasks, SendSig(t) \/ CatchSignal(t) PROVE ProperChains'
  BY <1>7 DEF SendSig, CatchSignal, ProperChains
<1>9. ASSUME NEW t \in Tasks, DoExit(t) PROVE ProperChains'
  BY <1>9 DEF DoExit, ProperChains
<1>10. ASSUME NEW q \in Queues, WakeUp(q) PROVE ProperChains'
  BY <1>10 DEF WakeUp, ProperChains
<1>11. CASE UNCHANGED sleepVars
  BY <1>11 DEF sleepVars, ProperChains
<1>12. QED
  BY <1>1, <1>2, <1>4, <1>5, <1>6, <1>7, <1>9, <1>10, <1>11 DEF SleepNext, Resume

\* Without interruptible_sleep_on the chains are disjoint lists of sleepers,
\* so `tmp->state=0' wakes only a task that is asleep on that very queue.
THEOREM ChainsAreProper == SleepSpec => []ProperChains
<1>1. SleepInit => ProperChains
  BY NilIsNoTask DEF SleepInit, ProperChains
<1>2. SleepBase /\ ProperChains /\ [SleepNext]_sleepVars => ProperChains'
  BY NextProperChains
<1>3. QED
  BY <1>1, <1>2, BaseInit, BaseNext, PTL DEF SleepSpec

\* Without interruptible_sleep_on nothing ever revives a task in do_exit.
THEOREM ZombiesStayDead == SleepSpec => [](interruptible = {} => ZombieStaysDead)
<1>1. SleepInit => ProperChains
  BY NilIsNoTask DEF SleepInit, ProperChains
<1>2. SleepBase /\ ProperChains /\ [SleepNext]_sleepVars => ProperChains'
  BY NextProperChains
<1>3. SleepInit => ZombieStaysDead
  BY DEF SleepInit, ZombieStaysDead
<1>4. SleepBase /\ ProperChains /\ (interruptible = {} => ZombieStaysDead) /\ [SleepNext]_sleepVars
        => (interruptible = {} => ZombieStaysDead)'
  <2> USE NilIsNoTask DEF SleepBase, SleepTypes, Located, RUNNING, INTERRUPTIBLE,
        UNINTERRUPTIBLE, ZOMBIE, Outside, SetRunning, WakeSignalled, Asleep, ZombieStaysDead
  <2> SUFFICES ASSUME SleepBase, ProperChains, ZombieStaysDead, [SleepNext]_sleepVars, interruptible = {}
               PROVE  ZombieStaysDead'
    BY KindsAreFixed
  <2>1. CASE Schedule
    BY <2>1 DEF Schedule
  <2>2. ASSUME NEW t \in Tasks, NEW q \in Queues \ interruptible, SleepOn(t, q) PROVE ZombieStaysDead'
    BY <2>2 DEF SleepOn, Enter
  <2>3. ASSUME NEW t \in Tasks, SleepOnReturn(t) PROVE ZombieStaysDead'
    BY <2>3 DEF SleepOnReturn, ProperChains, Leave
  <2>4. ASSUME NEW t \in Tasks, InterruptibleRepeat(t) \/ InterruptibleReturn(t)
        PROVE ZombieStaysDead'
    BY <2>4 DEF InterruptibleRepeat, InterruptibleReturn, Leave
  <2>5. ASSUME NEW t \in Tasks, SendSig(t) \/ CatchSignal(t) \/ DoExit(t)
        PROVE ZombieStaysDead'
    BY <2>5 DEF SendSig, CatchSignal, DoExit
  <2>6. ASSUME NEW q \in Queues, WakeUp(q) PROVE ZombieStaysDead'
    BY <2>6 DEF WakeUp, ProperChains
  <2>7. CASE UNCHANGED sleepVars
    BY <2>7 DEF sleepVars
  <2>8. QED
    BY <2>1, <2>2, <2>3, <2>4, <2>5, <2>6, <2>7 DEF SleepNext, Resume
<1>5. QED
  BY <1>1, <1>2, <1>3, <1>4, BaseInit, BaseNext, PTL DEF SleepSpec

-----------------------------------------------------------------------------
\* The kinds of the variables of Directories.
Fds == 1 .. NR_OPEN
FileNos == 1 .. NR_FILE
NumOr0 == Nums \cup {0}
\* The provers take no string to be in STRING, hence the names the code itself uses.
FileNames == {"", ".", "..", "d", "a"} \cup STRING
EntryRecs == [name : FileNames, ino : NumOr0]
InodeRecs == [count : Nat, nlinks : Nat, isdir : BOOLEAN, dev : {"none", "tty", "block"},
              zones : Seq(Zones), ents : Seq(EntryRecs)]
ScanRecs == [blk : Nat, lim : Nat, zone : Zones \cup {0}]
CallLabels == {"idle", "walk", "step", "find", "iget", "change", "again", "new", "block", "init",
               "add", "extend", "unmake", "linked", "got", "empty", "puts"}
CallRecs == [pc : CallLabels, op : Ops \cup {"none"}, rest : Seq(FileNames), new : Seq(FileNames),
             dir : NumOr0, inr : NumOr0, ino : NumOr0, old : NumOr0, de : Nat,
             scan : ScanRecs, puts : Seq(Nums), next : CallLabels, fd : 0 .. NR_OPEN, res : NumOr0,
             ops : Int]
FileRecs == [count : Nat, ino : NumOr0]

NamesTyped ==
    /\ inode \in [Nums -> InodeRecs] /\ imap \subseteq Nums /\ zmap \subseteq Zones
    /\ proc \in [Procs -> CallRecs]
    /\ filp \in [Procs -> [Fds -> 0 .. NR_FILE]] /\ file \in [FileNos -> FileRecs]
    /\ held \in [Procs -> 0 .. 1] /\ panicked \in BOOLEAN /\ raced \in BOOLEAN

Makes == {"open", "excl", "mknod", "mkdir"}
Opens == {"open", "excl", "read"}
Takes == {"unlink", "rmdir"}

\* Which references a call has in hand at label l.
HasAt(r, l) ==
    /\ l = "idle" => r.dir = 0 /\ r.ino = 0 /\ r.old = 0
    /\ l \in {"walk", "step", "find"} =>
          r.dir # 0 /\ r.ino = 0 /\ r.op \in Ops /\ r.rest # <<>> /\ (r.old # 0 => r.op = "link")
    /\ l = "step" => Len(r.rest) # 1
    /\ l = "find" => Len(r.rest) = 1
    /\ l = "iget" =>
          /\ r.inr # 0 /\ r.ino = 0 /\ r.op \in Ops /\ r.rest # <<>> /\ (r.old # 0 => r.op = "link")
          /\ IF r.op \in Takes /\ Len(r.rest) = 1 THEN r.dir # 0 ELSE r.dir = 0
          /\ Len(r.rest) = 1 => r.op \notin {"excl", "mknod", "mkdir"} /\ r.old = 0
    /\ l \in {"got", "empty"} => r.op \in Takes /\ r.dir # 0 /\ r.ino # 0 /\ r.old = 0
    /\ l = "change" => r.op \in Opens /\ r.dir = 0 /\ r.ino # 0 /\ r.old = 0
    /\ l = "again" => r.op = "link" /\ r.old # 0 /\ r.dir = 0 /\ r.ino = 0
    /\ l = "new" => r.op \in Makes /\ r.dir # 0 /\ r.ino = 0 /\ r.old = 0
    /\ l \in {"block", "init"} => r.op = "mkdir" /\ r.dir # 0 /\ r.ino # 0 /\ r.old = 0
    /\ l \in {"add", "extend"} =>
          /\ r.op \in Makes \cup {"link"} /\ r.dir # 0
          /\ IF r.op = "link" THEN r.ino = 0 /\ r.old # 0 ELSE r.ino # 0 /\ r.old = 0
    /\ l = "unmake" => r.op \in {"mknod", "mkdir"} /\ r.dir = 0 /\ r.ino # 0 /\ r.old = 0
    /\ l = "linked" => r.op = "link" /\ r.dir = 0 /\ r.ino = 0 /\ r.old # 0
    /\ l \in {"new", "add", "extend", "block", "init"} => r.rest # <<>>

Buffered(r) == r.pc \in {"got", "empty"} \/ (r.pc = "iget" /\ r.op \in Takes /\ Len(r.rest) = 1)

\* What a call relies on of its own variables, wherever it sleeps.
OnCourse(r) ==
    /\ HasAt(r, IF r.pc = "puts" THEN r.next ELSE r.pc)
    /\ r.puts # <<>> <=> r.pc = "puts"
    /\ Len(r.puts) <= 2
    /\ r.pc = "puts" => /\ r.next \in {"idle", "iget", "unmake", "linked"}
                        /\ r.next = "iget" => ~(r.op \in Takes /\ Len(r.rest) = 1)
    /\ r.res # 0 => r.pc = "puts" /\ r.next = "idle" /\ r.fd # 0
    /\ r.fd # 0 <=> r.op \in Opens
    /\ r.pc = "idle" => r.fd = 0
    /\ r.pc \in {"init", "extend"} => r.scan.zone # 0

CallsOnCourse == \A p \in Procs : OnCourse(proc[p]) /\ held[p] = IF Buffered(proc[p]) THEN 1 ELSE 0

\* f_count is the number of descriptors; the file that sys_open has reserved
\* is its own.
Descriptors(f) == {x \in Procs \X Fds : filp[x[1]][x[2]] = f}
FilesCounted ==
    \A f \in FileNos :
        /\ file[f].count = Cardinality(Descriptors(f))
        /\ file[f].count = 0 => file[f].ino = 0
        /\ file[f].count > 0 /\ file[f].ino = 0 =>
              \E p \in Procs : proc[p].fd # 0 /\ filp[p][proc[p].fd] = f
FilesReserved ==
    \A p \in Procs : proc[p].fd # 0 =>
        /\ filp[p][proc[p].fd] # 0 /\ file[filp[p][proc[p].fd]].ino = 0
        /\ \A q \in Procs, d \in Fds : filp[q][d] = filp[p][proc[p].fd] => q = p /\ d = proc[p].fd

\* i_count is the number of references, and the root is never freed.
FileRefs(fs, n) == Cardinality({f \in FileNos : fs[f].ino = n})
InodesCounted ==
    \A n \in Nums : inode[n].count = (IF n = 1 THEN 1 ELSE 0) + HandRefs(n) + FileRefs(file, n)
InodesInUse == 1 \in imap /\ \A n \in Nums \ imap : inode[n].count = 0

NamesInv ==
    /\ NamesTyped /\ CallsOnCourse /\ FilesCounted /\ FilesReserved
    /\ raced \/ (InodesCounted /\ InodesInUse)
-----------------------------------------------------------------------------
\* The constants.
LEMMA NamesConstants ==
    /\ 1 \in Nums /\ 2 \in Nums /\ 3 \in Nums /\ Nums \subseteq Nat /\ 0 \notin Nums
    /\ 1 \in Zones /\ 2 \in Zones /\ 3 \in Zones /\ Zones \subseteq Nat /\ 0 \notin Zones
    /\ PerBlock \in Nat /\ PerBlock >= 2
    /\ NR_OPEN \in Nat /\ NR_OPEN >= 1 /\ NR_FILE \in Nat /\ NR_FILE >= 1
    /\ MaxOps \in Nat /\ IsFiniteSet(Procs)
  BY DirectoryConstants

\* The first free number is free.
LEMMA FirstFree ==
    ASSUME NEW T \in SUBSET Nat, T # {}
    PROVE  Min(T) \in T
  BY LeastNatural DEF Min

\* i_nlinks-- stays a natural number.
LEMMA LessNat ==
    ASSUME NEW k \in Nat
    PROVE  Less(k) \in Nat
  BY DEF Less

\* The fields of a call.
LEMMA CallRecFields ==
    ASSUME NEW r \in CallRecs
    PROVE  /\ r.pc \in CallLabels /\ r.op \in Ops \cup {"none"} /\ r.rest \in Seq(FileNames)
           /\ r.new \in Seq(FileNames) /\ r.dir \in NumOr0 /\ r.inr \in NumOr0 /\ r.ino \in NumOr0
           /\ r.old \in NumOr0 /\ r.de \in Nat /\ r.puts \in Seq(Nums) /\ r.next \in CallLabels
           /\ r.scan \in ScanRecs /\ r.fd \in 0 .. NR_OPEN /\ r.res \in NumOr0 /\ r.ops \in Int
  BY DEF CallRecs

\* The fields of an inode.
LEMMA InodeRecFields ==
    ASSUME NEW e \in InodeRecs
    PROVE  /\ e.count \in Nat /\ e.nlinks \in Nat /\ e.isdir \in BOOLEAN /\ e.zones \in Seq(Zones)
           /\ e.dev \in {"none", "tty", "block"} /\ e.ents \in Seq(EntryRecs)
  BY DEF InodeRecs

\* The fields of a search.
LEMMA ScanFields ==
    ASSUME NEW k \in ScanRecs
    PROVE  k.blk \in Nat /\ k.lim \in Nat /\ k.zone \in Zones \cup {0}
  BY DEF ScanRecs

\* The searches there are.
LEMMA ScanTyped ==
    ASSUME NEW b \in Nat, NEW k \in Nat, NEW z \in Zones \cup {0}
    PROVE  SearchAt(b, k, z) \in ScanRecs /\ SearchAt(b, k, z).zone = z
  BY DEF SearchAt, ScanRecs

\* No search.
LEMMA NoScanTyped == NoScan \in ScanRecs
  BY DEF SearchAt, NoScan, ScanRecs

\* A search that goes on.
LEMMA ScanOn ==
    ASSUME NEW k \in ScanRecs
    PROVE  [k EXCEPT !.blk = @ + 1] \in ScanRecs
  BY DEF ScanRecs
-----------------------------------------------------------------------------
\* The references of one call to n, and those of the files.
Is(a, n) == IF a = n THEN 1 ELSE 0
DueTo(q, n) == (IF Len(q) >= 1 /\ q[1] = n THEN 1 ELSE 0) + (IF Len(q) >= 2 /\ q[2] = n THEN 1 ELSE 0)
Share(r, n) == Is(r.dir, n) + Is(r.ino, n) + Is(r.old, n) + Is(r.res, n) + DueTo(r.puts, n)

\* An element more or less changes a finite set's cardinality by one.
LEMMA OneElement ==
    ASSUME NEW S, NEW T, NEW x, IsFiniteSet(S), T \ {x} = S \ {x}
    PROVE  /\ IsFiniteSet(T)
           /\ Cardinality(S) \in Nat /\ Cardinality(T) \in Nat
           /\ Cardinality(T) = Cardinality(S) + (IF x \in T THEN 1 ELSE 0) - (IF x \in S THEN 1 ELSE 0)
  <1> DEFINE U == S \ {x}
  <1>1. IsFiniteSet(U) /\ Cardinality(U) \in Nat
    BY FS_Subset, FS_CardinalityType
  <1>2. IsFiniteSet(U \cup {x}) /\ Cardinality(U \cup {x}) = Cardinality(U) + 1
    BY <1>1, FS_AddElement
  <1>3. x \in S => S = U \cup {x}
    OBVIOUS
  <1>4. x \notin S => S = U
    OBVIOUS
  <1>5. x \in T => T = U \cup {x}
    OBVIOUS
  <1>6. x \notin T => T = U
    OBVIOUS
  <1>7. Cardinality(S) = Cardinality(U) + (IF x \in S THEN 1 ELSE 0)
    BY <1>1, <1>2, <1>3, <1>4
  <1>8. Cardinality(T) = Cardinality(U) + (IF x \in T THEN 1 ELSE 0) /\ IsFiniteSet(T)
    BY <1>1, <1>2, <1>5, <1>6
  <1> HIDE DEF U
  <1> QED BY <1>1, <1>7, <1>8

\* A step of p takes p's old references out of the count and its new ones in.
LEMMA HandStep ==
    ASSUME NEW p \in Procs, NEW r, NEW n, proc' = [proc EXCEPT ![p] = r],
           proc \in [Procs -> CallRecs]
    PROVE  /\ HandRefs(n) \in Nat /\ HandRefs(n)' \in Nat
           /\ HandRefs(n)' = HandRefs(n) + Share(r, n) - Share(proc[p], n)
  <1> DEFINE Dir == {q \in Procs : proc[q].dir = n}     Dir2 == {q \in Procs : proc'[q].dir = n}
             Ino == {q \in Procs : proc[q].ino = n}     Ino2 == {q \in Procs : proc'[q].ino = n}
             Old == {q \in Procs : proc[q].old = n}     Old2 == {q \in Procs : proc'[q].old = n}
             Res == {q \in Procs : proc[q].res = n}     Res2 == {q \in Procs : proc'[q].res = n}
             One == {q \in Procs : Len(proc[q].puts) >= 1 /\ proc[q].puts[1] = n}
             One2 == {q \in Procs : Len(proc'[q].puts) >= 1 /\ proc'[q].puts[1] = n}
             Two == {q \in Procs : Len(proc[q].puts) >= 2 /\ proc[q].puts[2] = n}
             Two2 == {q \in Procs : Len(proc'[q].puts) >= 2 /\ proc'[q].puts[2] = n}
             Fin(S) == IsFiniteSet(S)
  <1>1. Fin(Dir) /\ Fin(Ino) /\ Fin(Old) /\ Fin(Res) /\ Fin(One) /\ Fin(Two)
    BY NamesConstants, FS_Subset
  <1>2. proc'[p] = r /\ \A q \in Procs : q # p => proc'[q] = proc[q]
    OBVIOUS
  <1>3. /\ Dir2 \ {p} = Dir \ {p} /\ Ino2 \ {p} = Ino \ {p} /\ Old2 \ {p} = Old \ {p}
        /\ Res2 \ {p} = Res \ {p} /\ One2 \ {p} = One \ {p} /\ Two2 \ {p} = Two \ {p}
    BY <1>2
  <1>4. /\ p \in Dir <=> proc[p].dir = n
        /\ p \in Ino <=> proc[p].ino = n
        /\ p \in Old <=> proc[p].old = n
        /\ p \in Res <=> proc[p].res = n
        /\ p \in One <=> Len(proc[p].puts) >= 1 /\ proc[p].puts[1] = n
        /\ p \in Two <=> Len(proc[p].puts) >= 2 /\ proc[p].puts[2] = n
    OBVIOUS
  <1>5. /\ p \in Dir2 <=> r.dir = n
        /\ p \in Ino2 <=> r.ino = n
        /\ p \in Old2 <=> r.old = n
        /\ p \in Res2 <=> r.res = n
        /\ p \in One2 <=> Len(r.puts) >= 1 /\ r.puts[1] = n
        /\ p \in Two2 <=> Len(r.puts) >= 2 /\ r.puts[2] = n
    BY <1>2
  <1>6. /\ HandRefs(n) = Cardinality(Dir) + Cardinality(Ino) + Cardinality(Old) + Cardinality(Res)
                           + Cardinality(One) + Cardinality(Two)
        /\ HandRefs(n)' = Cardinality(Dir2) + Cardinality(Ino2) + Cardinality(Old2)
                           + Cardinality(Res2) + Cardinality(One2) + Cardinality(Two2)
    BY DEF HandRefs
  <1> HIDE DEF Dir, Dir2, Ino, Ino2, Old, Old2, Res, Res2, One, One2, Two, Two2
  <1>d. /\ Cardinality(Dir) \in Nat /\ Cardinality(Dir2) \in Nat
        /\ Cardinality(Dir2) = Cardinality(Dir) + (IF p \in Dir2 THEN 1 ELSE 0) - (IF p \in Dir THEN 1 ELSE 0)
    BY <1>1, <1>3, OneElement
  <1>i. /\ Cardinality(Ino) \in Nat /\ Cardinality(Ino2) \in Nat
        /\ Cardinality(Ino2) = Cardinality(Ino) + (IF p \in Ino2 THEN 1 ELSE 0) - (IF p \in Ino THEN 1 ELSE 0)
    BY <1>1, <1>3, OneElement
  <1>o. /\ Cardinality(Old) \in Nat /\ Cardinality(Old2) \in Nat
        /\ Cardinality(Old2) = Cardinality(Old) + (IF p \in Old2 THEN 1 ELSE 0) - (IF p \in Old THEN 1 ELSE 0)
    BY <1>1, <1>3, OneElement
  <1>r. /\ Cardinality(Res) \in Nat /\ Cardinality(Res2) \in Nat
        /\ Cardinality(Res2) = Cardinality(Res) + (IF p \in Res2 THEN 1 ELSE 0) - (IF p \in Res THEN 1 ELSE 0)
    BY <1>1, <1>3, OneElement
  <1>7. /\ Cardinality(One) \in Nat /\ Cardinality(One2) \in Nat
        /\ Cardinality(One2) = Cardinality(One) + (IF p \in One2 THEN 1 ELSE 0) - (IF p \in One THEN 1 ELSE 0)
    BY <1>1, <1>3, OneElement
  <1>8. /\ Cardinality(Two) \in Nat /\ Cardinality(Two2) \in Nat
        /\ Cardinality(Two2) = Cardinality(Two) + (IF p \in Two2 THEN 1 ELSE 0) - (IF p \in Two THEN 1 ELSE 0)
    BY <1>1, <1>3, OneElement
  <1>9. /\ DueTo(r.puts, n) = (IF p \in One2 THEN 1 ELSE 0) + (IF p \in Two2 THEN 1 ELSE 0)
        /\ DueTo(proc[p].puts, n) = (IF p \in One THEN 1 ELSE 0) + (IF p \in Two THEN 1 ELSE 0)
    BY <1>4, <1>5 DEF DueTo
  <1>10. /\ Is(r.dir, n) = (IF p \in Dir2 THEN 1 ELSE 0) /\ Is(proc[p].dir, n) = (IF p \in Dir THEN 1 ELSE 0)
         /\ Is(r.ino, n) = (IF p \in Ino2 THEN 1 ELSE 0) /\ Is(proc[p].ino, n) = (IF p \in Ino THEN 1 ELSE 0)
         /\ Is(r.old, n) = (IF p \in Old2 THEN 1 ELSE 0) /\ Is(proc[p].old, n) = (IF p \in Old THEN 1 ELSE 0)
         /\ Is(r.res, n) = (IF p \in Res2 THEN 1 ELSE 0) /\ Is(proc[p].res, n) = (IF p \in Res THEN 1 ELSE 0)
    BY <1>4, <1>5 DEF Is
  <1> QED BY <1>6, <1>d, <1>i, <1>o, <1>r, <1>7, <1>8, <1>9, <1>10 DEF Share

\* A reference counts once, and 0 is none.
LEMMA IsFacts ==
    ASSUME NEW n \in Nums, NEW a
    PROVE  Is(a, n) \in 0 .. 1 /\ Is(0, n) = 0 /\ (a = 0 => Is(a, n) = 0)
  BY NamesConstants DEF Is

\* The references of a call are a number.
LEMMA ShareNat ==
    ASSUME NEW r, NEW n
    PROVE  Share(r, n) \in Nat /\ DueTo(r.puts, n) \in Nat
  BY DEF Share, Is, DueTo

\* A list of references to give back: none, one or two.
LEMMA DueLists ==
    ASSUME NEW n, NEW a \in Nums, NEW b \in Nums
    PROVE  /\ DueTo(<<>>, n) = 0
           /\ <<a>> \in Seq(Nums) /\ <<a>> # <<>> /\ Len(<<a>>) = 1 /\ DueTo(<<a>>, n) = Is(a, n)
           /\ <<a, b>> \in Seq(Nums) /\ <<a, b>> # <<>> /\ Len(<<a, b>>) = 2
           /\ DueTo(<<a, b>>, n) = Is(a, n) + Is(b, n)
  <1>1. DueTo(<<>>, n) = 0
    BY DEF DueTo
  <1>2. <<a>> \in Seq(Nums) /\ <<a>> # <<>> /\ Len(<<a>>) = 1 /\ DueTo(<<a>>, n) = Is(a, n)
    BY DEF DueTo, Is
  <1>3. /\ <<a, b>> \in Seq(Nums) /\ <<a, b>> # <<>> /\ Len(<<a, b>>) = 2
        /\ DueTo(<<a, b>>, n) = Is(a, n) + Is(b, n)
    BY DEF DueTo, Is
  <1> QED BY <1>1, <1>2, <1>3

\* The same, for every inode.
LEMMA DueOne ==
    ASSUME NEW a \in Nums
    PROVE  /\ <<a>> \in Seq(Nums) /\ <<a>> # <<>> /\ Len(<<a>>) <= 2
           /\ \A n \in Nums : DueTo(<<a>>, n) = Is(a, n)
  <1>1. <<a>> \in Seq(Nums) /\ <<a>> # <<>> /\ Len(<<a>>) = 1
    BY DueLists
  <1>2. ASSUME NEW n \in Nums PROVE DueTo(<<a>>, n) = Is(a, n)
    BY DueLists
  <1> QED BY <1>1, <1>2

\* Two of them.
LEMMA DueTwo ==
    ASSUME NEW a \in Nums, NEW b \in Nums
    PROVE  /\ <<a, b>> \in Seq(Nums) /\ <<a, b>> # <<>> /\ Len(<<a, b>>) <= 2
           /\ \A n \in Nums : DueTo(<<a, b>>, n) = Is(a, n) + Is(b, n)
  <1>1. <<a, b>> \in Seq(Nums) /\ <<a, b>> # <<>> /\ Len(<<a, b>>) = 2
    BY DueLists
  <1>2. ASSUME NEW n \in Nums PROVE DueTo(<<a, b>>, n) = Is(a, n) + Is(b, n)
    BY DueLists
  <1> QED BY <1>1, <1>2

\* iput takes the first of them.
LEMMA DueTail ==
    ASSUME NEW q \in Seq(Nums), q # <<>>, Len(q) <= 2, NEW n
    PROVE  /\ Head(q) \in Nums /\ Tail(q) \in Seq(Nums) /\ Len(Tail(q)) <= 2
           /\ DueTo(Tail(q), n) = DueTo(q, n) - Is(Head(q), n)
  <1>1. /\ Head(q) \in Nums /\ Head(q) = q[1] /\ Tail(q) \in Seq(Nums) /\ Len(q) \in Nat /\ Len(q) >= 1
        /\ Len(Tail(q)) = Len(q) - 1
    OBVIOUS
  <1>2. Len(q) = 2 => Tail(q)[1] = q[2]
    OBVIOUS
  <1> QED BY <1>1, <1>2 DEF DueTo, Is

\* The files that hold an inode are a finite number.
LEMMA FileRefsNat ==
    ASSUME NEW fs, NEW n
    PROVE  FileRefs(fs, n) \in Nat /\ IsFiniteSet({f \in FileNos : fs[f].ino = n})
  <1>1. IsFiniteSet(FileNos)
    BY NamesConstants, FS_Interval DEF FileNos
  <1>2. IsFiniteSet({f \in FileNos : fs[f].ino = n})
    BY <1>1, FS_Subset
  <1> QED BY <1>2, FS_CardinalityType DEF FileRefs

\* What a step of a call has to see to: its own variables, the files, and
\* that i_count follows the references.
LEMMA NamesStep ==
    ASSUME NamesInv, NEW p \in Procs, NEW r \in CallRecs, OnCourse(r),
           proc' = [proc EXCEPT ![p] = r],
           held' \in [Procs -> 0 .. 1], \A q \in Procs \ {p} : held'[q] = held[q],
           held'[p] = IF Buffered(r) THEN 1 ELSE 0,
           inode' \in [Nums -> InodeRecs], imap' \subseteq Nums, zmap' \subseteq Zones,
           filp' \in [Procs -> [Fds -> 0 .. NR_FILE]], file' \in [FileNos -> FileRecs],
           panicked' \in BOOLEAN, raced' \in BOOLEAN,
           FilesCounted', FilesReserved',
           ~raced' =>
             /\ ~raced
             /\ \A n \in Nums : inode'[n].count = inode[n].count + Share(r, n) - Share(proc[p], n)
                                   + FileRefs(file', n) - FileRefs(file, n)
             /\ 1 \in imap' /\ \A n \in Nums \ imap' : inode'[n].count = 0
    PROVE  NamesInv'
  <1>1. proc \in [Procs -> CallRecs] /\ inode \in [Nums -> InodeRecs]
    BY DEF NamesInv, NamesTyped
  <1>2. NamesTyped'
    BY <1>1 DEF NamesTyped
  <1>3. CallsOnCourse'
    <2> SUFFICES ASSUME NEW q \in Procs
                 PROVE  OnCourse(proc'[q]) /\ held'[q] = IF Buffered(proc'[q]) THEN 1 ELSE 0
      BY DEF CallsOnCourse
    <2>1. CASE q = p
      BY <1>1, <2>1
    <2>2. CASE q # p
      BY <1>1, <2>2 DEF NamesInv, CallsOnCourse
    <2> QED BY <2>1, <2>2
  <1>4. ~raced' => InodesCounted' /\ InodesInUse'
    <2> HAVE ~raced'
    <2>1. InodesInUse'
      BY DEF InodesInUse
    <2>2. ASSUME NEW n \in Nums
          PROVE  inode'[n].count = (IF n = 1 THEN 1 ELSE 0) + HandRefs(n)' + FileRefs(file', n)
      <3>1. inode[n].count = (IF n = 1 THEN 1 ELSE 0) + HandRefs(n) + FileRefs(file, n)
        BY DEF NamesInv, InodesCounted
      <3>2. inode'[n].count = inode[n].count + Share(r, n) - Share(proc[p], n)
                                   + FileRefs(file', n) - FileRefs(file, n)
        OBVIOUS
      <3>3. /\ HandRefs(n) \in Nat /\ HandRefs(n)' \in Nat
            /\ HandRefs(n)' = HandRefs(n) + Share(r, n) - Share(proc[p], n)
        BY <1>1, HandStep
      <3>4. /\ Share(r, n) \in Nat /\ Share(proc[p], n) \in Nat
            /\ FileRefs(file, n) \in Nat /\ FileRefs(file', n) \in Nat
        BY ShareNat, FileRefsNat
      <3> QED BY <3>1, <3>2, <3>3, <3>4
    <2>3. InodesCounted'
      BY <2>2 DEF InodesCounted
    <2> QED BY <2>1, <2>3
  <1> QED BY <1>2, <1>3, <1>4 DEF NamesInv

\* The same for a step that leaves files and descriptors alone.
LEMMA CallStep ==
    ASSUME NamesInv, NEW p \in Procs, NEW r \in CallRecs, OnCourse(r),
           proc' = [proc EXCEPT ![p] = r], r.fd = proc[p].fd,
           held' \in [Procs -> 0 .. 1], \A q \in Procs \ {p} : held'[q] = held[q],
           held'[p] = IF Buffered(r) THEN 1 ELSE 0,
           inode' \in [Nums -> InodeRecs], imap' \subseteq Nums, zmap' \subseteq Zones,
           UNCHANGED fvars, panicked' \in BOOLEAN, raced' \in BOOLEAN,
           ~raced' =>
             /\ ~raced
             /\ \A n \in Nums : inode'[n].count = inode[n].count + Share(r, n) - Share(proc[p], n)
             /\ 1 \in imap' /\ \A n \in Nums \ imap' : inode'[n].count = 0
    PROVE  NamesInv'
  <1>1. proc \in [Procs -> CallRecs] /\ inode \in [Nums -> InodeRecs]
    BY DEF NamesInv, NamesTyped
  <1>2. file' = file /\ filp' = filp
    BY DEF fvars
  <1>3. \A q \in Procs : proc'[q].fd = proc[q].fd
    BY <1>1
  <1>4. FilesCounted'
    <2>1. \A f : Descriptors(f)' = Descriptors(f)
      BY <1>2 DEF Descriptors
    <2> QED BY <1>2, <1>3, <2>1 DEF NamesInv, FilesCounted
  <1>5. FilesReserved'
    BY <1>2, <1>3 DEF NamesInv, FilesReserved
  <1>6. /\ filp' \in [Procs -> [Fds -> 0 .. NR_FILE]] /\ file' \in [FileNos -> FileRecs]
    BY <1>2 DEF NamesInv, NamesTyped
  <1>7. \A n \in Nums : inode[n].count \in Nat
    BY <1>1, InodeRecFields
  <1>8. ASSUME ~raced', NEW n \in Nums
        PROVE  inode'[n].count = inode[n].count + Share(r, n) - Share(proc[p], n)
                                   + FileRefs(file', n) - FileRefs(file, n)
    <2>1. /\ Share(r, n) \in Nat /\ Share(proc[p], n) \in Nat
          /\ FileRefs(file, n) \in Nat /\ FileRefs(file', n) = FileRefs(file, n)
      BY ShareNat, FileRefsNat, <1>2
    <2>2. inode'[n].count = inode[n].count + Share(r, n) - Share(proc[p], n)
      BY <1>8
    <2> QED BY <1>7, <2>1, <2>2
  <1>9. ~raced' =>
             /\ ~raced
             /\ \A n \in Nums : inode'[n].count = inode[n].count + Share(r, n) - Share(proc[p], n)
                                   + FileRefs(file', n) - FileRefs(file, n)
             /\ 1 \in imap' /\ \A n \in Nums \ imap' : inode'[n].count = 0
    BY <1>8
  <1> QED BY <1>4, <1>5, <1>6, <1>9, NamesStep, Zenon

\* A call that is not giving references back: its variables, its references.
LEMMA AtLabel ==
    ASSUME NamesInv, NEW p \in Procs, NEW l, At(p, l), l # "puts"
    PROVE  /\ proc \in [Procs -> CallRecs] /\ proc[p] \in CallRecs /\ OnCourse(proc[p])
           /\ proc[p].pc = l /\ HasAt(proc[p], l) /\ proc[p].puts = <<>> /\ proc[p].res = 0
           /\ held \in [Procs -> 0 .. 1] /\ held[p] = IF Buffered(proc[p]) THEN 1 ELSE 0
           /\ \A n \in Nums : Share(proc[p], n) = Is(proc[p].dir, n) + Is(proc[p].ino, n) + Is(proc[p].old, n)
           /\ inode \in [Nums -> InodeRecs] /\ imap \subseteq Nums /\ zmap \subseteq Zones
           /\ panicked \in BOOLEAN /\ raced \in BOOLEAN
           /\ ~raced => InodesInUse
  <1>1. /\ proc \in [Procs -> CallRecs] /\ inode \in [Nums -> InodeRecs] /\ held \in [Procs -> 0 .. 1]
        /\ imap \subseteq Nums /\ zmap \subseteq Zones /\ panicked \in BOOLEAN /\ raced \in BOOLEAN
    BY DEF NamesInv, NamesTyped
  <1>2. OnCourse(proc[p]) /\ held[p] = IF Buffered(proc[p]) THEN 1 ELSE 0
    BY DEF NamesInv, CallsOnCourse
  <1>3. proc[p].pc = l
    BY DEF At
  <1>4. proc[p].puts = <<>> /\ proc[p].res = 0 /\ HasAt(proc[p], l)
    BY <1>2, <1>3 DEF OnCourse
  <1>5. ASSUME NEW n \in Nums
        PROVE  Share(proc[p], n) = Is(proc[p].dir, n) + Is(proc[p].ino, n) + Is(proc[p].old, n)
    <2>1. Is(proc[p].res, n) = 0
      BY <1>4, IsFacts
    <2>2. DueTo(proc[p].puts, n) = 0
      BY <1>4 DEF DueTo
    <2>3. Is(proc[p].dir, n) \in Int /\ Is(proc[p].ino, n) \in Int /\ Is(proc[p].old, n) \in Int
      BY DEF Is
    <2> QED BY <2>1, <2>2, <2>3 DEF Share
  <1> QED BY <1>1, <1>2, <1>3, <1>4, <1>5 DEF NamesInv

\* A call that goes on to give the references in q back.
LEMMA PutStep ==
    ASSUME NamesInv, NEW p \in Procs, NEW r \in CallRecs, NEW q \in Seq(Nums), q # <<>>, Len(q) <= 2,
           NEW l \in {"idle", "iget", "unmake", "linked"},
           PutThen(p, q, r, l), r.fd = proc[p].fd, r.op = proc[p].op,
           r.res = 0 \/ (l = "idle" /\ r.fd # 0),
           HasAt(r, l), l = "iget" => ~(r.op \in Takes /\ Len(r.rest) = 1),
           held' \in [Procs -> 0 .. 1], \A t \in Procs \ {p} : held'[t] = held[t], held'[p] = 0,
           inode' \in [Nums -> InodeRecs], imap' \subseteq Nums, zmap' \subseteq Zones,
           UNCHANGED fvars, panicked' \in BOOLEAN, raced' \in BOOLEAN,
           ~raced' =>
             /\ ~raced
             /\ \A n \in Nums : inode'[n].count = inode[n].count + Is(r.dir, n) + Is(r.ino, n)
                                   + Is(r.old, n) + Is(r.res, n) + DueTo(q, n) - Share(proc[p], n)
             /\ 1 \in imap' /\ \A n \in Nums \ imap' : inode'[n].count = 0
    PROVE  NamesInv'
  <1> DEFINE s == [r EXCEPT !.pc = "puts", !.puts = q, !.next = l]
  <1>1. /\ s \in CallRecs /\ s.pc = "puts" /\ s.puts = q /\ s.next = l /\ s.op = r.op /\ s.rest = r.rest
        /\ s.new = r.new /\ s.dir = r.dir /\ s.inr = r.inr /\ s.ino = r.ino /\ s.old = r.old
        /\ s.fd = r.fd /\ s.res = r.res
    BY ZenonT(60) DEF CallRecs, CallLabels
  <1>2. proc' = [proc EXCEPT ![p] = s]
    BY DEF PutThen, Become
  <1> HIDE DEF s
  <1>3. OnCourse(proc[p]) /\ inode \in [Nums -> InodeRecs]
    BY DEF NamesInv, CallsOnCourse, NamesTyped
  <1>4. HasAt(s, l)
    BY <1>1 DEF HasAt
  <1>5. r.fd # 0 <=> r.op \in Opens
    BY <1>3 DEF OnCourse
  <1>6. OnCourse(s)
    BY <1>1, <1>4, <1>5 DEF OnCourse
  <1>7. ~Buffered(s)
    BY <1>1 DEF Buffered
  <1>8. ASSUME ~raced', NEW n \in Nums
        PROVE  inode'[n].count = inode[n].count + Share(s, n) - Share(proc[p], n)
    <2>1. Share(s, n) = Is(r.dir, n) + Is(r.ino, n) + Is(r.old, n) + Is(r.res, n) + DueTo(q, n)
      BY <1>1 DEF Share
    <2>2. /\ Is(r.dir, n) \in Int /\ Is(r.ino, n) \in Int /\ Is(r.old, n) \in Int /\ Is(r.res, n) \in Int
          /\ DueTo(q, n) \in Int /\ Share(proc[p], n) \in Int /\ inode[n].count \in Int
      BY <1>3, InodeRecFields, ShareNat DEF Is, DueTo
    <2>3. inode'[n].count = inode[n].count + Is(r.dir, n) + Is(r.ino, n)
                                   + Is(r.old, n) + Is(r.res, n) + DueTo(q, n) - Share(proc[p], n)
      BY <1>8
    <2> QED BY <2>1, <2>2, <2>3, SMTT(30)
  <1>9. ~raced' =>
             /\ ~raced
             /\ \A n \in Nums : inode'[n].count = inode[n].count + Share(s, n) - Share(proc[p], n)
             /\ 1 \in imap' /\ \A n \in Nums \ imap' : inode'[n].count = 0
    BY <1>8
  <1>10. s.fd = proc[p].fd /\ held'[p] = IF Buffered(s) THEN 1 ELSE 0
    BY <1>1, <1>7
  <1> QED BY <1>1, <1>2, <1>6, <1>9, <1>10, CallStep, Zenon

\* A call that ends once it has given the references in q back.
LEMMA FailStep ==
    ASSUME NamesInv, NEW p \in Procs, NEW q \in Seq(Nums), q # <<>>, Len(q) <= 2,
           NEW l, At(p, l), l # "puts", Fail(p, q),
           held' \in [Procs -> 0 .. 1], \A t \in Procs \ {p} : held'[t] = held[t], held'[p] = 0,
           inode' \in [Nums -> InodeRecs], imap' \subseteq Nums, zmap' \subseteq Zones,
           UNCHANGED fvars, panicked' \in BOOLEAN, raced' \in BOOLEAN,
           ~raced' =>
             /\ ~raced
             /\ \A n \in Nums : inode'[n].count = inode[n].count + DueTo(q, n) - Share(proc[p], n)
             /\ 1 \in imap' /\ \A n \in Nums \ imap' : inode'[n].count = 0
    PROVE  NamesInv'
  <1>1. /\ proc[p] \in CallRecs /\ OnCourse(proc[p]) /\ HasAt(proc[p], l) /\ proc[p].res = 0
        /\ inode \in [Nums -> InodeRecs]
    BY AtLabel
  <1>n. NoScan \in ScanRecs
    BY NoScanTyped
  <1> DEFINE r == Drop(p)
  <1>2. /\ r \in CallRecs /\ r.dir = 0 /\ r.ino = 0 /\ r.old = 0 /\ r.res = 0 /\ r.fd = proc[p].fd
        /\ r.op = proc[p].op /\ r.new = proc[p].new /\ PutThen(p, q, r, "idle")
    BY <1>1, <1>n DEF Drop, CallRecs, NumOr0, Fail
  <1> HIDE DEF r
  <1>3. HasAt(r, "idle")
    BY <1>1, <1>2 DEF HasAt
  <1>4. ASSUME ~raced', NEW n \in Nums
        PROVE  inode'[n].count = inode[n].count + Is(r.dir, n) + Is(r.ino, n)
                                   + Is(r.old, n) + Is(r.res, n) + DueTo(q, n) - Share(proc[p], n)
    <2>1. Is(r.dir, n) = 0 /\ Is(r.ino, n) = 0 /\ Is(r.old, n) = 0 /\ Is(r.res, n) = 0
      BY <1>2, IsFacts
    <2>2. DueTo(q, n) \in Int /\ Share(proc[p], n) \in Int /\ inode[n].count \in Int
      BY <1>1, InodeRecFields, ShareNat DEF DueTo
    <2>3. inode'[n].count = inode[n].count + DueTo(q, n) - Share(proc[p], n)
      BY <1>4
    <2> QED BY <2>1, <2>2, <2>3
  <1>5. ~raced' =>
             /\ ~raced
             /\ \A n \in Nums : inode'[n].count = inode[n].count + Is(r.dir, n) + Is(r.ino, n)
                                   + Is(r.old, n) + Is(r.res, n) + DueTo(q, n) - Share(proc[p], n)
             /\ 1 \in imap' /\ \A n \in Nums \ imap' : inode'[n].count = 0
    BY <1>4
  <1>6. "idle" \in {"idle", "iget", "unmake", "linked"} /\ ~("idle" = "iget")
    OBVIOUS
  <1> QED BY <1>2, <1>3, <1>5, <1>6, PutStep, Zenon

\* The same when nothing else changes: q has the references of the call.
LEMMA FailQuietly ==
    ASSUME NamesInv, NEW p \in Procs, NEW q \in Seq(Nums), q # <<>>, Len(q) <= 2,
           NEW l, At(p, l), l # "puts", Fail(p, q),
           held' \in [Procs -> 0 .. 1], \A t \in Procs \ {p} : held'[t] = held[t], held'[p] = 0,
           UNCHANGED <<inode, imap, zmap, panicked, raced, fvars>>,
           \A n \in Nums : DueTo(q, n) = Share(proc[p], n)
    PROVE  NamesInv'
  <1>1. /\ inode \in [Nums -> InodeRecs] /\ imap \subseteq Nums /\ zmap \subseteq Zones
        /\ panicked \in BOOLEAN /\ raced \in BOOLEAN /\ (~raced => InodesInUse)
    BY AtLabel
  <1>2. /\ inode' = inode /\ imap' = imap /\ zmap' = zmap /\ panicked' = panicked /\ raced' = raced
        /\ UNCHANGED fvars
    OBVIOUS
  <1>3. ASSUME NEW n \in Nums
        PROVE  inode'[n].count = inode[n].count + DueTo(q, n) - Share(proc[p], n)
    <2>1. inode[n].count \in Int /\ Share(proc[p], n) \in Int /\ DueTo(q, n) = Share(proc[p], n)
      BY <1>1, InodeRecFields, ShareNat
    <2> QED BY <1>2, <2>1
  <1>4. ~raced' =>
             /\ ~raced
             /\ \A n \in Nums : inode'[n].count = inode[n].count + DueTo(q, n) - Share(proc[p], n)
             /\ 1 \in imap' /\ \A n \in Nums \ imap' : inode'[n].count = 0
    BY <1>1, <1>2, <1>3 DEF InodesInUse
  <1>5. /\ inode' \in [Nums -> InodeRecs] /\ imap' \subseteq Nums /\ zmap' \subseteq Zones
        /\ panicked' \in BOOLEAN /\ raced' \in BOOLEAN
    BY <1>1, <1>2
  <1> QED BY <1>2, <1>4, <1>5, FailStep, Zenon

\* A call that goes on at label l with the references it has.
LEMMA GotoStep ==
    ASSUME NamesInv, NEW p \in Procs, NEW k, At(p, k), k \notin {"puts", "idle"},
           NEW l \in CallLabels, l \notin {"puts", "idle", "iget"}, NEW sc \in ScanRecs,
           l \in {"init", "extend"} => sc.zone # 0, Goto(p, l, sc), HasAt(proc[p], l),
           UNCHANGED held, Buffered(proc[p]) <=> l \in {"got", "empty"},
           inode' \in [Nums -> InodeRecs], imap' \subseteq Nums, zmap' \subseteq Zones,
           UNCHANGED fvars, panicked' \in BOOLEAN, raced' \in BOOLEAN,
           ~raced' =>
             /\ ~raced
             /\ \A n \in Nums : inode'[n].count = inode[n].count
             /\ 1 \in imap' /\ \A n \in Nums \ imap' : inode'[n].count = 0
    PROVE  NamesInv'
  <1>1. /\ proc[p] \in CallRecs /\ OnCourse(proc[p]) /\ proc[p].puts = <<>> /\ proc[p].res = 0
        /\ held \in [Procs -> 0 .. 1] /\ held[p] = IF Buffered(proc[p]) THEN 1 ELSE 0
        /\ inode \in [Nums -> InodeRecs]
    BY AtLabel
  <1> DEFINE s == [proc[p] EXCEPT !.pc = l, !.scan = sc]
  <1>2. /\ s \in CallRecs /\ s.pc = l /\ s.scan = sc /\ s.op = proc[p].op /\ s.rest = proc[p].rest
        /\ s.new = proc[p].new /\ s.dir = proc[p].dir /\ s.inr = proc[p].inr /\ s.ino = proc[p].ino
        /\ s.old = proc[p].old /\ s.fd = proc[p].fd /\ s.res = proc[p].res /\ s.puts = proc[p].puts
    BY <1>1 DEF CallRecs
  <1>3. proc' = [proc EXCEPT ![p] = s]
    BY DEF Goto, Become
  <1> HIDE DEF s
  <1>4. HasAt(s, l)
    BY <1>2 DEF HasAt
  <1>5. OnCourse(s)
    BY <1>1, <1>2, <1>4 DEF OnCourse
  <1>6. Buffered(s) <=> Buffered(proc[p])
    BY <1>2 DEF Buffered
  <1>7. held' = held
    OBVIOUS
  <1>8. /\ held' \in [Procs -> 0 .. 1] /\ \A t \in Procs \ {p} : held'[t] = held[t]
        /\ held'[p] = IF Buffered(s) THEN 1 ELSE 0
    BY <1>1, <1>6, <1>7
  <1>9. ASSUME NEW n \in Nums
        PROVE  inode[n].count = inode[n].count + Share(s, n) - Share(proc[p], n)
    <2>1. inode[n].count \in Int /\ Share(proc[p], n) \in Int
      BY <1>1, InodeRecFields, ShareNat
    <2>2. Share(s, n) = Share(proc[p], n)
      BY <1>2 DEF Share
    <2> QED BY <2>1, <2>2
  <1>10. ~raced' =>
             /\ ~raced
             /\ \A n \in Nums : inode'[n].count = inode[n].count + Share(s, n) - Share(proc[p], n)
             /\ 1 \in imap' /\ \A n \in Nums \ imap' : inode'[n].count = 0
    BY <1>9
  <1> QED BY <1>2, <1>3, <1>5, <1>8, <1>10, CallStep, Zenon

\* The same when nothing else changes.
LEMMA GotoQuietly ==
    ASSUME NamesInv, NEW p \in Procs, NEW k, At(p, k), k \notin {"puts", "idle"},
           NEW l \in CallLabels, l \notin {"puts", "idle", "iget"}, NEW sc \in ScanRecs,
           l \in {"init", "extend"} => sc.zone # 0, Goto(p, l, sc), HasAt(proc[p], l),
           Buffered(proc[p]) <=> l \in {"got", "empty"},
           UNCHANGED <<inode, imap, zmap, held, panicked, raced, fvars>>
    PROVE  NamesInv'
  <1>1. /\ inode \in [Nums -> InodeRecs] /\ imap \subseteq Nums /\ zmap \subseteq Zones
        /\ panicked \in BOOLEAN /\ raced \in BOOLEAN /\ (~raced => InodesInUse)
    BY AtLabel
  <1>2. /\ inode' = inode /\ imap' = imap /\ zmap' = zmap /\ panicked' = panicked /\ raced' = raced
        /\ UNCHANGED held /\ UNCHANGED fvars
    OBVIOUS
  <1>3. /\ inode' \in [Nums -> InodeRecs] /\ imap' \subseteq Nums /\ zmap' \subseteq Zones
        /\ panicked' \in BOOLEAN /\ raced' \in BOOLEAN
    BY <1>1, <1>2
  <1>4. ~raced' => /\ ~raced
                   /\ \A n \in Nums : inode'[n].count = inode[n].count
                   /\ 1 \in imap' /\ \A n \in Nums \ imap' : inode'[n].count = 0
    BY <1>1, <1>2 DEF InodesInUse
  <1> QED BY <1>2, <1>3, <1>4, GotoStep, Zenon

\* A call that goes on, once it has given q back, with the rest of its references.
LEMMA PutQuietly ==
    ASSUME NamesInv, NEW p \in Procs, NEW r \in CallRecs, NEW q \in Seq(Nums), q # <<>>, Len(q) <= 2,
           NEW l \in {"idle", "iget", "unmake", "linked"}, NEW k, At(p, k), k # "puts",
           PutThen(p, q, r, l), r.fd = proc[p].fd, r.op = proc[p].op, r.res = 0,
           HasAt(r, l), l = "iget" => ~(r.op \in Takes /\ Len(r.rest) = 1), ~Buffered(proc[p]),
           UNCHANGED <<inode, imap, zmap, held, panicked, raced, fvars>>,
           \A n \in Nums : Is(r.dir, n) + Is(r.ino, n) + Is(r.old, n) + DueTo(q, n) = Share(proc[p], n)
    PROVE  NamesInv'
  <1>1. /\ inode \in [Nums -> InodeRecs] /\ imap \subseteq Nums /\ zmap \subseteq Zones
        /\ panicked \in BOOLEAN /\ raced \in BOOLEAN /\ (~raced => InodesInUse)
        /\ held \in [Procs -> 0 .. 1] /\ held[p] = 0
    BY AtLabel
  <1>2. /\ inode' = inode /\ imap' = imap /\ zmap' = zmap /\ panicked' = panicked /\ raced' = raced
        /\ held' = held /\ UNCHANGED fvars
    OBVIOUS
  <1>3. /\ inode' \in [Nums -> InodeRecs] /\ imap' \subseteq Nums /\ zmap' \subseteq Zones
        /\ panicked' \in BOOLEAN /\ raced' \in BOOLEAN
        /\ held' \in [Procs -> 0 .. 1] /\ (\A t \in Procs \ {p} : held'[t] = held[t]) /\ held'[p] = 0
    BY <1>1, <1>2
  <1>4. ASSUME NEW n \in Nums
        PROVE  inode'[n].count = inode[n].count + Is(r.dir, n) + Is(r.ino, n)
                                   + Is(r.old, n) + Is(r.res, n) + DueTo(q, n) - Share(proc[p], n)
    <2>1. /\ Is(r.dir, n) \in Int /\ Is(r.ino, n) \in Int /\ Is(r.old, n) \in Int /\ Is(r.res, n) = 0
          /\ DueTo(q, n) \in Int /\ Share(proc[p], n) \in Int /\ inode[n].count \in Int
      BY <1>1, InodeRecFields, ShareNat, IsFacts DEF DueTo
    <2>2. Is(r.dir, n) + Is(r.ino, n) + Is(r.old, n) + DueTo(q, n) = Share(proc[p], n)
      OBVIOUS
    <2> QED BY <1>2, <2>1, <2>2, SMTT(30)
  <1>5. ~raced' =>
             /\ ~raced
             /\ \A n \in Nums : inode'[n].count = inode[n].count + Is(r.dir, n) + Is(r.ino, n)
                                   + Is(r.old, n) + Is(r.res, n) + DueTo(q, n) - Share(proc[p], n)
             /\ 1 \in imap' /\ \A n \in Nums \ imap' : inode'[n].count = 0
    BY <1>1, <1>2, <1>4 DEF InodesInUse
  <1> QED BY <1>2, <1>3, <1>5, PutStep, Zenon

\* What get_dir gives back when it fails: the directory, and sys_link's old inode.
DirOld(d, o) == IF o = 0 THEN <<d>> ELSE <<d, o>>

\* The directory and, in sys_link, the old inode.
LEMMA DirAndOld ==
    ASSUME NEW d \in Nums, NEW o \in NumOr0, NEW q, q = DirOld(d, o)
    PROVE  /\ q \in Seq(Nums) /\ q # <<>> /\ Len(q) <= 2
           /\ \A n \in Nums : DueTo(q, n) = Is(d, n) + Is(o, n)
  <1>1. CASE o = 0
    <2>1. q = <<d>>
      BY <1>1 DEF DirOld
    <2>2. ASSUME NEW n \in Nums PROVE DueTo(q, n) = Is(d, n) + Is(o, n)
      <3>1. DueTo(<<d>>, n) = Is(d, n)
        BY DueLists
      <3>2. Is(o, n) = 0 /\ Is(d, n) \in Int
        BY <1>1, IsFacts
      <3> QED BY <2>1, <3>1, <3>2
    <2>3. q \in Seq(Nums) /\ q # <<>> /\ Len(q) = 1
      BY <2>1, DueLists
    <2> QED BY <2>2, <2>3
  <1>2. CASE o # 0
    <2>1. q = <<d, o>> /\ o \in Nums
      BY <1>2 DEF NumOr0, DirOld
    <2>2. ASSUME NEW n \in Nums PROVE DueTo(q, n) = Is(d, n) + Is(o, n)
      BY <2>1, DueLists
    <2>3. q \in Seq(Nums) /\ q # <<>> /\ Len(q) = 2
      BY <2>1, DueLists
    <2> QED BY <2>2, <2>3
  <1> QED BY <1>1, <1>2

\* What sys_link gives back when the new name is empty: the old inode, the directory.
OldDir(d, o) == IF o = 0 THEN <<d>> ELSE <<o, d>>

\* The same two in the other order.
LEMMA OldAndDir ==
    ASSUME NEW d \in Nums, NEW o \in NumOr0, NEW q, q = OldDir(d, o)
    PROVE  /\ q \in Seq(Nums) /\ q # <<>> /\ Len(q) <= 2
           /\ \A n \in Nums : DueTo(q, n) = Is(d, n) + Is(o, n)
  <1>1. CASE o = 0
    <2>1. q = DirOld(d, o)
      BY <1>1 DEF DirOld, OldDir
    <2> QED BY <2>1, DirAndOld
  <1>2. CASE o # 0
    <2>1. q = <<o, d>> /\ o \in Nums
      BY <1>2 DEF NumOr0, OldDir
    <2>2. ASSUME NEW n \in Nums PROVE DueTo(q, n) = Is(d, n) + Is(o, n)
      <3>1. DueTo(<<o, d>>, n) = Is(o, n) + Is(d, n)
        BY <2>1, DueLists
      <3>2. Is(o, n) \in Int /\ Is(d, n) \in Int
        BY IsFacts
      <3> QED BY <2>1, <3>1, <3>2
    <2>3. q \in Seq(Nums) /\ q # <<>> /\ Len(q) = 2
      BY <2>1, DueLists
    <2> QED BY <2>2, <2>3
  <1> QED BY <1>1, <1>2

\* find_entry's answer is an entry in use.
LEMMA EntryFound ==
    ASSUME NEW p \in Procs, NEW d \in Nums, d = proc[p].dir, inode \in [Nums -> InodeRecs],
           find_entry(p) # 0
    PROVE  /\ find_entry(p) \in Nat
           /\ find_entry(p) \in DOMAIN inode[d].ents
           /\ inode[d].ents[find_entry(p)].ino \in Nums
  <1> DEFINE e == inode[d].ents
             hits == {i \in DOMAIN e : /\ i \in InBlock(proc[p].scan.blk) /\ i <= proc[p].scan.lim
                                       /\ e[i].ino # 0 /\ e[i].name = Head(proc[p].rest)}
  <1>1. e \in Seq(EntryRecs)
    BY InodeRecFields
  <1>2. DOMAIN e \subseteq Nat /\ \A i \in DOMAIN e : e[i] \in EntryRecs
    BY <1>1
  <1>3. hits # {} /\ find_entry(p) = Min(hits)
    BY Zenon DEF find_entry
  <1>4. hits \in SUBSET Nat
    BY <1>2
  <1>5. Min(hits) \in hits
    BY <1>3, <1>4, FirstFree
  <1>6. Min(hits) \in DOMAIN e /\ e[Min(hits)].ino # 0
    BY <1>5
  <1>7. e[Min(hits)].ino \in NumOr0
    BY <1>2, <1>6 DEF EntryRecs
  <1> QED BY <1>2, <1>3, <1>6, <1>7 DEF NumOr0

\* find_entry goes on to the next block.
LEMMA LookKeeps ==
    ASSUME NamesInv, NEW p \in Procs, Look(p)
    PROVE  NamesInv'
  <1> DEFINE sc == [proc[p].scan EXCEPT !.blk = @ + 1]
  <1>1. PICK l \in {"step", "find"} : At(p, l)
    BY DEF Look
  <1>2. /\ proc[p] \in CallRecs /\ HasAt(proc[p], l) /\ proc[p].pc = l
    BY <1>1, AtLabel
  <1>3. Goto(p, l, sc) /\ UNCHANGED <<inode, imap, zmap, held, panicked, raced, fvars>>
    BY <1>2 DEF Look
  <1>4. sc \in ScanRecs
    BY <1>2, CallRecFields, ScanOn
  <1> HIDE DEF sc
  <1>5. l \in CallLabels /\ l \notin {"puts", "idle", "iget", "got", "empty", "init", "extend"}
    BY DEF CallLabels
  <1>6. ~Buffered(proc[p])
    BY <1>2 DEF Buffered
  <1> QED BY <1>1, <1>2, <1>3, <1>4, <1>5, <1>6, GotoQuietly

\* get_dir goes on to the next directory or gives up.
LEMMA StepKeeps ==
    ASSUME NamesInv, NEW p \in Procs, Step(p)
    PROVE  NamesInv'
  <1> DEFINE d == proc[p].dir  o == proc[p].old  i == find_entry(p)
  <1>1. At(p, "step") /\ UNCHANGED <<inode, imap, zmap, held, panicked, raced, fvars>>
    BY DEF Step
  <1>2. /\ proc[p] \in CallRecs /\ HasAt(proc[p], "step") /\ proc[p].pc = "step" /\ proc[p].res = 0
        /\ held \in [Procs -> 0 .. 1] /\ held[p] = IF Buffered(proc[p]) THEN 1 ELSE 0
        /\ \A n \in Nums : Share(proc[p], n) = Is(d, n) + Is(proc[p].ino, n) + Is(o, n)
        /\ inode \in [Nums -> InodeRecs]
    BY <1>1, AtLabel
  <1>3. d \in Nums /\ o \in NumOr0 /\ proc[p].ino = 0 /\ ~Buffered(proc[p])
    BY <1>2, CallRecFields DEF HasAt, NumOr0, Buffered
  <1>4. ASSUME NEW n \in Nums PROVE Share(proc[p], n) = Is(d, n) + Is(o, n)
    <2>1. Is(proc[p].ino, n) = 0 /\ Is(d, n) \in Int /\ Is(o, n) \in Int
      BY <1>3, IsFacts
    <2> QED BY <1>2, <2>1
  <1>5. CASE i = 0
    <2> DEFINE q == IF o = 0 THEN <<d>> ELSE <<d, o>>
    <2>1. Fail(p, q)
      BY <1>5 DEF Step
    <2>2. q = DirOld(d, o)
      BY DEF DirOld
    <2> HIDE DEF q
    <2>3. /\ q \in Seq(Nums) /\ q # <<>> /\ Len(q) <= 2
          /\ \A n \in Nums : DueTo(q, n) = Is(d, n) + Is(o, n)
      BY <1>3, <2>2, DirAndOld
    <2>4. \A n \in Nums : DueTo(q, n) = Share(proc[p], n)
      BY <1>4, <2>3
    <2>5. held' \in [Procs -> 0 .. 1] /\ (\A t \in Procs \ {p} : held'[t] = held[t]) /\ held'[p] = 0
      BY <1>1, <1>2, <1>3
    <2>6. UNCHANGED <<inode, imap, zmap, panicked, raced, fvars>>
      BY <1>1
    <2> QED BY <1>1, <2>1, <2>3, <2>4, <2>5, <2>6, FailQuietly
  <1>6. CASE i # 0
    <2> DEFINE m == inode[d].ents[i].ino  r == [proc[p] EXCEPT !.inr = m, !.dir = 0]
    <2>1. PutThen(p, <<d>>, r, "iget")
      BY <1>6 DEF Step
    <2>2. m \in Nums
      BY <1>2, <1>3, <1>6, EntryFound
    <2>3. /\ r \in CallRecs /\ r.inr = m /\ r.dir = 0 /\ r.ino = 0 /\ r.old = o /\ r.res = 0
          /\ r.fd = proc[p].fd /\ r.op = proc[p].op /\ r.rest = proc[p].rest /\ r.new = proc[p].new
      BY <1>2, <1>3, <2>2 DEF CallRecs, NumOr0
    <2> HIDE DEF r, m
    <2>4. HasAt(r, "iget") /\ Len(r.rest) # 1
      BY <1>2, <2>2, <2>3, NamesConstants DEF HasAt
    <2>5. ASSUME NEW n \in Nums
          PROVE  Is(r.dir, n) + Is(r.ino, n) + Is(r.old, n) + DueTo(<<d>>, n) = Share(proc[p], n)
      <3>1. DueTo(<<d>>, n) = Is(d, n)
        BY <1>3, DueOne
      <3>2. Is(r.dir, n) = 0 /\ Is(r.ino, n) = 0 /\ Is(d, n) \in Int /\ Is(o, n) \in Int
        BY <2>3, IsFacts
      <3> QED BY <1>4, <2>3, <3>1, <3>2
    <2>6. <<d>> \in Seq(Nums) /\ <<d>> # <<>> /\ Len(<<d>>) <= 2
      BY <1>3, DueOne
    <2> QED BY <1>1, <1>3, <2>1, <2>3, <2>4, <2>5, <2>6, PutQuietly
  <1> QED BY <1>5, <1>6

\* find_entry for the last name, and what each call makes of its answer.
LEMMA FindKeeps ==
    ASSUME NamesInv, NEW p \in Procs, Find(p)
    PROVE  NamesInv'
  <1> DEFINE d == proc[p].dir  o == proc[p].old  i == find_entry(p)
             m == inode[d].ents[i].ino  op == proc[p].op
  <1>1. At(p, "find") /\ UNCHANGED <<inode, imap, zmap, panicked, raced, fvars>>
    BY DEF Find
  <1>2. /\ proc \in [Procs -> CallRecs]
        /\ proc[p] \in CallRecs /\ HasAt(proc[p], "find") /\ proc[p].pc = "find" /\ proc[p].res = 0
        /\ held \in [Procs -> 0 .. 1] /\ held[p] = IF Buffered(proc[p]) THEN 1 ELSE 0
        /\ \A n \in Nums : Share(proc[p], n) = Is(d, n) + Is(proc[p].ino, n) + Is(o, n)
        /\ inode \in [Nums -> InodeRecs] /\ proc[p].puts = <<>> /\ OnCourse(proc[p])
        /\ imap \subseteq Nums /\ zmap \subseteq Zones
        /\ panicked \in BOOLEAN /\ raced \in BOOLEAN /\ (~raced => InodesInUse)
    BY <1>1, AtLabel
  <1>3. /\ d \in Nums /\ o \in NumOr0 /\ proc[p].ino = 0 /\ ~Buffered(proc[p]) /\ op \in Ops
        /\ Len(proc[p].rest) = 1 /\ proc[p].rest # <<>> /\ (o # 0 => op = "link")
    BY <1>2, CallRecFields DEF HasAt, NumOr0, Buffered
  <1>4. ASSUME NEW n \in Nums PROVE Share(proc[p], n) = Is(d, n) + Is(o, n)
    <2>1. Is(proc[p].ino, n) = 0 /\ Is(d, n) \in Int /\ Is(o, n) \in Int
      BY <1>3, IsFacts
    <2> QED BY <1>2, <2>1
  <1>5. /\ <<d>> \in Seq(Nums) /\ <<d>> # <<>> /\ Len(<<d>>) <= 2
        /\ \A n \in Nums : DueTo(<<d>>, n) = Is(d, n)
    BY <1>3, DueOne
  <1>6. \/ /\ op \in {"open", "read", "namei", "link"} /\ i # 0 /\ o = 0 /\ UNCHANGED held
           /\ PutThen(p, <<d>>, [proc[p] EXCEPT !.inr = m, !.dir = 0], "iget")
        \/ /\ op = "excl" /\ UNCHANGED held
           /\ PutThen(p, <<d>>, [proc[p] EXCEPT !.inr = 0, !.dir = 0], "idle")
        \/ /\ op \in Takes /\ i # 0 /\ held' = [held EXCEPT ![p] = @ + 1]
           /\ Become(p, [proc[p] EXCEPT !.pc = "iget", !.inr = m, !.de = i])
        \/ o = 0 /\ Fail(p, <<d>>) /\ UNCHANGED held
        \/ op = "link" /\ o # 0 /\ Fail(p, <<d, o>>) /\ UNCHANGED held
        \/ op = "link" /\ o # 0 /\ Goto(p, "add", NoScan) /\ UNCHANGED held
        \/ op \in Makes /\ o = 0 /\ Goto(p, "new", NoScan) /\ UNCHANGED held
    BY <1>3 DEF Find, Ops, Takes, Makes
  <1>7. CASE /\ op \in {"open", "read", "namei", "link"} /\ i # 0 /\ o = 0 /\ UNCHANGED held
             /\ PutThen(p, <<d>>, [proc[p] EXCEPT !.inr = m, !.dir = 0], "iget")
    <2> DEFINE r == [proc[p] EXCEPT !.inr = m, !.dir = 0]
    <2>1. PutThen(p, <<d>>, r, "iget") /\ UNCHANGED <<inode, imap, zmap, held, panicked, raced, fvars>>
      BY <1>1, <1>7
    <2>2. m \in Nums
      BY <1>2, <1>3, <1>7, EntryFound
    <2>3. /\ r \in CallRecs /\ r.inr = m /\ r.dir = 0 /\ r.ino = 0 /\ r.old = o /\ r.res = 0
          /\ r.fd = proc[p].fd /\ r.op = op /\ r.rest = proc[p].rest /\ r.new = proc[p].new
      BY <1>2, <1>3, <2>2 DEF CallRecs, NumOr0
    <2> HIDE DEF r, m
    <2>4. HasAt(r, "iget") /\ r.op \notin Takes
      BY <1>2, <1>3, <1>7, <2>2, <2>3, NamesConstants DEF HasAt, Takes
    <2>5. ASSUME NEW n \in Nums
          PROVE  Is(r.dir, n) + Is(r.ino, n) + Is(r.old, n) + DueTo(<<d>>, n) = Share(proc[p], n)
      <3>1. DueTo(<<d>>, n) = Is(d, n)
        BY <1>5
      <3>2. Is(r.dir, n) = 0 /\ Is(r.ino, n) = 0 /\ Is(d, n) \in Int /\ Is(o, n) \in Int
        BY <2>3, IsFacts
      <3> QED BY <1>4, <2>3, <3>1, <3>2
    <2> QED BY <1>1, <1>3, <1>5, <2>1, <2>3, <2>4, <2>5, PutQuietly
  <1>8. CASE /\ op = "excl" /\ UNCHANGED held
             /\ PutThen(p, <<d>>, [proc[p] EXCEPT !.inr = 0, !.dir = 0], "idle")
    <2> DEFINE r == [proc[p] EXCEPT !.inr = 0, !.dir = 0]
    <2>1. PutThen(p, <<d>>, r, "idle") /\ UNCHANGED <<inode, imap, zmap, held, panicked, raced, fvars>>
      BY <1>1, <1>8
    <2>2. /\ r \in CallRecs /\ r.dir = 0 /\ r.ino = 0 /\ r.old = o /\ r.res = 0
          /\ r.fd = proc[p].fd /\ r.op = op /\ r.rest = proc[p].rest /\ r.new = proc[p].new
      BY <1>2, <1>3 DEF CallRecs, NumOr0
    <2> HIDE DEF r
    <2>3. HasAt(r, "idle") /\ o = 0
      BY <1>2, <1>3, <1>8, <2>2 DEF HasAt
    <2>4. ASSUME NEW n \in Nums
          PROVE  Is(r.dir, n) + Is(r.ino, n) + Is(r.old, n) + DueTo(<<d>>, n) = Share(proc[p], n)
      <3>1. DueTo(<<d>>, n) = Is(d, n)
        BY <1>5
      <3>2. Is(r.dir, n) = 0 /\ Is(r.ino, n) = 0 /\ Is(d, n) \in Int /\ Is(o, n) \in Int
        BY <2>2, IsFacts
      <3> QED BY <1>4, <2>2, <3>1, <3>2
    <2>5. "idle" \in {"idle", "iget", "unmake", "linked"} /\ "idle" # "iget"
      OBVIOUS
    <2> QED BY <1>1, <1>3, <1>5, <2>1, <2>2, <2>3, <2>4, <2>5, PutQuietly
  <1>9. CASE /\ op \in Takes /\ i # 0 /\ held' = [held EXCEPT ![p] = @ + 1]
             /\ Become(p, [proc[p] EXCEPT !.pc = "iget", !.inr = m, !.de = i])
    <2> DEFINE r == [proc[p] EXCEPT !.pc = "iget", !.inr = m, !.de = i]
    <2>1. proc' = [proc EXCEPT ![p] = r]
      BY <1>9 DEF Become
    <2>2. m \in Nums /\ i \in Nat
      BY <1>2, <1>3, <1>9, EntryFound
    <2>3. /\ r \in CallRecs /\ r.inr = m /\ r.dir = d /\ r.ino = 0 /\ r.old = o /\ r.res = 0 /\ r.pc = "iget"
          /\ r.fd = proc[p].fd /\ r.op = op /\ r.rest = proc[p].rest /\ r.new = proc[p].new
          /\ r.puts = <<>>
      BY <1>2, <1>3, <2>2 DEF CallRecs, CallLabels, NumOr0
    <2> HIDE DEF r, m, i
    <2>4. o = 0 /\ op \notin Opens
      BY <1>3, <1>9 DEF Takes, Opens
    <2>5. HasAt(r, "iget")
      BY <1>2, <1>3, <1>9, <2>2, <2>3, <2>4, NamesConstants DEF HasAt, Takes
    <2>6. OnCourse(r)
      BY <1>2, <2>3, <2>4, <2>5 DEF OnCourse
    <2>7. Buffered(r)
      BY <1>3, <1>9, <2>3 DEF Buffered
    <2>8. /\ held' \in [Procs -> 0 .. 1] /\ (\A t \in Procs \ {p} : held'[t] = held[t])
          /\ held'[p] = IF Buffered(r) THEN 1 ELSE 0
      BY <1>2, <1>3, <1>9, <2>7
    <2>9. /\ inode' = inode /\ imap' = imap /\ zmap' = zmap /\ panicked' = panicked /\ raced' = raced
          /\ UNCHANGED fvars
      BY <1>1
    <2>10. ASSUME NEW n \in Nums
           PROVE  inode'[n].count = inode[n].count + Share(r, n) - Share(proc[p], n)
      <3>1. Share(r, n) = Share(proc[p], n)
        BY <1>2, <1>3, <2>3 DEF Share
      <3>2. inode[n].count \in Int /\ Share(proc[p], n) \in Int
        BY <1>2, InodeRecFields, ShareNat
      <3> QED BY <2>9, <3>1, <3>2
    <2>11. ~raced' =>
             /\ ~raced
             /\ \A n \in Nums : inode'[n].count = inode[n].count + Share(r, n) - Share(proc[p], n)
             /\ 1 \in imap' /\ \A n \in Nums \ imap' : inode'[n].count = 0
      BY <1>2, <2>9, <2>10 DEF InodesInUse
    <2>12. /\ inode' \in [Nums -> InodeRecs] /\ imap' \subseteq Nums /\ zmap' \subseteq Zones
           /\ panicked' \in BOOLEAN /\ raced' \in BOOLEAN
      BY <1>2, <2>9
    <2> QED BY <2>1, <2>3, <2>6, <2>8, <2>9, <2>11, <2>12, CallStep, Zenon
  <1>10. CASE o = 0 /\ Fail(p, <<d>>) /\ UNCHANGED held
    <2>1. ASSUME NEW n \in Nums PROVE DueTo(<<d>>, n) = Share(proc[p], n)
      <3>1. Is(o, n) = 0 /\ Is(d, n) \in Int
        BY <1>10, IsFacts
      <3> QED BY <1>4, <1>5, <3>1
    <2>2. held' \in [Procs -> 0 .. 1] /\ (\A t \in Procs \ {p} : held'[t] = held[t]) /\ held'[p] = 0
      BY <1>2, <1>3, <1>10
    <2> QED BY <1>1, <1>5, <1>10, <2>1, <2>2, FailQuietly
  <1>11. CASE op = "link" /\ o # 0 /\ Fail(p, <<d, o>>) /\ UNCHANGED held
    <2>1. o \in Nums
      BY <1>3, <1>11 DEF NumOr0
    <2>2. /\ <<d, o>> \in Seq(Nums) /\ <<d, o>> # <<>> /\ Len(<<d, o>>) <= 2
          /\ \A n \in Nums : DueTo(<<d, o>>, n) = Is(d, n) + Is(o, n)
      BY <1>3, <2>1, DueTwo
    <2>3. \A n \in Nums : DueTo(<<d, o>>, n) = Share(proc[p], n)
      BY <1>4, <2>2
    <2>4. held' \in [Procs -> 0 .. 1] /\ (\A t \in Procs \ {p} : held'[t] = held[t]) /\ held'[p] = 0
      BY <1>2, <1>3, <1>11
    <2> QED BY <1>1, <1>11, <2>2, <2>3, <2>4, FailQuietly
  <1>12. CASE op = "link" /\ o # 0 /\ Goto(p, "add", NoScan) /\ UNCHANGED held
    <2>1. HasAt(proc[p], "add") /\ "add" \in CallLabels
      BY <1>2, <1>3, <1>12 DEF HasAt, Makes, CallLabels
    <2> QED BY <1>1, <1>3, <1>12, <2>1, NoScanTyped, GotoQuietly
  <1>13. CASE op \in Makes /\ o = 0 /\ Goto(p, "new", NoScan) /\ UNCHANGED held
    <2>1. HasAt(proc[p], "new") /\ "new" \in CallLabels
      BY <1>2, <1>3, <1>13 DEF HasAt, Makes, CallLabels
    <2> QED BY <1>1, <1>3, <1>13, <2>1, NoScanTyped, GotoQuietly
  <1> QED BY <1>6, <1>7, <1>8, <1>9, <1>10, <1>11, <1>12, <1>13

\* i_nlinks is set.
LEMMA LinksSet ==
    ASSUME NEW e \in InodeRecs, NEW k \in Nat
    PROVE  [e EXCEPT !.nlinks = k] \in InodeRecs /\ [e EXCEPT !.nlinks = k].count = e.count
  BY DEF InodeRecs

\* i_zone is set.
LEMMA ZonesSet ==
    ASSUME NEW e \in InodeRecs, NEW z \in Seq(Zones)
    PROVE  [e EXCEPT !.zones = z] \in InodeRecs /\ [e EXCEPT !.zones = z].count = e.count
  BY DEF InodeRecs

\* A directory's entries are set.
LEMMA EntriesSet ==
    ASSUME NEW e \in InodeRecs, NEW s \in Seq(EntryRecs)
    PROVE  [e EXCEPT !.ents = s] \in InodeRecs /\ [e EXCEPT !.ents = s].count = e.count
  BY DEF InodeRecs

\* A directory entry.
LEMMA EntTyped ==
    ASSUME NEW x \in FileNames, NEW n \in NumOr0
    PROVE  Ent(x, n) \in EntryRecs
  BY DEF Ent, EntryRecs

\* A new inode.
LEMMA BlankInode ==
    /\ Blank \in InodeRecs /\ Blank.count = 0
  <1>1. <<>> \in Seq(Zones) /\ <<>> \in Seq(EntryRecs)
    OBVIOUS
  <1> QED BY <1>1 DEF Blank, InodeRecs

\* ... of any kind.
LEMMA NewInode ==
    ASSUME NEW k \in {"none", "tty", "block"}
    PROVE  /\ [Blank EXCEPT !.count = 1, !.nlinks = 1, !.dev = k] \in InodeRecs
           /\ [Blank EXCEPT !.count = 1, !.nlinks = 1, !.dev = k].count = 1
  BY BlankInode DEF InodeRecs

\* iget takes a reference.
LEMMA CountUp ==
    ASSUME inode \in [Nums -> InodeRecs], NEW m \in Nums, inode' = [inode EXCEPT ![m].count = @ + 1]
    PROVE  inode' \in [Nums -> InodeRecs] /\ \A n \in Nums : inode'[n].count = inode[n].count + Is(m, n)
  <1>1. inode[m] \in InodeRecs /\ inode[m].count + 1 \in Nat
    BY InodeRecFields
  <1> DEFINE e == [inode[m] EXCEPT !.count = inode[m].count + 1]
  <1>2. e \in InodeRecs /\ e.count = inode[m].count + 1
    BY <1>1 DEF InodeRecs
  <1>3. inode' = [inode EXCEPT ![m] = e]
    OBVIOUS
  <1> HIDE DEF e
  <1>4. ASSUME NEW n \in Nums PROVE inode'[n].count = inode[n].count + Is(m, n)
    <2>1. CASE n = m
      BY <1>2, <1>3, <2>1 DEF Is
    <2>2. CASE n # m
      <3>1. inode[n].count \in Nat /\ inode'[n] = inode[n]
        BY <1>3, <2>2, InodeRecFields
      <3> QED BY <2>2, <3>1 DEF Is
    <2> QED BY <2>1, <2>2
  <1> QED BY <1>2, <1>3, <1>4

\* An inode that is written without its i_count.
LEMMA CountsKept ==
    ASSUME inode \in [Nums -> InodeRecs], NEW m \in Nums, NEW e \in InodeRecs,
           e.count = inode[m].count, inode' = [inode EXCEPT ![m] = e]
    PROVE  inode' \in [Nums -> InodeRecs] /\ \A n \in Nums : inode'[n].count = inode[n].count
  OBVIOUS

\* sys_link goes on to the new name with the old inode in hand.
LEMMA AgainKeeps ==
    ASSUME NamesInv, NEW p \in Procs, Again(p)
    PROVE  NamesInv'
  <1>1. /\ At(p, "again") /\ imap' = imap /\ zmap' = zmap /\ held' = held /\ panicked' = panicked
        /\ raced' = raced /\ UNCHANGED fvars
    BY DEF Again
  <1>2. /\ proc[p] \in CallRecs /\ HasAt(proc[p], "again") /\ proc[p].pc = "again" /\ proc[p].res = 0
        /\ held \in [Procs -> 0 .. 1] /\ held[p] = IF Buffered(proc[p]) THEN 1 ELSE 0
        /\ \A n \in Nums : Share(proc[p], n) = Is(proc[p].dir, n) + Is(proc[p].ino, n) + Is(proc[p].old, n)
        /\ inode \in [Nums -> InodeRecs] /\ proc[p].puts = <<>> /\ OnCourse(proc[p])
        /\ imap \subseteq Nums /\ zmap \subseteq Zones
        /\ panicked \in BOOLEAN /\ raced \in BOOLEAN /\ (~raced => InodesInUse)
    BY <1>1, AtLabel
  <1>3. /\ proc[p].op = "link" /\ proc[p].old # 0 /\ proc[p].dir = 0 /\ proc[p].ino = 0
        /\ ~Buffered(proc[p]) /\ proc[p].old \in Nums
    BY <1>2, CallRecFields DEF HasAt, Buffered, NumOr0
  <1>a. CASE proc[p].new = <<>>
    <2> DEFINE o == proc[p].old
    <2>1. Fail(p, <<o>>) /\ inode' = inode
      BY <1>a DEF Again
    <2>2. <<o>> \in Seq(Nums) /\ <<o>> # <<>> /\ Len(<<o>>) <= 2 /\ \A n \in Nums : DueTo(<<o>>, n) = Is(o, n)
      BY <1>3, DueOne
    <2>3. ASSUME NEW n \in Nums PROVE DueTo(<<o>>, n) = Share(proc[p], n)
      <3>1. Is(proc[p].dir, n) = 0 /\ Is(proc[p].ino, n) = 0 /\ Is(o, n) \in Int
        BY <1>3, IsFacts
      <3> QED BY <1>2, <2>2, <3>1
    <2>4. held' \in [Procs -> 0 .. 1] /\ (\A t \in Procs \ {p} : held'[t] = held[t]) /\ held'[p] = 0
      BY <1>1, <1>2, <1>3
    <2>5. UNCHANGED <<inode, imap, zmap, panicked, raced, fvars>>
      BY <1>1, <2>1
    <2> QED BY <1>1, <2>1, <2>2, <2>3, <2>4, <2>5, FailQuietly
  <1>b. CASE proc[p].new # <<>>
    <2> DEFINE r == [proc[p] EXCEPT !.pc = "walk", !.dir = 1, !.rest = proc[p].new]
    <2>1. proc' = [proc EXCEPT ![p] = r] /\ inode' = [inode EXCEPT ![1].count = @ + 1]
      BY <1>b DEF Again, Become
    <2>4. /\ r \in CallRecs /\ r.pc = "walk" /\ r.dir = 1 /\ r.ino = 0 /\ r.old = proc[p].old /\ r.res = 0
          /\ r.fd = proc[p].fd /\ r.op = "link" /\ r.rest = proc[p].new /\ r.new = proc[p].new
          /\ r.puts = <<>>
      BY <1>2, <1>3, NamesConstants DEF CallRecs, CallLabels, NumOr0
    <2> HIDE DEF r
    <2>5. HasAt(r, "walk")
      BY <1>3, <1>b, <2>4 DEF HasAt, Ops
    <2>6. OnCourse(r) /\ ~Buffered(r)
      BY <1>2, <1>3, <2>4, <2>5 DEF OnCourse, Buffered
    <2>7. inode' \in [Nums -> InodeRecs] /\ \A n \in Nums : inode'[n].count = inode[n].count + Is(1, n)
      BY <1>1, <2>1, <1>2, NamesConstants, CountUp
    <2>8. ASSUME NEW n \in Nums
          PROVE  inode'[n].count = inode[n].count + Share(r, n) - Share(proc[p], n)
      <3>1. Is(0, n) = 0 /\ Is(proc[p].old, n) \in Int /\ Is(1, n) \in Int
        BY IsFacts
      <3>2. DueTo(<<>>, n) = 0 /\ inode[n].count \in Int
        BY <1>2, InodeRecFields DEF DueTo
      <3>3. Share(r, n) = Is(1, n) + Is(0, n) + Is(proc[p].old, n) + Is(0, n) + DueTo(<<>>, n)
        BY <2>4 DEF Share
      <3>4. Share(proc[p], n) = Is(0, n) + Is(0, n) + Is(proc[p].old, n) + Is(0, n) + DueTo(<<>>, n)
        BY <1>2, <1>3 DEF Share
      <3>5. inode'[n].count = inode[n].count + Is(1, n)
        BY <2>7
      <3> QED BY <3>1, <3>2, <3>3, <3>4, <3>5
    <2>9. ~raced' =>
               /\ ~raced
               /\ \A n \in Nums : inode'[n].count = inode[n].count + Share(r, n) - Share(proc[p], n)
               /\ 1 \in imap' /\ \A n \in Nums \ imap' : inode'[n].count = 0
      <3> HAVE ~raced'
      <3>1. InodesInUse /\ ~raced
        BY <1>1, <2>1, <1>2
      <3>2. ASSUME NEW n \in Nums \ imap' PROVE inode'[n].count = 0
        <4>1. inode[n].count = 0 /\ Is(1, n) = 0
          BY <1>1, <2>1, <3>1 DEF InodesInUse, Is
        <4> QED BY <2>7, <4>1
      <3> QED BY <1>1, <2>1, <2>8, <3>1, <3>2 DEF InodesInUse
    <2>10. /\ held' \in [Procs -> 0 .. 1] /\ (\A t \in Procs \ {p} : held'[t] = held[t])
           /\ held'[p] = IF Buffered(r) THEN 1 ELSE 0
           /\ imap' \subseteq Nums /\ zmap' \subseteq Zones /\ panicked' \in BOOLEAN /\ raced' \in BOOLEAN
      BY <1>1, <2>1, <1>2, <1>3, <2>6
    <2> QED BY <1>1, <2>1, <2>4, <2>6, <2>7, <2>9, <2>10, CallStep, Zenon
  <1> QED BY <1>a, <1>b

\* new_inode gives the call an inode nobody refers to.
LEMMA NewKeeps ==
    ASSUME NamesInv, NEW p \in Procs, New(p)
    PROVE  NamesInv'
  <1> DEFINE d == proc[p].dir  m == Min(Nums \ imap)
  <1>1. /\ At(p, "new") /\ zmap' = zmap /\ held' = held /\ panicked' = panicked /\ raced' = raced
        /\ UNCHANGED fvars
    BY DEF New
  <1>2. /\ proc[p] \in CallRecs /\ HasAt(proc[p], "new") /\ proc[p].pc = "new" /\ proc[p].res = 0
        /\ held \in [Procs -> 0 .. 1] /\ held[p] = IF Buffered(proc[p]) THEN 1 ELSE 0
        /\ \A n \in Nums : Share(proc[p], n) = Is(d, n) + Is(proc[p].ino, n) + Is(proc[p].old, n)
        /\ inode \in [Nums -> InodeRecs] /\ proc[p].puts = <<>> /\ OnCourse(proc[p])
        /\ imap \subseteq Nums /\ zmap \subseteq Zones
        /\ panicked \in BOOLEAN /\ raced \in BOOLEAN /\ (~raced => InodesInUse)
    BY <1>1, AtLabel
  <1>3. /\ proc[p].op \in Makes /\ d \in Nums /\ proc[p].ino = 0 /\ proc[p].old = 0
        /\ proc[p].rest # <<>> /\ ~Buffered(proc[p])
    BY <1>2, CallRecFields DEF HasAt, NumOr0, Buffered
  <1>4. ASSUME NEW n \in Nums PROVE Share(proc[p], n) = Is(d, n) /\ Is(d, n) \in Int
    <2>1. Is(proc[p].ino, n) = 0 /\ Is(d, n) \in Int /\ Is(proc[p].old, n) = 0
      BY <1>3, IsFacts
    <2> QED BY <1>2, <2>1
  <1>5. held' \in [Procs -> 0 .. 1] /\ (\A t \in Procs \ {p} : held'[t] = held[t]) /\ held'[p] = 0
    BY <1>1, <1>2, <1>3
  <1>6. CASE Nums \ imap = {}
    <2>1. Fail(p, <<d>>) /\ UNCHANGED <<inode, imap, zmap, panicked, raced, fvars>>
      BY <1>1, <1>6 DEF New
    <2>2. <<d>> \in Seq(Nums) /\ <<d>> # <<>> /\ Len(<<d>>) <= 2 /\ \A n \in Nums : DueTo(<<d>>, n) = Is(d, n)
      BY <1>3, DueOne
    <2>3. \A n \in Nums : DueTo(<<d>>, n) = Share(proc[p], n)
      BY <1>4, <2>2
    <2> QED BY <1>1, <1>5, <2>1, <2>2, <2>3, FailQuietly
  <1>7. CASE Nums \ imap # {}
    <2> DEFINE l == IF proc[p].op = "mkdir" THEN "block" ELSE "add"
               r == [proc[p] EXCEPT !.ino = m, !.pc = l]
    <2>k. PICK k \in {"none", "tty", "block"} :
             inode' = [inode EXCEPT ![m] = [Blank EXCEPT !.count = 1, !.nlinks = 1, !.dev = k]]
      BY <1>7 DEF New
    <2> DEFINE b == [Blank EXCEPT !.count = 1, !.nlinks = 1, !.dev = k]
    <2>1. /\ imap' = imap \cup {m} /\ inode' = [inode EXCEPT ![m] = b]
          /\ proc' = [proc EXCEPT ![p] = r]
      BY <1>7, <2>k DEF New, Become
    <2>2. m \in Nums \ imap
      BY <1>7, FirstFree, NamesConstants
    <2>3. b \in InodeRecs /\ b.count = 1
      BY NewInode
    <2>4. /\ r \in CallRecs /\ r.pc = l /\ r.dir = d /\ r.ino = m /\ r.old = 0 /\ r.res = 0
          /\ r.fd = proc[p].fd /\ r.op = proc[p].op /\ r.rest = proc[p].rest /\ r.new = proc[p].new
          /\ r.puts = <<>>
      <3>1. l \in CallLabels /\ m \in NumOr0
        BY <2>2 DEF CallLabels, NumOr0
      <3> HIDE DEF l, m
      <3> QED BY <1>2, <1>3, <3>1 DEF CallRecs
    <2>5. l = IF proc[p].op = "mkdir" THEN "block" ELSE "add"
      OBVIOUS
    <2> HIDE DEF r, m, b, l
    <2>6. HasAt(r, l)
      BY <1>2, <1>3, <2>2, <2>4, <2>5, NamesConstants DEF HasAt, Makes
    <2>7. OnCourse(r) /\ ~Buffered(r)
      BY <1>2, <1>3, <2>4, <2>5, <2>6 DEF OnCourse, Buffered
    <2>8. /\ inode' \in [Nums -> InodeRecs] /\ imap' \subseteq Nums
          /\ \A n \in Nums : inode'[n].count = IF n = m THEN 1 ELSE inode[n].count
      BY <1>2, <2>1, <2>2, <2>3
    <2>9. ASSUME ~raced', NEW n \in Nums
          PROVE  inode'[n].count = inode[n].count + Share(r, n) - Share(proc[p], n)
      <3>1. inode[m].count = 0
        BY <1>1, <1>2, <2>2, <2>9 DEF InodesInUse
      <3>2. inode'[n].count = inode[n].count + Is(m, n) /\ Is(m, n) \in Int /\ inode[n].count \in Int
        BY <1>2, <2>8, <3>1, InodeRecFields DEF Is
      <3>3. DueTo(r.puts, n) = 0 /\ Is(r.old, n) = 0 /\ Is(r.res, n) = 0
        BY <2>4, IsFacts DEF DueTo
      <3>4. Share(r, n) = Is(d, n) + Is(m, n)
        BY <1>4, <2>4, <3>2, <3>3 DEF Share
      <3> QED BY <1>4, <3>2, <3>4
    <2>10. ~raced' =>
             /\ ~raced
             /\ \A n \in Nums : inode'[n].count = inode[n].count + Share(r, n) - Share(proc[p], n)
             /\ 1 \in imap' /\ \A n \in Nums \ imap' : inode'[n].count = 0
      BY <1>1, <1>2, <2>1, <2>8, <2>9 DEF InodesInUse
    <2>11. /\ held'[p] = IF Buffered(r) THEN 1 ELSE 0
           /\ zmap' \subseteq Zones /\ panicked' \in BOOLEAN /\ raced' \in BOOLEAN
      BY <1>1, <1>2, <1>5, <2>7
    <2> QED BY <1>1, <1>5, <2>1, <2>4, <2>7, <2>8, <2>10, <2>11, CallStep, Zenon
  <1> QED BY <1>6, <1>7

\* A call that ends after a step that leaves the counts alone.
LEMMA FailKept ==
    ASSUME NamesInv, NEW p \in Procs, NEW q \in Seq(Nums), q # <<>>, Len(q) <= 2,
           NEW l, At(p, l), l # "puts", Fail(p, q),
           held' \in [Procs -> 0 .. 1], \A t \in Procs \ {p} : held'[t] = held[t], held'[p] = 0,
           inode' \in [Nums -> InodeRecs], \A n \in Nums : inode'[n].count = inode[n].count,
           imap' = imap, zmap' \subseteq Zones, UNCHANGED fvars,
           panicked' \in BOOLEAN, raced' \in BOOLEAN, raced => raced',
           \A n \in Nums : DueTo(q, n) = Share(proc[p], n)
    PROVE  NamesInv'
  <1>1. /\ inode \in [Nums -> InodeRecs] /\ imap \subseteq Nums /\ (~raced => InodesInUse)
    BY AtLabel
  <1>2. ASSUME NEW n \in Nums
        PROVE  inode'[n].count = inode[n].count + DueTo(q, n) - Share(proc[p], n)
    <2>1. inode[n].count \in Int /\ Share(proc[p], n) \in Int /\ DueTo(q, n) = Share(proc[p], n)
      BY <1>1, InodeRecFields, ShareNat
    <2>2. inode'[n].count = inode[n].count
      OBVIOUS
    <2> QED BY <2>1, <2>2
  <1>3. ~raced' =>
             /\ ~raced
             /\ \A n \in Nums : inode'[n].count = inode[n].count + DueTo(q, n) - Share(proc[p], n)
             /\ 1 \in imap' /\ \A n \in Nums \ imap' : inode'[n].count = 0
    <2> HAVE ~raced'
    <2>1. ~raced /\ InodesInUse
      BY <1>1
    <2> QED BY <1>2, <2>1 DEF InodesInUse
  <1>4. imap' \subseteq Nums
    BY <1>1
  <1> QED BY <1>3, <1>4, FailStep, Zenon

\* A call that goes on to give q back after such a step.
LEMMA PutKept ==
    ASSUME NamesInv, NEW p \in Procs, NEW r \in CallRecs, NEW q \in Seq(Nums), q # <<>>, Len(q) <= 2,
           NEW l \in {"idle", "iget", "unmake", "linked"}, NEW k, At(p, k), k # "puts",
           PutThen(p, q, r, l), r.fd = proc[p].fd, r.op = proc[p].op, r.res = 0 \/ (l = "idle" /\ r.fd # 0),
           HasAt(r, l), l = "iget" => ~(r.op \in Takes /\ Len(r.rest) = 1), ~Buffered(proc[p]),
           inode' \in [Nums -> InodeRecs], \A n \in Nums : inode'[n].count = inode[n].count,
           imap' = imap, zmap' \subseteq Zones, UNCHANGED held, UNCHANGED fvars,
           panicked' \in BOOLEAN, raced' \in BOOLEAN, raced => raced',
           \A n \in Nums : Is(r.dir, n) + Is(r.ino, n) + Is(r.old, n) + Is(r.res, n) + DueTo(q, n)
                             = Share(proc[p], n)
    PROVE  NamesInv'
  <1>1. /\ inode \in [Nums -> InodeRecs] /\ imap \subseteq Nums /\ (~raced => InodesInUse)
        /\ held \in [Procs -> 0 .. 1] /\ held[p] = 0
    BY AtLabel
  <1>2. held' = held
    OBVIOUS
  <1>3. /\ held' \in [Procs -> 0 .. 1] /\ (\A t \in Procs \ {p} : held'[t] = held[t]) /\ held'[p] = 0
        /\ imap' \subseteq Nums
    BY <1>1, <1>2
  <1>4. ASSUME NEW n \in Nums
        PROVE  inode'[n].count = inode[n].count + Is(r.dir, n) + Is(r.ino, n)
                                   + Is(r.old, n) + Is(r.res, n) + DueTo(q, n) - Share(proc[p], n)
    <2>1. /\ Is(r.dir, n) \in Int /\ Is(r.ino, n) \in Int /\ Is(r.old, n) \in Int /\ Is(r.res, n) \in Int
          /\ DueTo(q, n) \in Int /\ Share(proc[p], n) \in Int /\ inode[n].count \in Int
      BY <1>1, InodeRecFields, ShareNat, IsFacts DEF DueTo
    <2>2. Is(r.dir, n) + Is(r.ino, n) + Is(r.old, n) + Is(r.res, n) + DueTo(q, n) = Share(proc[p], n)
      OBVIOUS
    <2>3. inode'[n].count = inode[n].count
      OBVIOUS
    <2> QED BY <2>1, <2>2, <2>3, SMTT(30)
  <1>5. ~raced' =>
             /\ ~raced
             /\ \A n \in Nums : inode'[n].count = inode[n].count + Is(r.dir, n) + Is(r.ino, n)
                                   + Is(r.old, n) + Is(r.res, n) + DueTo(q, n) - Share(proc[p], n)
             /\ 1 \in imap' /\ \A n \in Nums \ imap' : inode'[n].count = 0
    <2> HAVE ~raced'
    <2>1. ~raced /\ InodesInUse
      BY <1>1
    <2> QED BY <1>4, <2>1 DEF InodesInUse
  <1> QED BY <1>3, <1>5, PutStep, Zenon

\* ... or that goes on at l.
LEMMA GotoKept ==
    ASSUME NamesInv, NEW p \in Procs, NEW k, At(p, k), k \notin {"puts", "idle"},
           NEW l \in CallLabels, l \notin {"puts", "idle", "iget"}, NEW sc \in ScanRecs,
           l \in {"init", "extend"} => sc.zone # 0, Goto(p, l, sc), HasAt(proc[p], l),
           Buffered(proc[p]) <=> l \in {"got", "empty"},
           inode' \in [Nums -> InodeRecs], \A n \in Nums : inode'[n].count = inode[n].count,
           imap' = imap, zmap' \subseteq Zones, UNCHANGED held, UNCHANGED fvars,
           panicked' \in BOOLEAN, raced' \in BOOLEAN, raced => raced'
    PROVE  NamesInv'
  <1>1. imap \subseteq Nums /\ (~raced => InodesInUse)
    BY AtLabel
  <1>2. ~raced' => /\ ~raced
                   /\ \A n \in Nums : inode'[n].count = inode[n].count
                   /\ 1 \in imap' /\ \A n \in Nums \ imap' : inode'[n].count = 0
    <2> HAVE ~raced'
    <2>1. ~raced /\ InodesInUse
      BY <1>1
    <2> QED BY <2>1 DEF InodesInUse
  <1>3. imap' \subseteq Nums
    BY <1>1
  <1> QED BY <1>2, <1>3, GotoStep, Zenon

\* What a call that has made an inode, or has an old one, knows of itself.
LEMMA InHand ==
    ASSUME NamesInv, NEW p \in Procs, NEW l \in {"block", "init", "add", "extend", "unmake", "linked", "got", "empty"},
           At(p, l)
    PROVE  /\ proc[p] \in CallRecs /\ HasAt(proc[p], l) /\ proc[p].pc = l /\ proc[p].res = 0
           /\ held \in [Procs -> 0 .. 1] /\ held[p] = (IF l \in {"got", "empty"} THEN 1 ELSE 0)
           /\ Buffered(proc[p]) <=> l \in {"got", "empty"}
           /\ proc[p].op # "link" =>
                 /\ proc[p].ino \in Nums /\ proc[p].old = 0
                 /\ \A n \in Nums : Share(proc[p], n) = Is(proc[p].dir, n) + Is(proc[p].ino, n)
           /\ proc[p].op = "link" =>
                 /\ proc[p].old \in Nums /\ proc[p].ino = 0
                 /\ \A n \in Nums : Share(proc[p], n) = Is(proc[p].dir, n) + Is(proc[p].old, n)
           /\ l \notin {"unmake", "linked"} => proc[p].dir \in Nums
           /\ l \in {"unmake", "linked"} => proc[p].dir = 0
           /\ inode \in [Nums -> InodeRecs] /\ imap \subseteq Nums /\ zmap \subseteq Zones
           /\ panicked \in BOOLEAN /\ raced \in BOOLEAN /\ OnCourse(proc[p])
  <1>1. l # "puts"
    OBVIOUS
  <1>2. /\ proc[p] \in CallRecs /\ HasAt(proc[p], l) /\ proc[p].pc = l /\ proc[p].res = 0
        /\ held \in [Procs -> 0 .. 1] /\ held[p] = IF Buffered(proc[p]) THEN 1 ELSE 0
        /\ \A n \in Nums : Share(proc[p], n) = Is(proc[p].dir, n) + Is(proc[p].ino, n) + Is(proc[p].old, n)
        /\ inode \in [Nums -> InodeRecs] /\ imap \subseteq Nums /\ zmap \subseteq Zones
        /\ panicked \in BOOLEAN /\ raced \in BOOLEAN /\ OnCourse(proc[p])
    BY <1>1, AtLabel
  <1>3. Buffered(proc[p]) <=> l \in {"got", "empty"}
    BY <1>2 DEF Buffered
  <1>4. proc[p].op # "link" => proc[p].ino \in Nums /\ proc[p].old = 0
    BY <1>2, CallRecFields DEF HasAt, NumOr0
  <1>5. proc[p].op = "link" => proc[p].old \in Nums /\ proc[p].ino = 0
    BY <1>2, CallRecFields DEF HasAt, NumOr0, Makes, Takes
  <1>6. l \notin {"unmake", "linked"} => proc[p].dir \in Nums
    BY <1>2, CallRecFields DEF HasAt, NumOr0
  <1>7. l \in {"unmake", "linked"} => proc[p].dir = 0
    BY <1>2 DEF HasAt
  <1>8. ASSUME NEW n \in Nums
        PROVE  /\ proc[p].old = 0 => Share(proc[p], n) = Is(proc[p].dir, n) + Is(proc[p].ino, n)
               /\ proc[p].ino = 0 => Share(proc[p], n) = Is(proc[p].dir, n) + Is(proc[p].old, n)
    <2>1. /\ Is(proc[p].dir, n) \in Int /\ Is(proc[p].ino, n) \in Int /\ Is(proc[p].old, n) \in Int
          /\ (proc[p].old = 0 => Is(proc[p].old, n) = 0) /\ (proc[p].ino = 0 => Is(proc[p].ino, n) = 0)
      BY IsFacts
    <2> QED BY <1>2, <2>1
  <1> QED BY <1>2, <1>3, <1>4, <1>5, <1>6, <1>7, <1>8

\* sys_mkdir gets a block, or gives the inode up.
LEMMA BlockKeeps ==
    ASSUME NamesInv, NEW p \in Procs, Block(p)
    PROVE  NamesInv'
  <1> DEFINE d == proc[p].dir  m == proc[p].ino  z == Min(Zones \ zmap)
  <1>1. /\ At(p, "block") /\ imap' = imap /\ held' = held /\ panicked' = panicked /\ raced' = raced
        /\ UNCHANGED fvars
    BY DEF Block
  <1>2. /\ proc[p] \in CallRecs /\ HasAt(proc[p], "block") /\ proc[p].pc = "block"
        /\ held \in [Procs -> 0 .. 1] /\ held[p] = 0 /\ ~Buffered(proc[p])
        /\ inode \in [Nums -> InodeRecs] /\ zmap \subseteq Zones /\ panicked \in BOOLEAN /\ raced \in BOOLEAN
        /\ d \in Nums
        /\ proc[p].op # "link" => m \in Nums /\ \A n \in Nums : Share(proc[p], n) = Is(d, n) + Is(m, n)
    BY <1>1, InHand
  <1>3. m \in Nums /\ \A n \in Nums : Share(proc[p], n) = Is(d, n) + Is(m, n)
    BY <1>2 DEF HasAt
  <1>4. inode[m] \in InodeRecs /\ inode[m].nlinks \in Nat
    BY <1>2, <1>3, InodeRecFields
  <1>5. CASE Zones \ zmap = {}
    <2> DEFINE e == [inode[m] EXCEPT !.nlinks = Less(inode[m].nlinks)]
    <2>1. inode' = [inode EXCEPT ![m] = e] /\ Fail(p, <<d, m>>) /\ zmap' = zmap
      BY <1>5 DEF Block
    <2>2. e \in InodeRecs /\ e.count = inode[m].count
      <3>1. Less(inode[m].nlinks) \in Nat
        BY <1>4, LessNat
      <3> QED BY <1>4, <3>1, LinksSet
    <2> HIDE DEF e
    <2>3. inode' \in [Nums -> InodeRecs] /\ \A n \in Nums : inode'[n].count = inode[n].count
      BY <1>2, <1>3, <2>1, <2>2, CountsKept
    <2>4. /\ <<d, m>> \in Seq(Nums) /\ <<d, m>> # <<>> /\ Len(<<d, m>>) <= 2
          /\ \A n \in Nums : DueTo(<<d, m>>, n) = Is(d, n) + Is(m, n)
      BY <1>2, <1>3, DueTwo
    <2>5. \A n \in Nums : DueTo(<<d, m>>, n) = Share(proc[p], n)
      BY <1>3, <2>4
    <2>6. /\ held' \in [Procs -> 0 .. 1] /\ (\A t \in Procs \ {p} : held'[t] = held[t]) /\ held'[p] = 0
          /\ zmap' \subseteq Zones /\ panicked' \in BOOLEAN /\ raced' \in BOOLEAN /\ (raced => raced')
      BY <1>1, <1>2, <2>1
    <2> QED BY <1>1, <2>1, <2>3, <2>4, <2>5, <2>6, FailKept
  <1>6. CASE Zones \ zmap # {}
    <2>1. inode' = inode /\ Goto(p, "init", SearchAt(0, 0, z)) /\ zmap' = zmap \cup {z}
      BY <1>6 DEF Block
    <2>2. z \in Zones /\ z # 0
      BY <1>6, FirstFree, NamesConstants
    <2> HIDE DEF z
    <2>3. SearchAt(0, 0, z) \in ScanRecs /\ SearchAt(0, 0, z).zone # 0
      BY <2>2, ScanTyped
    <2>4. inode' \in [Nums -> InodeRecs] /\ \A n \in Nums : inode'[n].count = inode[n].count
      BY <1>2, <2>1
    <2>5. HasAt(proc[p], "init") /\ "init" \in CallLabels /\ "init" \notin {"puts", "idle", "iget", "got", "empty"}
      BY <1>2 DEF HasAt, CallLabels
    <2>6. /\ zmap' \subseteq Zones /\ panicked' \in BOOLEAN /\ raced' \in BOOLEAN /\ (raced => raced')
      BY <1>1, <1>2, <2>1, <2>2
    <2> QED BY <1>1, <1>2, <2>1, <2>3, <2>4, <2>5, <2>6, GotoKept
  <1> QED BY <1>5, <1>6

\* sys_mkdir writes the new directory.
LEMMA InitDirKeeps ==
    ASSUME NamesInv, NEW p \in Procs, InitDir(p)
    PROVE  NamesInv'
  <1> DEFINE d == proc[p].dir  m == proc[p].ino  s == <<Ent(".", m), Ent("..", d)>>
             w == <<proc[p].scan.zone>>
             e == [inode[m] EXCEPT !.ents = s, !.zones = w, !.nlinks = 2, !.isdir = TRUE]
  <1>1. /\ At(p, "init") /\ imap' = imap /\ zmap' = zmap /\ held' = held /\ panicked' = panicked
        /\ raced' = raced /\ UNCHANGED fvars /\ Goto(p, "add", NoScan)
    BY DEF InitDir
  <1>2. /\ proc[p] \in CallRecs /\ HasAt(proc[p], "init") /\ proc[p].pc = "init" /\ ~Buffered(proc[p])
        /\ inode \in [Nums -> InodeRecs] /\ zmap \subseteq Zones /\ panicked \in BOOLEAN /\ raced \in BOOLEAN
        /\ d \in Nums /\ (proc[p].op # "link" => m \in Nums) /\ OnCourse(proc[p])
    BY <1>1, InHand
  <1>3. m \in Nums
    BY <1>2 DEF HasAt
  <1>4. inode[m] \in InodeRecs
    BY <1>2, <1>3
  <1>5. inode' = [inode EXCEPT ![m] = e]
    BY DEF InitDir
  <1>6. Ent(".", m) \in EntryRecs /\ Ent("..", d) \in EntryRecs
    <2>1. m \in NumOr0 /\ d \in NumOr0 /\ "." \in FileNames /\ ".." \in FileNames
      BY <1>2, <1>3 DEF NumOr0, FileNames
    <2> QED BY <2>1, EntTyped
  <1>7. s \in Seq(EntryRecs)
    BY <1>6
  <1>z. proc[p].scan.zone \in Zones
    <2>1. proc[p].scan \in ScanRecs /\ proc[p].scan.zone # 0
      BY <1>2, CallRecFields DEF OnCourse
    <2> QED BY <2>1, ScanFields
  <1>w. w \in Seq(Zones)
    BY <1>z
  <1> HIDE DEF s, w
  <1>8. e \in InodeRecs /\ e.count = inode[m].count
    BY <1>4, <1>7, <1>w DEF InodeRecs
  <1> HIDE DEF e
  <1>9. inode' \in [Nums -> InodeRecs] /\ \A n \in Nums : inode'[n].count = inode[n].count
    BY <1>2, <1>3, <1>5, <1>8, CountsKept
  <1>10. HasAt(proc[p], "add") /\ "add" \in CallLabels /\ "add" \notin {"puts", "idle", "iget", "got", "empty"}
    BY <1>2 DEF HasAt, CallLabels, Makes
  <1>11. /\ zmap' \subseteq Zones /\ panicked' \in BOOLEAN /\ raced' \in BOOLEAN /\ (raced => raced')
    BY <1>1, <1>2
  <1> QED BY <1>1, <1>2, <1>9, <1>10, <1>11, NoScanTyped, GotoKept

\* sys_link counts the new name.
LEMMA LinkedKeeps ==
    ASSUME NamesInv, NEW p \in Procs, Linked(p)
    PROVE  NamesInv'
  <1> DEFINE m == proc[p].old  e == [inode[m] EXCEPT !.nlinks = inode[m].nlinks + 1]
  <1>1. /\ At(p, "linked") /\ imap' = imap /\ zmap' = zmap /\ held' = held /\ panicked' = panicked
        /\ raced' = raced /\ UNCHANGED fvars /\ Fail(p, <<m>>) /\ inode' = [inode EXCEPT ![m] = e]
    BY DEF Linked
  <1>2. /\ proc[p] \in CallRecs /\ HasAt(proc[p], "linked") /\ held \in [Procs -> 0 .. 1] /\ held[p] = 0
        /\ inode \in [Nums -> InodeRecs] /\ zmap \subseteq Zones /\ panicked \in BOOLEAN /\ raced \in BOOLEAN
        /\ proc[p].dir = 0
        /\ proc[p].op = "link" =>
              m \in Nums /\ \A n \in Nums : Share(proc[p], n) = Is(proc[p].dir, n) + Is(m, n)
    BY <1>1, InHand
  <1>3. m \in Nums /\ \A n \in Nums : Share(proc[p], n) = Is(proc[p].dir, n) + Is(m, n)
    BY <1>2 DEF HasAt
  <1>4. inode[m] \in InodeRecs /\ inode[m].nlinks + 1 \in Nat
    BY <1>2, <1>3, InodeRecFields
  <1>5. e \in InodeRecs /\ e.count = inode[m].count
    BY <1>4, LinksSet
  <1> HIDE DEF e
  <1>6. inode' \in [Nums -> InodeRecs] /\ \A n \in Nums : inode'[n].count = inode[n].count
    BY <1>1, <1>2, <1>3, <1>5, CountsKept
  <1>7. <<m>> \in Seq(Nums) /\ <<m>> # <<>> /\ Len(<<m>>) <= 2 /\ \A n \in Nums : DueTo(<<m>>, n) = Is(m, n)
    BY <1>3, DueOne
  <1>8. ASSUME NEW n \in Nums PROVE DueTo(<<m>>, n) = Share(proc[p], n)
    <2>1. Is(proc[p].dir, n) = 0 /\ Is(m, n) \in Int
      BY <1>2, IsFacts
    <2> QED BY <1>3, <1>7, <2>1
  <1>9. /\ held' \in [Procs -> 0 .. 1] /\ (\A t \in Procs \ {p} : held'[t] = held[t]) /\ held'[p] = 0
        /\ zmap' \subseteq Zones /\ panicked' \in BOOLEAN /\ raced' \in BOOLEAN /\ (raced => raced')
    BY <1>1, <1>2
  <1> QED BY <1>1, <1>6, <1>7, <1>8, <1>9, FailKept

\* sys_mknod and sys_mkdir give the new inode up.
LEMMA UnmakeKeeps ==
    ASSUME NamesInv, NEW p \in Procs, Unmake(p)
    PROVE  NamesInv'
  <1> DEFINE m == proc[p].ino  e == [inode[m] EXCEPT !.nlinks = 0]
  <1>1. /\ At(p, "unmake") /\ imap' = imap /\ zmap' = zmap \ ZonesOf(m) /\ held' = held
        /\ panicked' = ~(ZonesOf(m) \subseteq zmap) /\ raced' = (raced \/ ZonesOf(m) # {})
        /\ UNCHANGED fvars /\ Fail(p, <<m>>) /\ inode' = [inode EXCEPT ![m] = e]
    BY DEF Unmake
  <1>2. /\ proc[p] \in CallRecs /\ HasAt(proc[p], "unmake") /\ held \in [Procs -> 0 .. 1] /\ held[p] = 0
        /\ inode \in [Nums -> InodeRecs] /\ zmap \subseteq Zones /\ panicked \in BOOLEAN /\ raced \in BOOLEAN
        /\ proc[p].dir = 0
        /\ proc[p].op # "link" =>
              m \in Nums /\ \A n \in Nums : Share(proc[p], n) = Is(proc[p].dir, n) + Is(m, n)
    BY <1>1, InHand
  <1>3. m \in Nums /\ \A n \in Nums : Share(proc[p], n) = Is(proc[p].dir, n) + Is(m, n)
    BY <1>2 DEF HasAt
  <1>4. inode[m] \in InodeRecs
    BY <1>2, <1>3
  <1>5. e \in InodeRecs /\ e.count = inode[m].count
    BY <1>4, LinksSet
  <1> HIDE DEF e
  <1>6. inode' \in [Nums -> InodeRecs] /\ \A n \in Nums : inode'[n].count = inode[n].count
    BY <1>1, <1>2, <1>3, <1>5, CountsKept
  <1>7. <<m>> \in Seq(Nums) /\ <<m>> # <<>> /\ Len(<<m>>) <= 2 /\ \A n \in Nums : DueTo(<<m>>, n) = Is(m, n)
    BY <1>3, DueOne
  <1>8. ASSUME NEW n \in Nums PROVE DueTo(<<m>>, n) = Share(proc[p], n)
    <2>1. Is(proc[p].dir, n) = 0 /\ Is(m, n) \in Int
      BY <1>2, IsFacts
    <2> QED BY <1>3, <1>7, <2>1
  <1>9. /\ held' \in [Procs -> 0 .. 1] /\ (\A t \in Procs \ {p} : held'[t] = held[t]) /\ held'[p] = 0
        /\ zmap' \subseteq Zones
    BY <1>1, <1>2
  <1>10. panicked' \in BOOLEAN /\ raced' \in BOOLEAN /\ (raced => raced')
    BY <1>1, <1>2, Zenon
  <1> QED BY <1>1, <1>6, <1>7, <1>8, <1>9, <1>10, FailKept

\* add_entry's free entry.
LEMMA SpareNat ==
    ASSUME NEW p \in Procs, proc[p] \in CallRecs, Spare(p) # {}
    PROVE  Min(Spare(p)) \in Nat /\ Min(Spare(p)) # 0
  <1> DEFINE b == proc[p].scan.blk
  <1>1. b \in Nat /\ PerBlock \in Nat
    BY CallRecFields, ScanFields, NamesConstants
  <1>2. Spare(p) \subseteq InBlock(b)
    BY DEF Spare
  <1> HIDE DEF b
  <1>3. b * PerBlock \in Nat
    BY <1>1
  <1>4. \A i \in InBlock(b) : i \in Nat /\ i # 0
    <2> DEFINE k == b * PerBlock
    <2>1. InBlock(b) = k + 1 .. (b + 1) * PerBlock
      BY DEF InBlock
    <2> HIDE DEF k
    <2>2. k \in Nat /\ (b + 1) * PerBlock \in Int
      BY <1>1, <1>3 DEF k
    <2> QED BY <2>1, <2>2
  <1>5. Spare(p) \in SUBSET Nat
    BY <1>2, <1>4
  <1>6. Min(Spare(p)) \in Spare(p)
    BY <1>5, FirstFree
  <1> QED BY <1>2, <1>4, <1>6

\* A name is entered.
LEMMA WithEntryKeeps ==
    ASSUME NEW e \in InodeRecs, NEW i \in Nat, i # 0, NEW x \in FileNames, NEW n \in NumOr0
    PROVE  WithEntry(e, i, x, n) \in InodeRecs /\ WithEntry(e, i, x, n).count = e.count
  <1> DEFINE s == IF i > Len(e.ents) THEN Append(e.ents, Ent(x, n)) ELSE [e.ents EXCEPT ![i] = Ent(x, n)]
  <1>1. e.ents \in Seq(EntryRecs) /\ Ent(x, n) \in EntryRecs
    BY InodeRecFields, EntTyped
  <1>2. Append(e.ents, Ent(x, n)) \in Seq(EntryRecs)
    BY <1>1
  <1>3. i <= Len(e.ents) => [e.ents EXCEPT ![i] = Ent(x, n)] \in Seq(EntryRecs)
    BY <1>1
  <1>4. Len(e.ents) \in Nat
    BY <1>1
  <1>5. s \in Seq(EntryRecs)
    BY <1>2, <1>3, <1>4
  <1>6. WithEntry(e, i, x, n) = [e EXCEPT !.ents = s]
    BY DEF WithEntry
  <1> HIDE DEF s
  <1> QED BY <1>5, <1>6, EntriesSet

\* A block is entered.
LEMMA WithBlockKeeps ==
    ASSUME NEW e \in InodeRecs, NEW b, NEW z \in Zones
    PROVE  WithBlock(e, b, z) \in InodeRecs /\ WithBlock(e, b, z).count = e.count
  <1> DEFINE v == [e.zones EXCEPT ![b + 1] = z]
             g == [i \in DOMAIN e.ents |-> IF i \in InBlock(b) THEN Ent("", 0) ELSE e.ents[i]]
  <1>1. e.zones \in Seq(Zones) /\ e.ents \in Seq(EntryRecs)
    BY InodeRecFields
  <1>2. CASE b + 1 \in DOMAIN e.zones
    <2>1. v \in Seq(Zones)
      BY <1>1, <1>2
    <2>2. g \in Seq(EntryRecs)
      <3>1. Ent("", 0) \in EntryRecs
        BY EntTyped DEF FileNames, NumOr0
      <3>2. \A i \in DOMAIN e.ents : e.ents[i] \in EntryRecs
        BY <1>1
      <3>3. PICK k \in Nat : DOMAIN e.ents = 1 .. k
        BY <1>1
      <3>4. g \in [1 .. k -> EntryRecs]
        BY <3>1, <3>2, <3>3
      <3> HIDE DEF g
      <3> QED BY <3>3, <3>4
    <2>3. WithBlock(e, b, z) = [e EXCEPT !.zones = v, !.ents = g]
      BY <1>2 DEF WithBlock
    <2> HIDE DEF v, g
    <2> QED BY <2>1, <2>2, <2>3 DEF InodeRecs
  <1>3. CASE ~(b + 1 \in DOMAIN e.zones)
    <2>1. Append(e.zones, z) \in Seq(Zones)
      BY <1>1
    <2>2. WithBlock(e, b, z) = [e EXCEPT !.zones = Append(e.zones, z)]
      BY <1>3 DEF WithBlock
    <2> QED BY <2>1, <2>2, ZonesSet
  <1> QED BY <1>2, <1>3

\* A name is removed.
LEMMA WithoutEntryKeeps ==
    ASSUME NEW e \in InodeRecs, NEW i \in Nat
    PROVE  WithoutEntry(e, i) \in InodeRecs /\ WithoutEntry(e, i).count = e.count
  <1> DEFINE s == [e.ents EXCEPT ![i].ino = 0]
  <1>1. e.ents \in Seq(EntryRecs)
    BY InodeRecFields
  <1>2. s \in Seq(EntryRecs)
    <2>1. CASE i \in DOMAIN e.ents
      <3>1. [e.ents[i] EXCEPT !.ino = 0] \in EntryRecs
        <4>1. e.ents[i] \in EntryRecs
          BY <1>1, <2>1
        <4> QED BY <4>1 DEF EntryRecs, NumOr0
      <3> QED BY <1>1, <2>1, <3>1
    <2>2. CASE i \notin DOMAIN e.ents
      <3>1. s = e.ents
        BY <1>1, <2>2
      <3> QED BY <1>1, <3>1
    <2> QED BY <2>1, <2>2
  <1>3. WithoutEntry(e, i) = [e EXCEPT !.ents = s]
    BY DEF WithoutEntry
  <1> HIDE DEF s
  <1> QED BY <1>2, <1>3, EntriesSet

\* Two inodes, or one twice, are written without their i_count.
LEMMA TwoKept ==
    ASSUME NEW f, f \in [Nums -> InodeRecs], NEW m \in Nums, NEW e \in InodeRecs, e.count = f[m].count,
           NEW g, g = [f EXCEPT ![m] = e]
    PROVE  g \in [Nums -> InodeRecs] /\ \A n \in Nums : g[n].count = f[n].count
  OBVIOUS

\* add_entry adds a block to the directory, or the call gives up.
LEMMA ExtendKeeps ==
    ASSUME NamesInv, NEW p \in Procs, Extend(p)
    PROVE  NamesInv'
  <1> DEFINE d == proc[p].dir  m == proc[p].ino  o == proc[p].old  z == Min(Zones \ zmap)
  <1>1. At(p, "add") /\ imap' = imap /\ held' = held /\ panicked' = panicked /\ UNCHANGED fvars
    BY DEF Extend
  <1>2. /\ proc[p] \in CallRecs /\ HasAt(proc[p], "add") /\ proc[p].pc = "add" /\ proc[p].res = 0
        /\ held \in [Procs -> 0 .. 1] /\ held[p] = 0 /\ ~Buffered(proc[p])
        /\ proc[p].op # "link" => /\ m \in Nums /\ o = 0
                                  /\ \A n \in Nums : Share(proc[p], n) = Is(d, n) + Is(m, n)
        /\ proc[p].op = "link" => /\ o \in Nums /\ m = 0
                                  /\ \A n \in Nums : Share(proc[p], n) = Is(d, n) + Is(o, n)
        /\ d \in Nums
        /\ inode \in [Nums -> InodeRecs] /\ imap \subseteq Nums /\ zmap \subseteq Zones
        /\ panicked \in BOOLEAN /\ raced \in BOOLEAN /\ OnCourse(proc[p])
    BY <1>1, InHand
  <1>3. held' \in [Procs -> 0 .. 1] /\ (\A t \in Procs \ {p} : held'[t] = held[t]) /\ held'[p] = 0
    BY <1>1, <1>2
  <1>4. CASE Zones \ zmap # {}
    <2> DEFINE sc == SearchAt(proc[p].scan.blk, 0, z)
    <2>1. inode' = inode /\ zmap' = zmap \cup {z} /\ Goto(p, "extend", sc) /\ raced' = raced
      BY <1>4 DEF Extend
    <2>2. z \in Zones /\ z # 0
      BY <1>2, <1>4, FirstFree, NamesConstants
    <2>7. proc[p].scan.blk \in Nat
      BY <1>2, CallRecFields, ScanFields
    <2> HIDE DEF z
    <2>3. sc \in ScanRecs /\ sc.zone # 0
      BY <2>2, <2>7, ScanTyped
    <2> HIDE DEF sc
    <2>4. inode' \in [Nums -> InodeRecs] /\ \A n \in Nums : inode'[n].count = inode[n].count
      BY <1>2, <2>1
    <2>5. /\ HasAt(proc[p], "extend") /\ "extend" \in CallLabels
          /\ "extend" \notin {"puts", "idle", "iget", "got", "empty"}
      BY <1>2 DEF HasAt, CallLabels
    <2>6. /\ zmap' \subseteq Zones /\ panicked' \in BOOLEAN /\ raced' \in BOOLEAN /\ (raced => raced')
      BY <1>1, <1>2, <2>1, <2>2
    <2> QED BY <1>1, <1>2, <2>1, <2>3, <2>4, <2>5, <2>6, GotoKept
  <1>5. CASE Zones \ zmap = {}
    <2>1. /\ zmap' = zmap /\ raced' = raced
          /\ \/ proc[p].op = "link" /\ Fail(p, <<d, o>>) /\ inode' = inode
             \/ /\ proc[p].op \in {"open", "excl"} /\ Fail(p, <<m, d>>)
                /\ inode' = [inode EXCEPT ![m].nlinks = Less(@)]
             \/ /\ proc[p].op \in {"mknod", "mkdir"} /\ inode' = inode
                /\ PutThen(p, <<d>>, [proc[p] EXCEPT !.dir = 0], "unmake")
      BY <1>2, <1>5 DEF Extend, HasAt, Makes
    <2>2. /\ zmap' \subseteq Zones /\ panicked' \in BOOLEAN /\ raced' \in BOOLEAN /\ (raced => raced')
      BY <1>1, <1>2, <2>1
    <2>3. CASE proc[p].op = "link" /\ Fail(p, <<d, o>>) /\ inode' = inode
      <3>1. /\ <<d, o>> \in Seq(Nums) /\ <<d, o>> # <<>> /\ Len(<<d, o>>) <= 2
            /\ \A n \in Nums : DueTo(<<d, o>>, n) = Is(d, n) + Is(o, n)
        BY <1>2, <2>3, DueTwo
      <3>2. \A n \in Nums : DueTo(<<d, o>>, n) = Share(proc[p], n)
        BY <1>2, <2>3, <3>1
      <3>3. inode' \in [Nums -> InodeRecs] /\ \A n \in Nums : inode'[n].count = inode[n].count
        BY <1>2, <2>3
      <3> QED BY <1>1, <1>3, <2>2, <2>3, <3>1, <3>2, <3>3, FailKept
    <2>4. CASE /\ proc[p].op \in {"open", "excl"} /\ Fail(p, <<m, d>>)
               /\ inode' = [inode EXCEPT ![m].nlinks = Less(@)]
      <3> DEFINE e == [inode[m] EXCEPT !.nlinks = Less(inode[m].nlinks)]
      <3>1. m \in Nums /\ \A n \in Nums : Share(proc[p], n) = Is(d, n) + Is(m, n)
        BY <1>2, <2>4
      <3>2. inode[m] \in InodeRecs /\ inode[m].nlinks \in Nat
        BY <1>2, <3>1, InodeRecFields
      <3>3. Less(inode[m].nlinks) \in Nat
        BY <3>2, LessNat
      <3>4. e \in InodeRecs /\ e.count = inode[m].count
        BY <3>2, <3>3, LinksSet
      <3>5. inode' = [inode EXCEPT ![m] = e]
        BY <2>4
      <3> HIDE DEF e
      <3>6. inode' \in [Nums -> InodeRecs] /\ \A n \in Nums : inode'[n].count = inode[n].count
        BY <1>2, <3>1, <3>4, <3>5, CountsKept
      <3>7. /\ <<m, d>> \in Seq(Nums) /\ <<m, d>> # <<>> /\ Len(<<m, d>>) <= 2
            /\ \A n \in Nums : DueTo(<<m, d>>, n) = Is(m, n) + Is(d, n)
        BY <1>2, <3>1, DueTwo
      <3>8. ASSUME NEW n \in Nums PROVE DueTo(<<m, d>>, n) = Share(proc[p], n)
        <4>1. Is(m, n) \in Int /\ Is(d, n) \in Int
          BY IsFacts
        <4> QED BY <3>1, <3>7, <4>1
      <3> QED BY <1>1, <1>3, <2>2, <2>4, <3>6, <3>7, <3>8, FailKept
    <2>5. CASE /\ proc[p].op \in {"mknod", "mkdir"} /\ inode' = inode
               /\ PutThen(p, <<d>>, [proc[p] EXCEPT !.dir = 0], "unmake")
      <3> DEFINE r == [proc[p] EXCEPT !.dir = 0]
      <3>1. m \in Nums /\ o = 0 /\ \A n \in Nums : Share(proc[p], n) = Is(d, n) + Is(m, n)
        BY <1>2, <2>5
      <3>2. /\ r \in CallRecs /\ r.dir = 0 /\ r.ino = m /\ r.old = 0 /\ r.res = 0
            /\ r.fd = proc[p].fd /\ r.op = proc[p].op /\ r.rest = proc[p].rest /\ r.new = proc[p].new
        BY <1>2, <3>1 DEF CallRecs, NumOr0
      <3>3. PutThen(p, <<d>>, r, "unmake")
        BY <2>5
      <3> HIDE DEF r
      <3>4. HasAt(r, "unmake")
        BY <1>2, <2>5, <3>1, <3>2, NamesConstants DEF HasAt
      <3>5. <<d>> \in Seq(Nums) /\ <<d>> # <<>> /\ Len(<<d>>) <= 2 /\ \A n \in Nums : DueTo(<<d>>, n) = Is(d, n)
        BY <1>2, DueOne
      <3>6. ASSUME NEW n \in Nums
            PROVE  Is(r.dir, n) + Is(r.ino, n) + Is(r.old, n) + Is(r.res, n) + DueTo(<<d>>, n) = Share(proc[p], n)
        <4>1. Is(r.dir, n) = 0 /\ Is(r.old, n) = 0 /\ Is(r.res, n) = 0 /\ Is(m, n) \in Int /\ Is(d, n) \in Int
          BY <3>2, IsFacts
        <4> QED BY <3>1, <3>2, <3>5, <4>1
      <3>7. inode' \in [Nums -> InodeRecs] /\ \A n \in Nums : inode'[n].count = inode[n].count
        BY <1>2, <2>5
      <3>8. "unmake" \in {"idle", "iget", "unmake", "linked"} /\ "unmake" # "iget"
        OBVIOUS
      <3> QED BY <1>1, <1>2, <2>2, <3>2, <3>3, <3>4, <3>5, <3>6, <3>7, <3>8, PutKept
    <2> QED BY <2>1, <2>3, <2>4, <2>5
  <1> QED BY <1>4, <1>5

\* add_entry goes on to the next block of the directory.
LEMMA NextBlockKeeps ==
    ASSUME NamesInv, NEW p \in Procs, NextBlock(p)
    PROVE  NamesInv'
  <1> DEFINE k == proc[p].scan.blk  z == inode[proc[p].dir].zones[k + 2]  sc == SearchAt(k + 1, 0, z)
  <1>1. /\ At(p, "add") /\ Goto(p, "add", sc) /\ NextZone(p)
        /\ UNCHANGED <<inode, imap, zmap, held, panicked, raced, fvars>>
    BY DEF NextBlock
  <1>2. /\ proc[p] \in CallRecs /\ HasAt(proc[p], "add") /\ ~Buffered(proc[p])
        /\ proc[p].dir \in Nums /\ inode \in [Nums -> InodeRecs]
    BY <1>1, InHand
  <1>3. k + 1 \in Nat
    BY <1>2, CallRecFields, ScanFields
  <1>4. z \in Zones
    <2>1. inode[proc[p].dir].zones \in Seq(Zones)
      BY <1>2, InodeRecFields
    <2> QED BY <1>1, <2>1 DEF NextZone
  <1> HIDE DEF z, k
  <1>5. sc \in ScanRecs
    BY <1>3, <1>4, ScanTyped
  <1> HIDE DEF sc
  <1>6. "add" \in CallLabels /\ "add" \notin {"puts", "idle", "iget", "got", "empty", "init", "extend"}
    BY DEF CallLabels
  <1> QED BY <1>1, <1>2, <1>5, <1>6, GotoQuietly

\* create_block stores the zone it has got.
LEMMA ExtendedKeeps ==
    ASSUME NamesInv, NEW p \in Procs, Extended(p)
    PROVE  NamesInv'
  <1> DEFINE d == proc[p].dir  b == proc[p].scan.blk + 1  z == proc[p].scan.zone
             e == WithBlock(inode[d], b, z)  sc == SearchAt(b, 0, z)
  <1>1. /\ At(p, "extend") /\ imap' = imap /\ zmap' = zmap /\ held' = held /\ panicked' = panicked
        /\ UNCHANGED fvars /\ inode' = [inode EXCEPT ![d] = e] /\ Goto(p, "add", sc)
        /\ raced' = (raced \/ b + 1 \in DOMAIN inode[d].zones)
    BY DEF Extended
  <1>2. /\ proc[p] \in CallRecs /\ HasAt(proc[p], "extend") /\ proc[p].pc = "extend" /\ ~Buffered(proc[p])
        /\ d \in Nums /\ inode \in [Nums -> InodeRecs] /\ zmap \subseteq Zones
        /\ panicked \in BOOLEAN /\ raced \in BOOLEAN /\ OnCourse(proc[p])
    BY <1>1, InHand
  <1>3. z \in Zones /\ b \in Nat
    <2>1. proc[p].scan \in ScanRecs /\ proc[p].scan.zone # 0
      BY <1>2, CallRecFields DEF OnCourse
    <2> QED BY <2>1, ScanFields
  <1> HIDE DEF z, b
  <1>4. e \in InodeRecs /\ e.count = inode[d].count
    BY <1>2, <1>3, WithBlockKeeps
  <1>5. sc \in ScanRecs
    BY <1>3, ScanTyped
  <1> HIDE DEF e, sc
  <1>6. inode' \in [Nums -> InodeRecs] /\ \A n \in Nums : inode'[n].count = inode[n].count
    BY <1>1, <1>2, <1>4, CountsKept
  <1>7. /\ HasAt(proc[p], "add") /\ "add" \in CallLabels
        /\ "add" \notin {"puts", "idle", "iget", "got", "empty", "init", "extend"}
    BY <1>2 DEF HasAt, CallLabels
  <1>8. zmap' \subseteq Zones /\ panicked' \in BOOLEAN
    BY <1>1, <1>2
  <1>9. raced' \in BOOLEAN /\ (raced => raced')
    BY <1>1, <1>2, Zenon
  <1> QED BY <1>1, <1>2, <1>5, <1>6, <1>7, <1>8, <1>9, GotoKept

\* add_entry finds room, and the call enters its inode.
LEMMA AddKeeps ==
    ASSUME NamesInv, NEW p \in Procs, Add(p)
    PROVE  NamesInv'
  <1> DEFINE d == proc[p].dir  m == proc[p].ino  o == proc[p].old  i == Min(Spare(p))  x == Head(proc[p].rest)
             lost == proc[p].scan.zone # 0 /\ proc[p].scan.zone # inode[d].zones[proc[p].scan.blk + 1]
             k == CASE lost -> 0
                    [] ~lost /\ proc[p].op = "link" -> o
                    [] ~lost /\ proc[p].op # "link" -> m
             dd == WithEntry(inode[d], i, x, k)
             e == IF proc[p].op = "mkdir" THEN [dd EXCEPT !.nlinks = dd.nlinks + 1] ELSE dd
  <1>1. /\ At(p, "add") /\ Spare(p) # {} /\ imap' = imap /\ zmap' = zmap /\ held' = held /\ panicked' = panicked
        /\ UNCHANGED fvars /\ inode' = [inode EXCEPT ![d] = e] 
        /\ raced' = (raced \/ Relies(p, d, x) \/ Misses(p, d, x, i))
    BY DEF Add
  <1>2. /\ proc[p] \in CallRecs /\ HasAt(proc[p], "add") /\ proc[p].pc = "add" /\ proc[p].res = 0
        /\ held \in [Procs -> 0 .. 1] /\ held[p] = 0 /\ ~Buffered(proc[p])
        /\ proc[p].op # "link" => /\ m \in Nums /\ o = 0
                                  /\ \A n \in Nums : Share(proc[p], n) = Is(d, n) + Is(m, n)
        /\ proc[p].op = "link" => /\ o \in Nums /\ m = 0
                                  /\ \A n \in Nums : Share(proc[p], n) = Is(d, n) + Is(o, n)
        /\ d \in Nums
        /\ inode \in [Nums -> InodeRecs] /\ imap \subseteq Nums /\ zmap \subseteq Zones
        /\ panicked \in BOOLEAN /\ raced \in BOOLEAN /\ OnCourse(proc[p])
    BY <1>1, InHand
  <1>3. k \in NumOr0
    <2> HIDE DEF lost
    <2> QED BY <1>2 DEF NumOr0
  <1>4. x \in FileNames
    <2>1. proc[p].rest \in Seq(FileNames) /\ proc[p].rest # <<>>
      BY <1>2, CallRecFields DEF HasAt
    <2> QED BY <2>1
  <1>5. dd \in InodeRecs /\ dd.count = inode[d].count
    <2>1. inode[d] \in InodeRecs /\ i \in Nat /\ i # 0
      BY <1>1, <1>2, SpareNat
    <2> HIDE DEF i, x, k
    <2> QED BY <1>1, <1>3, <1>4, <2>1, WithEntryKeeps
  <1>6. e \in InodeRecs /\ e.count = inode[d].count
    <2> HIDE DEF dd
    <2>1. dd.nlinks + 1 \in Nat
      BY <1>5, InodeRecFields
    <2> QED BY <1>5, <2>1, LinksSet
  <1> HIDE DEF e
  <1>7. inode' \in [Nums -> InodeRecs] /\ \A n \in Nums : inode'[n].count = inode[n].count
    BY <1>1, <1>2, <1>6, CountsKept
  <1>8. zmap' \subseteq Zones /\ panicked' \in BOOLEAN
    BY <1>1, <1>2
  <1>9. raced' \in BOOLEAN /\ (raced => raced')
    BY <1>1, <1>2, Zenon
  <1>10. \/ /\ proc[p].op \in {"open", "excl"}
            /\ PutThen(p, <<d>>, [Drop(p) EXCEPT !.res = m], "idle")
         \/ proc[p].op \in {"mknod", "mkdir"} /\ Fail(p, <<d, m>>)
         \/ proc[p].op = "link" /\ PutThen(p, <<d>>, [proc[p] EXCEPT !.dir = 0], "linked")
    BY <1>2 DEF Add, HasAt, Makes
  <1>11. /\ <<d>> \in Seq(Nums) /\ <<d>> # <<>> /\ Len(<<d>>) <= 2
         /\ \A n \in Nums : DueTo(<<d>>, n) = Is(d, n)
    BY <1>2, DueOne
  <1>12. At(p, "add") /\ imap' = imap /\ UNCHANGED held /\ UNCHANGED fvars /\ ~Buffered(proc[p])
    BY <1>1, <1>2
  <1> HIDE DEF i, x, k, dd
  <1>13. CASE /\ proc[p].op \in {"open", "excl"}
              /\ PutThen(p, <<d>>, [Drop(p) EXCEPT !.res = m], "idle")
    <2> DEFINE r == [Drop(p) EXCEPT !.res = m]
    <2>1. m \in Nums /\ \A n \in Nums : Share(proc[p], n) = Is(d, n) + Is(m, n)
      BY <1>2, <1>13
    <2>2. /\ r \in CallRecs /\ r.dir = 0 /\ r.ino = 0 /\ r.old = 0 /\ r.res = m
          /\ r.fd = proc[p].fd /\ r.op = proc[p].op /\ r.new = proc[p].new
      BY <1>2, <2>1, NoScanTyped DEF CallRecs, NumOr0, Drop
    <2>3. PutThen(p, <<d>>, r, "idle")
      BY <1>13
    <2> HIDE DEF r
    <2>4. HasAt(r, "idle") /\ r.fd # 0
      BY <1>2, <1>13, <2>2 DEF HasAt, OnCourse, Opens
    <2>5. ASSUME NEW n \in Nums
          PROVE  Is(r.dir, n) + Is(r.ino, n) + Is(r.old, n) + Is(r.res, n) + DueTo(<<d>>, n) = Share(proc[p], n)
      <3>1. Is(r.dir, n) = 0 /\ Is(r.old, n) = 0 /\ Is(r.ino, n) = 0 /\ Is(m, n) \in Int /\ Is(d, n) \in Int
        BY <2>2, IsFacts
      <3> QED BY <1>11, <2>1, <2>2, <3>1
    <2>6. "idle" \in {"idle", "iget", "unmake", "linked"} /\ "idle" # "iget"
      OBVIOUS
    <2> QED BY <1>7, <1>8, <1>9, <1>11, <1>12, <2>2, <2>3, <2>4, <2>5, <2>6, PutKept, Zenon
  <1>14. CASE proc[p].op \in {"mknod", "mkdir"} /\ Fail(p, <<d, m>>)
    <2>1. m \in Nums /\ \A n \in Nums : Share(proc[p], n) = Is(d, n) + Is(m, n)
      BY <1>2, <1>14
    <2>2. /\ <<d, m>> \in Seq(Nums) /\ <<d, m>> # <<>> /\ Len(<<d, m>>) <= 2
          /\ \A n \in Nums : DueTo(<<d, m>>, n) = Is(d, n) + Is(m, n)
      BY <1>2, <2>1, DueTwo
    <2>3. \A n \in Nums : DueTo(<<d, m>>, n) = Share(proc[p], n)
      BY <2>1, <2>2
    <2>4. held' \in [Procs -> 0 .. 1] /\ (\A t \in Procs \ {p} : held'[t] = held[t]) /\ held'[p] = 0
      BY <1>1, <1>2
    <2> QED BY <1>1, <1>7, <1>8, <1>9, <1>14, <2>2, <2>3, <2>4, FailKept
  <1>15. CASE proc[p].op = "link" /\ PutThen(p, <<d>>, [proc[p] EXCEPT !.dir = 0], "linked")
    <2> DEFINE r == [proc[p] EXCEPT !.dir = 0]
    <2>1. o \in Nums /\ m = 0 /\ \A n \in Nums : Share(proc[p], n) = Is(d, n) + Is(o, n)
      BY <1>2, <1>15
    <2>2. /\ r \in CallRecs /\ r.dir = 0 /\ r.ino = 0 /\ r.old = o /\ r.res = 0
          /\ r.fd = proc[p].fd /\ r.op = proc[p].op /\ r.rest = proc[p].rest /\ r.new = proc[p].new
      BY <1>2, <2>1 DEF CallRecs, NumOr0
    <2>3. PutThen(p, <<d>>, r, "linked")
      BY <1>15
    <2> HIDE DEF r
    <2>4. HasAt(r, "linked")
      BY <1>2, <1>15, <2>1, <2>2, NamesConstants DEF HasAt
    <2>5. ASSUME NEW n \in Nums
          PROVE  Is(r.dir, n) + Is(r.ino, n) + Is(r.old, n) + Is(r.res, n) + DueTo(<<d>>, n) = Share(proc[p], n)
      <3>1. Is(r.dir, n) = 0 /\ Is(r.ino, n) = 0 /\ Is(r.res, n) = 0 /\ Is(o, n) \in Int /\ Is(d, n) \in Int
        BY <2>2, IsFacts
      <3> QED BY <1>11, <2>1, <2>2, <3>1
    <2>6. "linked" \in {"idle", "iget", "unmake", "linked"} /\ "linked" # "iget"
      OBVIOUS
    <2> QED BY <1>7, <1>8, <1>9, <1>11, <1>12, <2>2, <2>3, <2>4, <2>5, <2>6, PutKept, Zenon
  <1> QED BY <1>10, <1>13, <1>14, <1>15

\* sys_unlink and sys_rmdir have the directory, the inode and its buffer.
LEMMA Taking ==
    ASSUME NamesInv, NEW p \in Procs, NEW l \in {"got", "empty"}, At(p, l)
    PROVE  /\ proc[p] \in CallRecs /\ HasAt(proc[p], l) /\ proc[p].de \in Nat
           /\ proc[p].dir \in Nums /\ proc[p].ino \in Nums
           /\ held \in [Procs -> 0 .. 1] /\ held[p] = 1 /\ Buffered(proc[p])
           /\ inode \in [Nums -> InodeRecs] /\ zmap \subseteq Zones
           /\ panicked \in BOOLEAN /\ raced \in BOOLEAN
           /\ LET d == proc[p].dir  m == proc[p].ino IN
              /\ <<d, m>> \in Seq(Nums) /\ <<d, m>> # <<>> /\ Len(<<d, m>>) <= 2
              /\ <<m, d>> \in Seq(Nums) /\ <<m, d>> # <<>> /\ Len(<<m, d>>) <= 2
              /\ \A n \in Nums : DueTo(<<d, m>>, n) = Share(proc[p], n) /\ DueTo(<<m, d>>, n) = Share(proc[p], n)
  <1> DEFINE d == proc[p].dir  m == proc[p].ino
  <1>1. /\ proc[p] \in CallRecs /\ HasAt(proc[p], l) /\ d \in Nums
        /\ held \in [Procs -> 0 .. 1] /\ held[p] = 1 /\ Buffered(proc[p])
        /\ inode \in [Nums -> InodeRecs] /\ zmap \subseteq Zones /\ panicked \in BOOLEAN /\ raced \in BOOLEAN
        /\ proc[p].op # "link" => m \in Nums /\ \A n \in Nums : Share(proc[p], n) = Is(d, n) + Is(m, n)
    BY InHand
  <1>2. m \in Nums /\ \A n \in Nums : Share(proc[p], n) = Is(d, n) + Is(m, n)
    BY <1>1 DEF HasAt, Takes
  <1>3. proc[p].de \in Nat
    BY <1>1, CallRecFields
  <1>4. /\ <<d, m>> \in Seq(Nums) /\ <<d, m>> # <<>> /\ Len(<<d, m>>) <= 2
        /\ \A n \in Nums : DueTo(<<d, m>>, n) = Is(d, n) + Is(m, n)
    BY <1>1, <1>2, DueTwo
  <1>5. /\ <<m, d>> \in Seq(Nums) /\ <<m, d>> # <<>> /\ Len(<<m, d>>) <= 2
        /\ \A n \in Nums : DueTo(<<m, d>>, n) = Is(m, n) + Is(d, n)
    BY <1>1, <1>2, DueTwo
  <1>6. ASSUME NEW n \in Nums
        PROVE  DueTo(<<d, m>>, n) = Share(proc[p], n) /\ DueTo(<<m, d>>, n) = Share(proc[p], n)
    <2>1. Is(m, n) \in Int /\ Is(d, n) \in Int
      BY IsFacts
    <2> QED BY <1>2, <1>4, <1>5, <2>1
  <1> QED BY <1>1, <1>2, <1>3, <1>4, <1>5, <1>6

\* sys_unlink clears the entry, or refuses a directory.
LEMMA UnlinkKeeps ==
    ASSUME NamesInv, NEW p \in Procs, Unlink(p)
    PROVE  NamesInv'
  <1> DEFINE d == proc[p].dir  m == proc[p].ino  i == proc[p].de
  <1>1. /\ At(p, "got") /\ held' = [held EXCEPT ![p] = @ - 1] /\ Fail(p, <<m, d>>)
        /\ imap' = imap /\ zmap' = zmap /\ panicked' = panicked /\ UNCHANGED fvars
    BY DEF Unlink
  <1>2. /\ i \in Nat /\ d \in Nums /\ m \in Nums /\ held \in [Procs -> 0 .. 1] /\ held[p] = 1
        /\ inode \in [Nums -> InodeRecs] /\ zmap \subseteq Zones /\ panicked \in BOOLEAN /\ raced \in BOOLEAN
        /\ <<m, d>> \in Seq(Nums) /\ <<m, d>> # <<>> /\ Len(<<m, d>>) <= 2
        /\ \A n \in Nums : DueTo(<<m, d>>, n) = Share(proc[p], n)
    BY <1>1, Taking
  <1>3. /\ held' \in [Procs -> 0 .. 1] /\ (\A t \in Procs \ {p} : held'[t] = held[t]) /\ held'[p] = 0
        /\ zmap' \subseteq Zones /\ panicked' \in BOOLEAN
    BY <1>1, <1>2
  <1>4. raced' \in BOOLEAN /\ (raced => raced')
    BY <1>2, Zenon DEF Unlink
  <1>5. inode' \in [Nums -> InodeRecs] /\ \A n \in Nums : inode'[n].count = inode[n].count
    <2>1. CASE inode' = inode
      BY <1>2, <2>1
    <2>2. CASE ~inode[m].isdir
      <3> DEFINE a == WithoutEntry(inode[d], i)
                 f == [inode EXCEPT ![d] = a]
                 k == IF inode[m].nlinks = 0 THEN 0 ELSE Less(inode[m].nlinks)
                 e == [f[m] EXCEPT !.nlinks = k]
      <3>1. inode' = [f EXCEPT ![m] = e]
        BY <2>2 DEF Unlink
      <3>2. a \in InodeRecs /\ a.count = inode[d].count
        BY <1>2, WithoutEntryKeeps
      <3> HIDE DEF a
      <3>3. f \in [Nums -> InodeRecs] /\ \A n \in Nums : f[n].count = inode[n].count
        BY <1>2, <3>2, TwoKept
      <3> HIDE DEF f
      <3>4. f[m] \in InodeRecs /\ inode[m].nlinks \in Nat
        BY <1>2, <3>3, InodeRecFields
      <3>5. k \in Nat
        BY <3>4, LessNat
      <3> HIDE DEF k
      <3>6. e \in InodeRecs /\ e.count = f[m].count
        BY <3>4, <3>5, LinksSet
      <3> HIDE DEF e
      <3>7. inode' \in [Nums -> InodeRecs] /\ \A n \in Nums : inode'[n].count = f[n].count
        BY <1>2, <3>1, <3>3, <3>6, TwoKept
      <3> QED BY <3>3, <3>7
    <2>3. inode' = inode \/ ~inode[m].isdir
      BY DEF Unlink
    <2> QED BY <2>1, <2>2, <2>3
  <1> QED BY <1>1, <1>2, <1>3, <1>4, <1>5, FailKept

\* sys_rmdir refuses, or goes on to empty_dir.
LEMMA RmdirKeeps ==
    ASSUME NamesInv, NEW p \in Procs, Rmdir(p)
    PROVE  NamesInv'
  <1> DEFINE d == proc[p].dir  m == proc[p].ino
             no == inode[m].count > 1 \/ m = d \/ ~inode[m].isdir
  <1>1. At(p, "got") /\ UNCHANGED <<inode, imap, zmap, panicked, raced, fvars>>
    BY DEF Rmdir
  <1>2. /\ proc[p] \in CallRecs /\ HasAt(proc[p], "got") /\ Buffered(proc[p])
        /\ held \in [Procs -> 0 .. 1] /\ held[p] = 1 /\ m \in Nums /\ inode \in [Nums -> InodeRecs]
        /\ <<d, m>> \in Seq(Nums) /\ <<d, m>> # <<>> /\ Len(<<d, m>>) <= 2
        /\ <<m, d>> \in Seq(Nums) /\ <<m, d>> # <<>> /\ Len(<<m, d>>) <= 2
        /\ \A n \in Nums : DueTo(<<d, m>>, n) = Share(proc[p], n) /\ DueTo(<<m, d>>, n) = Share(proc[p], n)
    BY <1>1, Taking
  <1>3. CASE no
    <2>1. held' = [held EXCEPT ![p] = @ - 1] /\ (Fail(p, <<d, m>>) \/ Fail(p, <<m, d>>))
      BY <1>3 DEF Rmdir
    <2>2. held' \in [Procs -> 0 .. 1] /\ (\A t \in Procs \ {p} : held'[t] = held[t]) /\ held'[p] = 0
      BY <1>2, <2>1
    <2>3. CASE Fail(p, <<d, m>>)
      BY <1>1, <1>2, <2>2, <2>3, FailQuietly
    <2>4. CASE Fail(p, <<m, d>>)
      BY <1>1, <1>2, <2>2, <2>4, FailQuietly
    <2> QED BY <2>1, <2>3, <2>4
  <1>4. CASE ~no
    <2> DEFINE sc == SearchAt(0, Len(inode[m].ents), 0)
    <2>1. Goto(p, "empty", sc) /\ UNCHANGED held
      BY <1>4 DEF Rmdir
    <2>s. sc \in ScanRecs
      <3>1. inode[m].ents \in Seq(EntryRecs)
        BY <1>2, InodeRecFields
      <3>2. Len(inode[m].ents) \in Nat
        BY <3>1
      <3> QED BY <3>2, ScanTyped
    <2> HIDE DEF sc
    <2>2. HasAt(proc[p], "empty") /\ "empty" \in CallLabels /\ "empty" \notin {"puts", "idle", "iget"}
      BY <1>2 DEF HasAt, CallLabels
    <2>3. UNCHANGED <<inode, imap, zmap, held, panicked, raced, fvars>>
      BY <1>1, <2>1
    <2> QED BY <1>1, <1>2, <2>1, <2>s, <2>2, <2>3, GotoQuietly
  <1> QED BY <1>3, <1>4

\* empty_dir goes on to the next block.
LEMMA LookEmptyKeeps ==
    ASSUME NamesInv, NEW p \in Procs, LookEmpty(p)
    PROVE  NamesInv'
  <1> DEFINE sc == [proc[p].scan EXCEPT !.blk = @ + 1]
  <1>1. /\ At(p, "empty") /\ Goto(p, "empty", sc)
        /\ UNCHANGED <<inode, imap, zmap, held, panicked, raced, fvars>>
    BY DEF LookEmpty
  <1>2. proc[p] \in CallRecs /\ HasAt(proc[p], "empty") /\ Buffered(proc[p])
    BY <1>1, Taking
  <1>3. sc \in ScanRecs
    BY <1>2, CallRecFields, ScanOn
  <1> HIDE DEF sc
  <1>4. "empty" \in CallLabels /\ "empty" \notin {"puts", "idle", "iget", "init", "extend"}
    BY DEF CallLabels
  <1> QED BY <1>1, <1>2, <1>3, <1>4, GotoQuietly

\* sys_rmdir refuses a directory that is not empty, or bad.
LEMMA NotEmptyKeeps ==
    ASSUME NamesInv, NEW p \in Procs, NotEmpty(p)
    PROVE  NamesInv'
  <1> DEFINE d == proc[p].dir  m == proc[p].ino
  <1>1. /\ At(p, "empty") /\ held' = [held EXCEPT ![p] = @ - 1] /\ Fail(p, <<m, d>>)
        /\ UNCHANGED <<inode, imap, zmap, panicked, raced, fvars>>
    BY DEF NotEmpty
  <1>2. /\ held \in [Procs -> 0 .. 1] /\ held[p] = 1
        /\ <<m, d>> \in Seq(Nums) /\ <<m, d>> # <<>> /\ Len(<<m, d>>) <= 2
        /\ \A n \in Nums : DueTo(<<m, d>>, n) = Share(proc[p], n)
    BY <1>1, Taking
  <1>3. held' \in [Procs -> 0 .. 1] /\ (\A t \in Procs \ {p} : held'[t] = held[t]) /\ held'[p] = 0
    BY <1>1, <1>2
  <1> QED BY <1>1, <1>2, <1>3, FailQuietly

\* sys_rmdir removes the directory it found empty.
LEMMA RemoveKeeps ==
    ASSUME NamesInv, NEW p \in Procs, Remove(p)
    PROVE  NamesInv'
  <1> DEFINE d == proc[p].dir  m == proc[p].ino  i == proc[p].de
  <1>1. /\ At(p, "empty") /\ held' = [held EXCEPT ![p] = @ - 1]
        /\ imap' = imap /\ zmap' = zmap /\ panicked' = panicked /\ UNCHANGED fvars
        /\ Fail(p, <<d, m>>)
    BY DEF Remove
  <1>2. /\ i \in Nat /\ d \in Nums /\ m \in Nums /\ held \in [Procs -> 0 .. 1] /\ held[p] = 1
        /\ inode \in [Nums -> InodeRecs] /\ zmap \subseteq Zones /\ panicked \in BOOLEAN /\ raced \in BOOLEAN
        /\ <<d, m>> \in Seq(Nums) /\ <<d, m>> # <<>> /\ Len(<<d, m>>) <= 2
        /\ <<m, d>> \in Seq(Nums) /\ <<m, d>> # <<>> /\ Len(<<m, d>>) <= 2
        /\ \A n \in Nums : DueTo(<<d, m>>, n) = Share(proc[p], n) /\ DueTo(<<m, d>>, n) = Share(proc[p], n)
    BY <1>1, Taking
  <1>3. /\ held' \in [Procs -> 0 .. 1] /\ (\A t \in Procs \ {p} : held'[t] = held[t]) /\ held'[p] = 0
        /\ zmap' \subseteq Zones /\ panicked' \in BOOLEAN
    BY <1>1, <1>2
  <1>4. raced' \in BOOLEAN /\ (raced => raced')
    BY <1>2, Zenon DEF Remove
  <1>5. inode' \in [Nums -> InodeRecs] /\ \A n \in Nums : inode'[n].count = inode[n].count
    <2> DEFINE w == WithoutEntry(inode[d], i)
               a == [w EXCEPT !.nlinks = Less(inode[d].nlinks)]
               f == [inode EXCEPT ![d] = a]
               e == [f[m] EXCEPT !.nlinks = 0]
    <2>1. inode' = [f EXCEPT ![m] = e]
      BY DEF Remove
    <2>2. w \in InodeRecs /\ w.count = inode[d].count
      BY <1>2, WithoutEntryKeeps
    <2> HIDE DEF w
    <2>3. Less(inode[d].nlinks) \in Nat
      BY <1>2, InodeRecFields, LessNat
    <2>4. a \in InodeRecs /\ a.count = inode[d].count
      BY <2>2, <2>3, LinksSet
    <2> HIDE DEF a
    <2>5. f \in [Nums -> InodeRecs] /\ \A n \in Nums : f[n].count = inode[n].count
      BY <1>2, <2>4, TwoKept
    <2> HIDE DEF f
    <2>6. e \in InodeRecs /\ e.count = f[m].count
      BY <1>2, <2>5, LinksSet
    <2> HIDE DEF e
    <2>7. inode' \in [Nums -> InodeRecs] /\ \A n \in Nums : inode'[n].count = f[n].count
      BY <1>2, <2>1, <2>5, <2>6, TwoKept
    <2> QED BY <2>5, <2>7
  <1> QED BY <1>1, <1>2, <1>3, <1>4, <1>5, FailKept

-----------------------------------------------------------------------------
\* A file's inode changes: its references do.
LEMMA FileRefsStep ==
    ASSUME NEW f \in FileNos, \A g \in FileNos \ {f} : file'[g].ino = file[g].ino, NEW n
    PROVE  FileRefs(file', n) = FileRefs(file, n) + Is(file'[f].ino, n) - Is(file[f].ino, n)
  <1> DEFINE S == {g \in FileNos : file[g].ino = n}  T == {g \in FileNos : file'[g].ino = n}
  <1>1. IsFiniteSet(S)
    BY FileRefsNat
  <1>2. T \ {f} = S \ {f}
    OBVIOUS
  <1>3. (f \in S <=> file[f].ino = n) /\ (f \in T <=> file'[f].ino = n)
    OBVIOUS
  <1>4. FileRefs(file, n) = Cardinality(S) /\ FileRefs(file', n) = Cardinality(T)
    BY DEF FileRefs
  <1> HIDE DEF S, T
  <1>5. Cardinality(T) = Cardinality(S) + (IF f \in T THEN 1 ELSE 0) - (IF f \in S THEN 1 ELSE 0)
    BY <1>1, <1>2, OneElement
  <1> QED BY <1>3, <1>4, <1>5 DEF Is

\* The descriptors of a file are finitely many.
LEMMA DescriptorsFinite ==
    ASSUME NEW f
    PROVE  IsFiniteSet(Descriptors(f)) /\ Cardinality(Descriptors(f)) \in Nat
  <1>1. IsFiniteSet(Procs) /\ IsFiniteSet(Fds)
    BY NamesConstants, FS_Interval DEF Fds
  <1>2. IsFiniteSet(Procs \X Fds)
    BY <1>1, FS_Product
  <1>3. Descriptors(f) \subseteq Procs \X Fds
    BY DEF Descriptors
  <1> QED BY <1>2, <1>3, FS_Subset, FS_CardinalityType

\* A descriptor changes: one file has it less, one more.
LEMMA DescriptorsStep ==
    ASSUME NEW p \in Procs, NEW d \in Fds, NEW f,
           \A q \in Procs, c \in Fds : q # p \/ c # d => filp'[q][c] = filp[q][c]
    PROVE  Cardinality(Descriptors(f)') = Cardinality(Descriptors(f)) + Is(filp'[p][d], f) - Is(filp[p][d], f)
  <1> DEFINE S == Descriptors(f)  T == Descriptors(f)'  a == <<p, d>>  x == filp'[p][d]
  <1>1. IsFiniteSet(S)
    BY DescriptorsFinite
  <1>2. a \in Procs \X Fds /\ a[1] = p /\ a[2] = d
    OBVIOUS
  <1>3. filp'[p][d] = x
    OBVIOUS
  <1>4. ASSUME NEW y \in Procs \X Fds, y # a PROVE filp'[y[1]][y[2]] = filp[y[1]][y[2]]
    <2>1. PICK q \in Procs, c \in Fds : y = <<q, c>>
      OBVIOUS
    <2>2. q # p \/ c # d
      BY <1>4, <2>1
    <2>3. filp'[q][c] = filp[q][c]
      BY <2>2
    <2> QED BY <2>1, <2>3
  <1>5. T \ {a} = S \ {a}
    BY <1>4 DEF Descriptors
  <1>6. (a \in S <=> filp[p][d] = f) /\ (a \in T <=> x = f)
    BY <1>2, <1>3 DEF Descriptors
  <1> HIDE DEF S, T, a
  <1>7. Cardinality(T) = Cardinality(S) + (IF a \in T THEN 1 ELSE 0) - (IF a \in S THEN 1 ELSE 0)
    BY <1>1, <1>5, OneElement
  <1> QED BY <1>6, <1>7 DEF Is, S, T

\* The file that sys_open has reserved has one descriptor, no inode, and no
\* other process has it.
LEMMA Reserved ==
    ASSUME NamesInv, NEW p \in Procs, proc[p].fd # 0
    PROVE  LET d == proc[p].fd  f == filp[p][d] IN
           /\ d \in Fds /\ f \in FileNos /\ file[f].count = 1 /\ file[f].ino = 0
           /\ \A q \in Procs, c \in Fds : filp[q][c] = f => q = p /\ c = d
           /\ Cardinality(Descriptors(f)) = 1
  <1> DEFINE d == proc[p].fd  f == filp[p][d]
  <1>1. d \in Fds
    BY CallRecFields, NamesConstants DEF NamesInv, NamesTyped, Fds
  <1>2. f # 0 /\ file[f].ino = 0 /\ \A q \in Procs, c \in Fds : filp[q][c] = f => q = p /\ c = d
    BY DEF NamesInv, FilesReserved
  <1>3. f \in FileNos
    BY <1>1, <1>2, NamesConstants DEF NamesInv, NamesTyped, FileNos
  <1>4. Descriptors(f) = {<<p, d>>}
    <2>1. <<p, d>> \in Descriptors(f)
      BY <1>1 DEF Descriptors
    <2>2. ASSUME NEW y \in Descriptors(f) PROVE y = <<p, d>>
      <3>1. PICK q \in Procs, c \in Fds : y = <<q, c>> /\ filp[q][c] = f
        BY DEF Descriptors
      <3> QED BY <1>2, <3>1
    <2> QED BY <2>1, <2>2
  <1>5. Cardinality(Descriptors(f)) = 1
    BY <1>4, FS_Singleton
  <1>6. file[f].count = 1
    BY <1>3, <1>5 DEF NamesInv, FilesCounted
  <1> QED BY <1>1, <1>2, <1>3, <1>5, <1>6

\* A process in no call.
LEMMA NoCallKeeps ==
    ASSUME NEW k \in Int
    PROVE  /\ NoCall(k) \in CallRecs /\ OnCourse(NoCall(k)) /\ ~Buffered(NoCall(k)) /\ NoCall(k).fd = 0
           /\ \A n \in Nums : Share(NoCall(k), n) = 0
  <1> DEFINE r == NoCall(k)
  <1>1. <<>> \in Seq(FileNames) /\ <<>> \in Seq(Nums) /\ 0 \in 0 .. NR_OPEN /\ 0 \in NumOr0
    BY NamesConstants DEF NumOr0
  <1>2. /\ r \in CallRecs /\ r.pc = "idle" /\ r.op = "none" /\ r.dir = 0 /\ r.ino = 0 /\ r.old = 0 /\ r.res = 0
        /\ r.fd = 0 /\ r.puts = <<>> /\ r.next = "idle"
    BY <1>1, NoScanTyped DEF NoCall, CallRecs, CallLabels
  <1> HIDE DEF r
  <1>3. HasAt(r, "idle")
    BY <1>2 DEF HasAt
  <1>4. OnCourse(r) /\ ~Buffered(r)
    <2>1. Len(r.puts) <= 2
      BY <1>2
    <2> QED BY <1>2, <1>3, <2>1 DEF OnCourse, Buffered, Opens
  <1>5. ASSUME NEW n \in Nums PROVE Share(r, n) = 0
    <2>1. Is(0, n) = 0
      BY IsFacts
    <2>2. DueTo(<<>>, n) = 0
      BY DEF DueTo
    <2> QED BY <1>2, <2>1, <2>2 DEF Share
  <1> QED BY <1>2, <1>4, <1>5 DEF r

\* A call ends: sys_open enters its inode m, or gives its file back.
LEMMA EndStep ==
    ASSUME NamesInv, NEW p \in Procs, NEW m \in NumOr0, Ends(p, m), m # 0 => proc[p].fd # 0,
           held' \in [Procs -> 0 .. 1], \A t \in Procs \ {p} : held'[t] = held[t], held'[p] = 0,
           inode' \in [Nums -> InodeRecs], imap' \subseteq Nums, zmap' \subseteq Zones,
           panicked' \in BOOLEAN, raced' \in BOOLEAN,
           ~raced' =>
             /\ ~raced
             /\ \A n \in Nums : inode'[n].count = inode[n].count + Is(m, n) - Share(proc[p], n)
             /\ 1 \in imap' /\ \A n \in Nums \ imap' : inode'[n].count = 0
    PROVE  NamesInv'
  <1> DEFINE d == proc[p].fd  f == filp[p][d]  r == NoCall(proc[p].ops)
  <1>1. /\ proc \in [Procs -> CallRecs] /\ inode \in [Nums -> InodeRecs]
        /\ filp \in [Procs -> [Fds -> 0 .. NR_FILE]] /\ file \in [FileNos -> FileRecs]
    BY DEF NamesInv, NamesTyped
  <1>2. /\ r \in CallRecs /\ OnCourse(r) /\ ~Buffered(r) /\ r.fd = 0 /\ \A n \in Nums : Share(r, n) = 0
    BY <1>1, CallRecFields, NoCallKeeps
  <1>3. proc' = [proc EXCEPT ![p] = r]
    BY DEF Ends, Become
  <1>4. held'[p] = IF Buffered(r) THEN 1 ELSE 0
    BY <1>2
  <1> HIDE DEF r
  <1>5. ASSUME NEW n \in Nums
        PROVE  inode[n].count \in Int /\ Share(proc[p], n) \in Int /\ Is(m, n) \in Int /\ FileRefs(file, n) \in Int
    <2>1. inode[n].count \in Int /\ Share(proc[p], n) \in Int /\ Is(m, n) \in Int
      BY <1>1, InodeRecFields, ShareNat, IsFacts
    <2>2. FileRefs(file, n) \in Nat
      BY FileRefsNat
    <2> QED BY <2>1, <2>2
  <1>6. CASE d = 0
    <2>1. UNCHANGED fvars /\ r.fd = proc[p].fd /\ m = 0
      BY <1>2, <1>6 DEF Ends
    <2>2. ~raced' =>
             /\ ~raced
             /\ \A n \in Nums : inode'[n].count = inode[n].count + Share(r, n) - Share(proc[p], n)
             /\ 1 \in imap' /\ \A n \in Nums \ imap' : inode'[n].count = 0
      <3>1. \A n \in Nums : Is(m, n) = Share(r, n)
        BY <1>2, <2>1, IsFacts
      <3> QED BY <3>1
    <2> QED BY <1>2, <1>3, <1>4, <2>1, <2>2, CallStep, Zenon
  <1>7. CASE d # 0
    <2>1. /\ d \in Fds /\ f \in FileNos /\ file[f].count = 1 /\ file[f].ino = 0
          /\ \A q \in Procs, c \in Fds : filp[q][c] = f => q = p /\ c = d
          /\ Cardinality(Descriptors(f)) = 1
      BY <1>7, Reserved
    <2>2. \A q \in Procs : proc'[q].fd = IF q = p THEN 0 ELSE proc[q].fd
      BY <1>1, <1>2, <1>3
    <2>3. ASSUME NEW q \in Procs, q # p, proc[q].fd # 0
          PROVE  filp[q][proc[q].fd] # f /\ proc[q].fd \in Fds /\ filp[q][proc[q].fd] \in FileNos
      BY <2>1, <2>3, Reserved
    <2>4. CASE m # 0
      <3> DEFINE e == [count |-> 1, ino |-> m]
      <3>1. file' = [file EXCEPT ![f] = e] /\ filp' = filp
        BY <1>7, <2>4 DEF Ends
      <3>2. e \in FileRecs
        BY DEF FileRecs
      <3>3. /\ file'[f].count = 1 /\ file'[f].ino = m /\ \A g \in FileNos \ {f} : file'[g] = file[g]
        BY <1>1, <2>1, <3>1
      <3>4. file' \in [FileNos -> FileRecs] /\ filp' \in [Procs -> [Fds -> 0 .. NR_FILE]]
        BY <1>1, <3>1, <3>2
      <3>5. FilesCounted'
        <4>1. \A g : Descriptors(g)' = Descriptors(g)
          BY <3>1 DEF Descriptors
        <4>2. ASSUME NEW g \in FileNos
              PROVE  /\ file'[g].count = Cardinality(Descriptors(g)')
                     /\ file'[g].count = 0 => file'[g].ino = 0
                     /\ file'[g].count > 0 /\ file'[g].ino = 0 =>
                           \E q \in Procs : proc'[q].fd # 0 /\ filp'[q][proc'[q].fd] = g
          <5>1. CASE g = f
            BY <2>1, <2>4, <3>3, <4>1, <5>1, SMTT(30)
          <5>2. CASE g # f
            <6>1. /\ file[g].count = Cardinality(Descriptors(g))
                  /\ file[g].count = 0 => file[g].ino = 0
                  /\ file[g].count > 0 /\ file[g].ino = 0 =>
                        \E q \in Procs : proc[q].fd # 0 /\ filp[q][proc[q].fd] = g
              BY DEF NamesInv, FilesCounted
            <6>2. file'[g] = file[g]
              BY <3>3, <5>2
            <6>3. ASSUME NEW q \in Procs, proc[q].fd # 0, filp[q][proc[q].fd] = g
                  PROVE  proc'[q].fd # 0 /\ filp'[q][proc'[q].fd] = g
              BY <2>2, <3>1, <5>2, <6>3
            <6> QED BY <4>1, <6>1, <6>2, <6>3
          <5> QED BY <5>1, <5>2
        <4> QED BY <4>2 DEF FilesCounted
      <3>6. FilesReserved'
        <4> SUFFICES ASSUME NEW q \in Procs, proc'[q].fd # 0
                     PROVE  /\ filp'[q][proc'[q].fd] # 0 /\ file'[filp'[q][proc'[q].fd]].ino = 0
                            /\ \A t \in Procs, c \in Fds :
                                  filp'[t][c] = filp'[q][proc'[q].fd] => t = q /\ c = proc'[q].fd
          BY DEF FilesReserved
        <4>1. q # p /\ proc'[q].fd = proc[q].fd /\ proc[q].fd # 0
          BY <2>2
        <4>2. /\ filp[q][proc[q].fd] # 0 /\ file[filp[q][proc[q].fd]].ino = 0
              /\ \A t \in Procs, c \in Fds : filp[t][c] = filp[q][proc[q].fd] => t = q /\ c = proc[q].fd
          BY <4>1 DEF NamesInv, FilesReserved
        <4>3. filp[q][proc[q].fd] # f /\ filp[q][proc[q].fd] \in FileNos
          BY <2>3, <4>1
        <4> QED BY <3>1, <3>3, <4>1, <4>2, <4>3
      <3>7. ASSUME ~raced', NEW n \in Nums
            PROVE  inode'[n].count = inode[n].count + Share(r, n) - Share(proc[p], n)
                                   + FileRefs(file', n) - FileRefs(file, n)
        <4>1. \A g \in FileNos \ {f} : file'[g].ino = file[g].ino
          BY <3>3
        <4>2. FileRefs(file', n) = FileRefs(file, n) + Is(file'[f].ino, n) - Is(file[f].ino, n)
          BY <2>1, <4>1, FileRefsStep
        <4>3. Is(file[f].ino, n) = 0 /\ Share(r, n) = 0
          BY <1>2, <2>1, IsFacts
        <4>4. inode'[n].count = inode[n].count + Is(m, n) - Share(proc[p], n)
          BY <3>7
        <4> QED BY <1>5, <3>3, <4>2, <4>3, <4>4
      <3>8. ~raced' =>
             /\ ~raced
             /\ \A n \in Nums : inode'[n].count = inode[n].count + Share(r, n) - Share(proc[p], n)
                                   + FileRefs(file', n) - FileRefs(file, n)
             /\ 1 \in imap' /\ \A n \in Nums \ imap' : inode'[n].count = 0
        BY <3>7
      <3> QED BY <1>2, <1>3, <1>4, <3>4, <3>5, <3>6, <3>8, NamesStep, Zenon
    <2>5. CASE m = 0
      <3>1. file' = [file EXCEPT ![f].count = 0] /\ filp' = [filp EXCEPT ![p][d] = 0]
        BY <1>7, <2>5 DEF Ends
      <3>2. /\ file'[f].count = 0 /\ file'[f].ino = 0 /\ \A g \in FileNos \ {f} : file'[g] = file[g]
            /\ file' \in [FileNos -> FileRecs]
        BY <1>1, <2>1, <3>1 DEF FileRecs
      <3>3. /\ filp' \in [Procs -> [Fds -> 0 .. NR_FILE]] /\ filp'[p][d] = 0
            /\ \A q \in Procs, c \in Fds : q # p \/ c # d => filp'[q][c] = filp[q][c]
        BY <1>1, <2>1, <3>1, NamesConstants
      <3>4. ASSUME NEW g \in FileNos
            PROVE  Cardinality(Descriptors(g)') = IF g = f THEN 0 ELSE Cardinality(Descriptors(g))
        <4>1. Cardinality(Descriptors(g)') = Cardinality(Descriptors(g)) + Is(filp'[p][d], g) - Is(f, g)
          BY <2>1, <3>3, DescriptorsStep
        <4>2. Is(filp'[p][d], g) = 0 /\ Is(f, g) = IF g = f THEN 1 ELSE 0
          BY <3>3, NamesConstants DEF Is, FileNos
        <4>3. Cardinality(Descriptors(g)) \in Nat
          BY DescriptorsFinite
        <4> QED BY <2>1, <4>1, <4>2, <4>3
      <3>5. FilesCounted'
        <4>1. ASSUME NEW g \in FileNos
              PROVE  /\ file'[g].count = Cardinality(Descriptors(g)')
                     /\ file'[g].count = 0 => file'[g].ino = 0
                     /\ file'[g].count > 0 /\ file'[g].ino = 0 =>
                           \E q \in Procs : proc'[q].fd # 0 /\ filp'[q][proc'[q].fd] = g
          <5>1. CASE g = f
            BY <3>2, <3>4, <5>1
          <5>2. CASE g # f
            <6>1. /\ file[g].count = Cardinality(Descriptors(g))
                  /\ file[g].count = 0 => file[g].ino = 0
                  /\ file[g].count > 0 /\ file[g].ino = 0 =>
                        \E q \in Procs : proc[q].fd # 0 /\ filp[q][proc[q].fd] = g
              BY DEF NamesInv, FilesCounted
            <6>2. file'[g] = file[g] /\ Cardinality(Descriptors(g)') = Cardinality(Descriptors(g))
              BY <3>2, <3>4, <5>2
            <6>3. ASSUME NEW q \in Procs, proc[q].fd # 0, filp[q][proc[q].fd] = g
                  PROVE  proc'[q].fd # 0 /\ filp'[q][proc'[q].fd] = g
              <7>1. q # p
                BY <5>2, <6>3
              <7>2. proc[q].fd \in Fds
                BY <2>3, <6>3, <7>1
              <7> QED BY <2>2, <3>3, <6>3, <7>1, <7>2
            <6> QED BY <6>1, <6>2, <6>3
          <5> QED BY <5>1, <5>2
        <4> QED BY <4>1 DEF FilesCounted
      <3>6. FilesReserved'
        <4> SUFFICES ASSUME NEW q \in Procs, proc'[q].fd # 0
                     PROVE  /\ filp'[q][proc'[q].fd] # 0 /\ file'[filp'[q][proc'[q].fd]].ino = 0
                            /\ \A t \in Procs, c \in Fds :
                                  filp'[t][c] = filp'[q][proc'[q].fd] => t = q /\ c = proc'[q].fd
          BY DEF FilesReserved
        <4>1. q # p /\ proc'[q].fd = proc[q].fd /\ proc[q].fd # 0
          BY <2>2
        <4>2. /\ filp[q][proc[q].fd] # 0 /\ file[filp[q][proc[q].fd]].ino = 0
              /\ \A t \in Procs, c \in Fds : filp[t][c] = filp[q][proc[q].fd] => t = q /\ c = proc[q].fd
          BY <4>1 DEF NamesInv, FilesReserved
        <4>3. filp[q][proc[q].fd] # f /\ filp[q][proc[q].fd] \in FileNos /\ proc[q].fd \in Fds
          BY <2>3, <4>1
        <4>4. filp'[q][proc'[q].fd] = filp[q][proc[q].fd]
          BY <3>3, <4>1, <4>3
        <4>5. ASSUME NEW t \in Procs, NEW c \in Fds, filp'[t][c] = filp[q][proc[q].fd]
              PROVE  t = q /\ c = proc[q].fd
          <5>1. ~(t = p /\ c = d)
            BY <3>3, <4>2, <4>5
          <5> QED BY <3>3, <4>2, <4>5, <5>1
        <4> QED BY <3>2, <4>1, <4>2, <4>3, <4>4, <4>5
      <3>7. ASSUME ~raced', NEW n \in Nums
            PROVE  inode'[n].count = inode[n].count + Share(r, n) - Share(proc[p], n)
                                   + FileRefs(file', n) - FileRefs(file, n)
        <4>1. \A g \in FileNos \ {f} : file'[g].ino = file[g].ino
          BY <3>2
        <4>2. FileRefs(file', n) = FileRefs(file, n) + Is(file'[f].ino, n) - Is(file[f].ino, n)
          BY <2>1, <4>1, FileRefsStep
        <4>3. Is(file[f].ino, n) = 0 /\ Is(file'[f].ino, n) = 0 /\ Is(m, n) = 0 /\ Share(r, n) = 0
          BY <1>2, <2>1, <2>5, <3>2, IsFacts
        <4>4. inode'[n].count = inode[n].count + Is(m, n) - Share(proc[p], n)
          BY <3>7
        <4> QED BY <1>5, <4>2, <4>3, <4>4
      <3>8. ~raced' =>
             /\ ~raced
             /\ \A n \in Nums : inode'[n].count = inode[n].count + Share(r, n) - Share(proc[p], n)
                                   + FileRefs(file', n) - FileRefs(file, n)
             /\ 1 \in imap' /\ \A n \in Nums \ imap' : inode'[n].count = 0
        BY <3>7
      <3> QED BY <1>2, <1>3, <1>4, <3>2, <3>3, <3>5, <3>6, <3>8, NamesStep, Zenon
    <2> QED BY <2>4, <2>5
  <1> QED BY <1>6, <1>7

\* A path that is not used up: its last name, or more to come.
LEMMA PathLeft ==
    ASSUME NEW w \in Seq(FileNames), w # <<>>
    PROVE  /\ Len(w) = 1 \/ Len(w) > 1
           /\ Len(w) = 1 => ~(Len(w) > 1)
           /\ Len(w) > 1 => Tail(w) \in Seq(FileNames) /\ Tail(w) # <<>> /\ Len(w) # 1
  <1>1. Len(w) \in Nat /\ Len(w) # 0
    OBVIOUS
  <1>2. Tail(w) \in Seq(FileNames) /\ Len(Tail(w)) = Len(w) - 1
    OBVIOUS
  <1> DEFINE k == Len(w)  v == Tail(w)
  <1>3. ASSUME v = <<>> PROVE Len(v) = 0
    <2>1. Len(<<>>) = 0
      OBVIOUS
    <2> HIDE DEF v
    <2> QED BY <1>3, <2>1, Zenon
  <1>4. (k = 1 \/ k > 1) /\ (k = 1 => ~(k > 1)) /\ (k > 1 => k # 1)
    <2> HIDE DEF k
    <2>1. k \in Nat /\ k # 0
      BY <1>1 DEF k
    <2> QED BY <2>1
  <1>5. k > 1 => v # <<>>
    <2>1. k > 1 => Len(v) # 0
      <3> HIDE DEF k, v
      <3>1. k \in Nat /\ Len(v) = k - 1
        BY <1>1, <1>2 DEF k, v
      <3> QED BY <3>1
    <2> QED BY <1>3, <2>1, Zenon
  <1> QED BY <1>2, <1>4, <1>5, Zenon

\* iget, and what the caller does with the inode.
LEMMA IgetKeeps ==
    ASSUME NamesInv, NEW p \in Procs, Iget(p)
    PROVE  NamesInv'
  <1> DEFINE m == proc[p].inr  r == [proc[p] EXCEPT !.inr = 0]  op == proc[p].op
  <1>1. /\ At(p, "iget") /\ inode' = [inode EXCEPT ![m].count = @ + 1] /\ raced' = (raced \/ m \notin imap)
        /\ imap' = imap /\ zmap' = zmap /\ held' = held /\ panicked' = panicked
    BY DEF Iget
  <1>2. /\ proc[p] \in CallRecs /\ HasAt(proc[p], "iget") /\ proc[p].pc = "iget" /\ proc[p].res = 0
        /\ held \in [Procs -> 0 .. 1] /\ held[p] = IF Buffered(proc[p]) THEN 1 ELSE 0
        /\ \A n \in Nums : Share(proc[p], n) = Is(proc[p].dir, n) + Is(proc[p].ino, n) + Is(proc[p].old, n)
        /\ inode \in [Nums -> InodeRecs] /\ proc[p].puts = <<>> /\ OnCourse(proc[p])
        /\ imap \subseteq Nums /\ zmap \subseteq Zones
        /\ panicked \in BOOLEAN /\ raced \in BOOLEAN /\ (~raced => InodesInUse)
    BY <1>1, AtLabel
  <1>3. /\ m \in Nums /\ proc[p].ino = 0 /\ op \in Ops /\ proc[p].rest # <<>>
        /\ proc[p].rest \in Seq(FileNames) /\ proc[p].dir \in NumOr0 /\ proc[p].old \in NumOr0
        /\ (proc[p].old # 0 => op = "link")
        /\ IF op \in Takes /\ Len(proc[p].rest) = 1 THEN proc[p].dir # 0 ELSE proc[p].dir = 0
        /\ Len(proc[p].rest) = 1 => op \notin {"excl", "mknod", "mkdir"} /\ proc[p].old = 0
    BY <1>2, CallRecFields DEF HasAt, NumOr0
  <1>4. /\ r \in CallRecs /\ r.inr = 0 /\ r.dir = proc[p].dir /\ r.ino = 0 /\ r.old = proc[p].old /\ r.res = 0
        /\ r.fd = proc[p].fd /\ r.op = op /\ r.rest = proc[p].rest /\ r.new = proc[p].new /\ r.puts = <<>>
    BY <1>2, <1>3 DEF CallRecs, NumOr0
  <1>5. inode' \in [Nums -> InodeRecs] /\ \A n \in Nums : inode'[n].count = inode[n].count + Is(m, n)
    BY <1>1, <1>2, <1>3, CountUp
  <1>6. ~raced' => ~raced /\ 1 \in imap' /\ \A n \in Nums \ imap' : inode'[n].count = 0
    <2> HAVE ~raced'
    <2>1. ~raced /\ m \in imap /\ InodesInUse
      BY <1>1, <1>2
    <2>2. ASSUME NEW n \in Nums \ imap' PROVE inode'[n].count = 0
      <3>1. inode[n].count = 0 /\ Is(m, n) = 0
        BY <1>1, <2>1 DEF InodesInUse, Is
      <3> QED BY <1>5, <3>1
    <2> QED BY <1>1, <2>1, <2>2 DEF InodesInUse
  <1>7. raced' \in BOOLEAN
    BY <1>1, <1>2, Zenon
  <1>8. /\ imap' \subseteq Nums /\ zmap' \subseteq Zones /\ panicked' \in BOOLEAN
        /\ held' \in [Procs -> 0 .. 1] /\ (\A t \in Procs \ {p} : held'[t] = held[t]) /\ held'[p] = held[p]
    BY <1>1, <1>2
  <1>9. \A n \in Nums : /\ inode[n].count \in Int /\ Is(m, n) \in Int /\ Is(proc[p].dir, n) \in Int
                        /\ Is(proc[p].old, n) \in Int /\ Is(0, n) = 0
    BY <1>2, InodeRecFields, IsFacts
  <1>10. LET w == proc[p].rest IN
         /\ Len(w) = 1 \/ Len(w) > 1
         /\ Len(w) = 1 => ~(Len(w) > 1)
         /\ Len(w) > 1 => Tail(w) \in Seq(FileNames) /\ Tail(w) # <<>> /\ Len(w) # 1
    BY <1>3, PathLeft
  <1>11. \/ /\ op \in Takes /\ Len(proc[p].rest) = 1 /\ UNCHANGED fvars
            /\ Become(p, [r EXCEPT !.pc = "got", !.ino = m])
         \/ /\ Len(proc[p].rest) > 1 /\ UNCHANGED fvars
            /\ Become(p, [r EXCEPT !.pc = "walk", !.dir = m, !.rest = Tail(proc[p].rest)])
         \/ Len(proc[p].rest) = 1 /\ op \notin Takes /\ PutThen(p, <<m>>, r, "idle") /\ UNCHANGED fvars
         \/ Len(proc[p].rest) = 1 /\ op \in {"open", "read"} /\ Ends(p, m)
         \/ /\ Len(proc[p].rest) = 1 /\ op \in {"open", "read"} /\ UNCHANGED fvars
            /\ Become(p, [r EXCEPT !.pc = "change", !.ino = m])
         \/ /\ Len(proc[p].rest) = 1 /\ op = "link" /\ UNCHANGED fvars
            /\ Become(p, [r EXCEPT !.pc = "again", !.old = m])
    <2>1. op \in {"open", "read", "namei", "unlink", "rmdir", "link"} \/ Len(proc[p].rest) # 1
      BY <1>3 DEF Ops
    <2>2. Len(proc[p].rest) > 1 \/ Len(proc[p].rest) = 1
      BY <1>10, Zenon
    <2>3. CASE Len(proc[p].rest) > 1
      <3>1. Len(r.rest) > 1 /\ Len(r.rest) # 1 /\ r.rest = proc[p].rest
        BY <1>4, <1>10, <2>3
      <3>2. UNCHANGED fvars /\ Become(p, [r EXCEPT !.pc = "walk", !.dir = m, !.rest = Tail(r.rest)])
        BY <3>1 DEF Iget
      <3> QED BY <2>3, <3>1, <3>2
    <2>4. CASE Len(proc[p].rest) = 1
      <3>1. Len(r.rest) = 1 /\ ~(Len(r.rest) > 1)
        BY <1>4, <1>10, <2>4
      <3>2. CASE op \in {"unlink", "rmdir"}
        BY <2>4, <3>1, <3>2 DEF Iget, Takes
      <3>3. CASE op \in {"open", "read"}
        BY <2>4, <3>1, <3>3 DEF Iget, Takes
      <3>4. CASE op = "namei"
        BY <2>4, <3>1, <3>4 DEF Iget, Takes
      <3>5. CASE op = "link"
        BY <2>4, <3>1, <3>5 DEF Iget, Takes
      <3> QED BY <2>1, <2>4, <3>2, <3>3, <3>4, <3>5
    <2> QED BY <2>2, <2>3, <2>4
  <1> HIDE DEF r
  <1>12. CASE /\ op \in Takes /\ Len(proc[p].rest) = 1 /\ UNCHANGED fvars
              /\ Become(p, [r EXCEPT !.pc = "got", !.ino = m])
    <2> DEFINE s == [r EXCEPT !.pc = "got", !.ino = m]
    <2>1. proc' = [proc EXCEPT ![p] = s]
      BY <1>12 DEF Become
    <2>2. /\ s \in CallRecs /\ s.dir = proc[p].dir /\ s.ino = m /\ s.old = proc[p].old /\ s.res = 0
          /\ s.fd = proc[p].fd /\ s.op = op /\ s.rest = proc[p].rest /\ s.new = proc[p].new /\ s.puts = <<>>
          /\ s.pc = "got"
      BY <1>3, <1>4 DEF CallRecs, CallLabels, NumOr0
    <2> HIDE DEF s
    <2>3. proc[p].old = 0 /\ proc[p].dir # 0 /\ m # 0 /\ op # "link"
      BY <1>3, <1>12, NamesConstants DEF Takes
    <2>4. HasAt(s, "got")
      BY <1>12, <2>2, <2>3 DEF HasAt
    <2>5. OnCourse(s) /\ Buffered(s) /\ Buffered(proc[p])
      BY <1>2, <1>12, <2>2, <2>4 DEF OnCourse, Buffered
    <2>6. ASSUME NEW n \in Nums
          PROVE  inode'[n].count = inode[n].count + Share(s, n) - Share(proc[p], n)
      <3>1. DueTo(<<>>, n) = 0
        BY DEF DueTo
      <3>2. Share(s, n) = Is(proc[p].dir, n) + Is(m, n)
        BY <1>9, <2>2, <2>3, <3>1 DEF Share
      <3>3. Share(proc[p], n) = Is(proc[p].dir, n)
        BY <1>2, <1>3, <1>9, <2>3
      <3> QED BY <1>5, <1>9, <3>2, <3>3
    <2>7. ~raced' =>
             /\ ~raced
             /\ \A n \in Nums : inode'[n].count = inode[n].count + Share(s, n) - Share(proc[p], n)
             /\ 1 \in imap' /\ \A n \in Nums \ imap' : inode'[n].count = 0
      BY <1>6, <2>6
    <2>8. held'[p] = IF Buffered(s) THEN 1 ELSE 0
      BY <1>2, <1>8, <2>5
    <2> QED BY <1>5, <1>7, <1>8, <1>12, <2>1, <2>2, <2>5, <2>7, <2>8, CallStep, Zenon
  <1>13. CASE /\ Len(proc[p].rest) > 1 /\ UNCHANGED fvars
              /\ Become(p, [r EXCEPT !.pc = "walk", !.dir = m, !.rest = Tail(proc[p].rest)])
    <2> DEFINE w == Tail(proc[p].rest)  s == [r EXCEPT !.pc = "walk", !.dir = m, !.rest = w]
    <2>1. proc' = [proc EXCEPT ![p] = s]
      BY <1>13 DEF Become
    <2>2. w \in Seq(FileNames) /\ w # <<>>
      BY <1>10, <1>13, Zenon
    <2> HIDE DEF w
    <2>3. /\ s \in CallRecs /\ s.dir = m /\ s.ino = 0 /\ s.old = proc[p].old /\ s.res = 0
          /\ s.fd = proc[p].fd /\ s.op = op /\ s.rest = w /\ s.new = proc[p].new
          /\ s.puts = <<>> /\ s.pc = "walk"
      BY <1>3, <1>4, <2>2 DEF CallRecs, CallLabels, NumOr0
    <2> HIDE DEF s
    <2>4. proc[p].dir = 0 /\ m # 0 /\ Len(proc[p].rest) # 1
      <3>1. Len(proc[p].rest) # 1
        BY <1>10, <1>13, Zenon
      <3> QED BY <1>3, <3>1, NamesConstants
    <2>5. HasAt(s, "walk")
      BY <1>2, <1>3, <2>2, <2>3, <2>4 DEF HasAt
    <2>6. OnCourse(s) /\ ~Buffered(s) /\ ~Buffered(proc[p])
      BY <1>2, <2>3, <2>4, <2>5 DEF OnCourse, Buffered
    <2>7. ASSUME NEW n \in Nums
          PROVE  inode'[n].count = inode[n].count + Share(s, n) - Share(proc[p], n)
      <3>1. DueTo(<<>>, n) = 0
        BY DEF DueTo
      <3>2. Share(s, n) = Is(m, n) + Is(proc[p].old, n)
        BY <1>9, <2>3, <3>1 DEF Share
      <3>3. Share(proc[p], n) = Is(proc[p].old, n)
        BY <1>2, <1>3, <1>9, <2>4
      <3> QED BY <1>5, <1>9, <3>2, <3>3
    <2>8. ~raced' =>
             /\ ~raced
             /\ \A n \in Nums : inode'[n].count = inode[n].count + Share(s, n) - Share(proc[p], n)
             /\ 1 \in imap' /\ \A n \in Nums \ imap' : inode'[n].count = 0
      BY <1>6, <2>7
    <2>9. held'[p] = IF Buffered(s) THEN 1 ELSE 0
      BY <1>2, <1>8, <2>6
    <2> QED BY <1>5, <1>7, <1>8, <1>13, <2>1, <2>3, <2>6, <2>8, <2>9, CallStep, Zenon
  <1>14. CASE Len(proc[p].rest) = 1 /\ op \notin Takes /\ PutThen(p, <<m>>, r, "idle") /\ UNCHANGED fvars
    <2>1. proc[p].old = 0 /\ proc[p].dir = 0 /\ ~Buffered(proc[p])
      BY <1>2, <1>3, <1>14 DEF Buffered
    <2>2. HasAt(r, "idle")
      BY <1>2, <1>4, <2>1 DEF HasAt
    <2>3. /\ <<m>> \in Seq(Nums) /\ <<m>> # <<>> /\ Len(<<m>>) <= 2
          /\ \A n \in Nums : DueTo(<<m>>, n) = Is(m, n)
      BY <1>3, DueOne
    <2>4. ASSUME NEW n \in Nums
          PROVE  inode'[n].count = inode[n].count + Is(r.dir, n) + Is(r.ino, n)
                                   + Is(r.old, n) + Is(r.res, n) + DueTo(<<m>>, n) - Share(proc[p], n)
      <3>1. Share(proc[p], n) = 0
        BY <1>2, <1>3, <1>9, <2>1
      <3>2. Is(r.dir, n) = 0 /\ Is(r.ino, n) = 0 /\ Is(r.old, n) = 0 /\ Is(r.res, n) = 0
        BY <1>4, <1>9, <2>1
      <3> QED BY <1>5, <1>9, <2>3, <3>1, <3>2
    <2>5. ~raced' =>
             /\ ~raced
             /\ \A n \in Nums : inode'[n].count = inode[n].count + Is(r.dir, n) + Is(r.ino, n)
                                   + Is(r.old, n) + Is(r.res, n) + DueTo(<<m>>, n) - Share(proc[p], n)
             /\ 1 \in imap' /\ \A n \in Nums \ imap' : inode'[n].count = 0
      BY <1>6, <2>4
    <2>6. held'[p] = 0 /\ "idle" \in {"idle", "iget", "unmake", "linked"} /\ ~("idle" = "iget")
      BY <1>2, <1>8, <2>1
    <2> QED BY <1>4, <1>5, <1>7, <1>8, <1>14, <2>2, <2>3, <2>5, <2>6, PutStep, Zenon
  <1>15. CASE Len(proc[p].rest) = 1 /\ op \in {"open", "read"} /\ Ends(p, m)
    <2>1. proc[p].old = 0 /\ proc[p].dir = 0 /\ ~Buffered(proc[p]) /\ proc[p].fd # 0 /\ m \in NumOr0
      BY <1>2, <1>3, <1>15 DEF Buffered, Takes, OnCourse, Opens, NumOr0
    <2>2. ASSUME NEW n \in Nums
          PROVE  inode'[n].count = inode[n].count + Is(m, n) - Share(proc[p], n)
      <3>1. Share(proc[p], n) = 0
        BY <1>2, <1>3, <1>9, <2>1
      <3> QED BY <1>5, <1>9, <3>1
    <2>3. ~raced' =>
             /\ ~raced
             /\ \A n \in Nums : inode'[n].count = inode[n].count + Is(m, n) - Share(proc[p], n)
             /\ 1 \in imap' /\ \A n \in Nums \ imap' : inode'[n].count = 0
      BY <1>6, <2>2
    <2>4. held'[p] = 0
      BY <1>2, <1>8, <2>1
    <2> QED BY <1>5, <1>7, <1>8, <1>15, <2>1, <2>3, <2>4, EndStep, Zenon
  <1>16. CASE /\ Len(proc[p].rest) = 1 /\ op = "link" /\ UNCHANGED fvars
              /\ Become(p, [r EXCEPT !.pc = "again", !.old = m])
    <2> DEFINE s == [r EXCEPT !.pc = "again", !.old = m]
    <2>1. proc' = [proc EXCEPT ![p] = s]
      BY <1>16 DEF Become
    <2>2. /\ s \in CallRecs /\ s.dir = proc[p].dir /\ s.ino = 0 /\ s.old = m /\ s.res = 0
          /\ s.fd = proc[p].fd /\ s.op = op /\ s.rest = proc[p].rest /\ s.new = proc[p].new /\ s.puts = <<>>
          /\ s.pc = "again"
      BY <1>3, <1>4 DEF CallRecs, CallLabels, NumOr0
    <2> HIDE DEF s
    <2>3. proc[p].old = 0 /\ proc[p].dir = 0 /\ m # 0 /\ op \notin Takes
      BY <1>3, <1>16, NamesConstants DEF Takes
    <2>4. HasAt(s, "again")
      BY <1>2, <1>16, <2>2, <2>3 DEF HasAt
    <2>5. OnCourse(s) /\ ~Buffered(s) /\ ~Buffered(proc[p])
      BY <1>2, <1>16, <2>2, <2>3, <2>4 DEF OnCourse, Buffered
    <2>6. ASSUME NEW n \in Nums
          PROVE  inode'[n].count = inode[n].count + Share(s, n) - Share(proc[p], n)
      <3>1. DueTo(<<>>, n) = 0
        BY DEF DueTo
      <3>2. Share(s, n) = Is(m, n)
        BY <1>9, <2>2, <2>3, <3>1 DEF Share
      <3>3. Share(proc[p], n) = 0
        BY <1>2, <1>3, <1>9, <2>3
      <3> QED BY <1>5, <1>9, <3>2, <3>3
    <2>7. ~raced' =>
             /\ ~raced
             /\ \A n \in Nums : inode'[n].count = inode[n].count + Share(s, n) - Share(proc[p], n)
             /\ 1 \in imap' /\ \A n \in Nums \ imap' : inode'[n].count = 0
      BY <1>6, <2>6
    <2>8. held'[p] = IF Buffered(s) THEN 1 ELSE 0
      BY <1>2, <1>8, <2>5
    <2> QED BY <1>5, <1>7, <1>8, <1>16, <2>1, <2>2, <2>5, <2>7, <2>8, CallStep, Zenon
  <1>17. CASE /\ Len(proc[p].rest) = 1 /\ op \in {"open", "read"} /\ UNCHANGED fvars
              /\ Become(p, [r EXCEPT !.pc = "change", !.ino = m])
    <2> DEFINE s == [r EXCEPT !.pc = "change", !.ino = m]
    <2>1. proc' = [proc EXCEPT ![p] = s]
      BY <1>17 DEF Become
    <2>2. /\ s \in CallRecs /\ s.dir = proc[p].dir /\ s.ino = m /\ s.old = proc[p].old /\ s.res = 0
          /\ s.fd = proc[p].fd /\ s.op = op /\ s.rest = proc[p].rest /\ s.new = proc[p].new /\ s.puts = <<>>
          /\ s.pc = "change"
      BY <1>3, <1>4 DEF CallRecs, CallLabels, NumOr0
    <2> HIDE DEF s
    <2>3. proc[p].old = 0 /\ proc[p].dir = 0 /\ m # 0 /\ op \notin Takes
      BY <1>3, <1>17, NamesConstants DEF Takes
    <2>4. HasAt(s, "change")
      BY <1>17, <2>2, <2>3 DEF HasAt, Opens
    <2>5. OnCourse(s) /\ ~Buffered(s) /\ ~Buffered(proc[p])
      BY <1>2, <1>17, <2>2, <2>3, <2>4 DEF OnCourse, Buffered
    <2>6. ASSUME NEW n \in Nums
          PROVE  inode'[n].count = inode[n].count + Share(s, n) - Share(proc[p], n)
      <3>1. DueTo(<<>>, n) = 0
        BY DEF DueTo
      <3>2. Share(s, n) = Is(m, n)
        BY <1>9, <2>2, <2>3, <3>1 DEF Share
      <3>3. Share(proc[p], n) = 0
        BY <1>2, <1>3, <1>9, <2>3
      <3> QED BY <1>5, <1>9, <3>2, <3>3
    <2>7. ~raced' =>
             /\ ~raced
             /\ \A n \in Nums : inode'[n].count = inode[n].count + Share(s, n) - Share(proc[p], n)
             /\ 1 \in imap' /\ \A n \in Nums \ imap' : inode'[n].count = 0
      BY <1>6, <2>6
    <2>8. held'[p] = IF Buffered(s) THEN 1 ELSE 0
      BY <1>2, <1>8, <2>5
    <2> QED BY <1>5, <1>7, <1>8, <1>17, <2>1, <2>2, <2>5, <2>7, <2>8, CallStep, Zenon
  <1> QED BY <1>11, <1>12, <1>13, <1>14, <1>15, <1>16, <1>17

\* sys_open ends with the reference m that the call has in hand.
LEMMA EndQuietly ==
    ASSUME NamesInv, NEW p \in Procs, NEW m \in Nums, Ends(p, m), proc[p].fd # 0,
           NEW l, At(p, l), l # "puts", ~Buffered(proc[p]),
           UNCHANGED <<inode, imap, zmap, held, panicked, raced>>,
           \A n \in Nums : Share(proc[p], n) = Is(m, n)
    PROVE  NamesInv'
  <1>1. /\ held \in [Procs -> 0 .. 1] /\ held[p] = 0
        /\ inode \in [Nums -> InodeRecs] /\ imap \subseteq Nums /\ zmap \subseteq Zones
        /\ panicked \in BOOLEAN /\ raced \in BOOLEAN /\ (~raced => InodesInUse)
    BY AtLabel
  <1>2. /\ inode' = inode /\ imap' = imap /\ zmap' = zmap /\ panicked' = panicked /\ raced' = raced
        /\ held' = held
    OBVIOUS
  <1>3. ASSUME NEW n \in Nums PROVE inode'[n].count = inode[n].count + Is(m, n) - Share(proc[p], n)
    <2>1. inode[n].count \in Int /\ Is(m, n) \in Int /\ Share(proc[p], n) = Is(m, n)
      BY <1>1, InodeRecFields, IsFacts
    <2> QED BY <1>2, <2>1
  <1>4. ~raced' =>
             /\ ~raced
             /\ \A n \in Nums : inode'[n].count = inode[n].count + Is(m, n) - Share(proc[p], n)
             /\ 1 \in imap' /\ \A n \in Nums \ imap' : inode'[n].count = 0
    BY <1>1, <1>2, <1>3 DEF InodesInUse
  <1>5. /\ held' \in [Procs -> 0 .. 1] /\ (\A t \in Procs \ {p} : held'[t] = held[t]) /\ held'[p] = 0
        /\ inode' \in [Nums -> InodeRecs] /\ imap' \subseteq Nums /\ zmap' \subseteq Zones
        /\ panicked' \in BOOLEAN /\ raced' \in BOOLEAN /\ m \in NumOr0
    BY <1>1, <1>2 DEF NumOr0
  <1> QED BY <1>4, <1>5, EndStep, Zenon

\* sys_open ends, after check_disk_change.
LEMMA DiskChangeKeeps ==
    ASSUME NamesInv, NEW p \in Procs, DiskChange(p)
    PROVE  NamesInv'
  <1> DEFINE m == proc[p].ino
  <1>1. At(p, "change") /\ Ends(p, m) /\ UNCHANGED <<inode, imap, zmap, held, panicked, raced>>
    BY DEF DiskChange
  <1>2. /\ proc[p] \in CallRecs /\ HasAt(proc[p], "change") /\ proc[p].pc = "change" /\ OnCourse(proc[p])
        /\ \A n \in Nums : Share(proc[p], n) = Is(proc[p].dir, n) + Is(proc[p].ino, n) + Is(proc[p].old, n)
    BY <1>1, AtLabel
  <1>3. m \in Nums /\ proc[p].dir = 0 /\ proc[p].old = 0 /\ proc[p].fd # 0 /\ ~Buffered(proc[p])
    BY <1>2, CallRecFields DEF HasAt, NumOr0, OnCourse, Buffered
  <1>4. ASSUME NEW n \in Nums PROVE Share(proc[p], n) = Is(m, n)
    <2>1. Is(proc[p].dir, n) = 0 /\ Is(m, n) \in Int /\ Is(proc[p].old, n) = 0
      BY <1>3, IsFacts
    <2> QED BY <1>2, <2>1
  <1> QED BY <1>1, <1>3, <1>4, EndQuietly

\* get_dir enters the directory or gives up.
LEMMA WalkKeeps ==
    ASSUME NamesInv, NEW p \in Procs, Walk(p)
    PROVE  NamesInv'
  <1> DEFINE d == proc[p].dir  o == proc[p].old  bare == proc[p].rest = <<"">>
             fits == inode[d].isdir /\ permission(d)
  <1>1. At(p, "walk") /\ UNCHANGED <<inode, imap, zmap, held, panicked, raced>>
    BY DEF Walk
  <1>2. /\ proc[p] \in CallRecs /\ HasAt(proc[p], "walk") /\ proc[p].pc = "walk"
        /\ held \in [Procs -> 0 .. 1] /\ held[p] = IF Buffered(proc[p]) THEN 1 ELSE 0
        /\ \A n \in Nums : Share(proc[p], n) = Is(d, n) + Is(proc[p].ino, n) + Is(o, n)
        /\ inode \in [Nums -> InodeRecs] /\ imap \subseteq Nums /\ zmap \subseteq Zones
        /\ panicked \in BOOLEAN /\ raced \in BOOLEAN /\ (~raced => InodesInUse) /\ OnCourse(proc[p])
    BY <1>1, AtLabel
  <1>3. d \in Nums /\ o \in NumOr0 /\ proc[p].ino = 0 /\ ~Buffered(proc[p]) /\ (o # 0 => proc[p].op = "link")
    BY <1>2, CallRecFields DEF HasAt, NumOr0, Buffered
  <1>s. ASSUME NEW n \in Nums PROVE Share(proc[p], n) = Is(d, n) + Is(o, n)
    <2>1. Is(proc[p].ino, n) = 0 /\ Is(d, n) \in Int /\ Is(o, n) \in Int
      BY <1>3, IsFacts
    <2> QED BY <1>2, <2>1
  <1>h. held' \in [Procs -> 0 .. 1] /\ (\A t \in Procs \ {p} : held'[t] = held[t]) /\ held'[p] = 0
    BY <1>1, <1>2, <1>3
  <1>4. CASE ~fits
    <2> DEFINE q == IF o = 0 THEN <<d>> ELSE <<d, o>>
    <2>1. Fail(p, q) /\ UNCHANGED fvars
      BY <1>4 DEF Walk
    <2>q. q = DirOld(d, o)
      BY DEF DirOld
    <2> HIDE DEF q
    <2>2. /\ q \in Seq(Nums) /\ q # <<>> /\ Len(q) <= 2
          /\ \A n \in Nums : DueTo(q, n) = Is(d, n) + Is(o, n)
      BY <1>3, <2>q, DirAndOld
    <2>3. \A n \in Nums : DueTo(q, n) = Share(proc[p], n)
      BY <1>s, <2>2
    <2>4. UNCHANGED <<inode, imap, zmap, panicked, raced, fvars>>
      BY <1>1, <2>1
    <2> QED BY <1>1, <1>h, <2>1, <2>2, <2>3, <2>4, FailQuietly
  <1>5. CASE fits /\ bare /\ proc[p].op = "read"
    <2>1. Ends(p, d)
      BY <1>5 DEF Walk
    <2>2. o = 0 /\ proc[p].fd # 0
      BY <1>2, <1>3, <1>5 DEF OnCourse, Opens
    <2>3. ASSUME NEW n \in Nums PROVE Share(proc[p], n) = Is(d, n)
      <3>1. Is(o, n) = 0 /\ Is(d, n) \in Int
        BY <2>2, IsFacts
      <3> QED BY <1>s, <3>1
    <2> QED BY <1>1, <1>3, <2>1, <2>2, <2>3, EndQuietly
  <1>6. CASE fits /\ bare /\ proc[p].op # "read"
    <2> DEFINE q == IF o = 0 THEN <<d>> ELSE <<o, d>>
    <2>1. Fail(p, q) /\ UNCHANGED fvars
      BY <1>6 DEF Walk
    <2>q. q = OldDir(d, o)
      BY DEF OldDir
    <2> HIDE DEF q
    <2>2. /\ q \in Seq(Nums) /\ q # <<>> /\ Len(q) <= 2
          /\ \A n \in Nums : DueTo(q, n) = Is(d, n) + Is(o, n)
      BY <1>3, <2>q, OldAndDir
    <2>3. \A n \in Nums : DueTo(q, n) = Share(proc[p], n)
      BY <1>s, <2>2
    <2>4. UNCHANGED <<inode, imap, zmap, panicked, raced, fvars>>
      BY <1>1, <2>1
    <2> QED BY <1>1, <1>h, <2>1, <2>2, <2>3, <2>4, FailQuietly
  <1>7. CASE fits /\ ~bare
    <2> DEFINE l == IF Len(proc[p].rest) = 1 THEN "find" ELSE "step"
               sc == SearchAt(0, Len(inode[d].ents), 0)
    <2>1. Goto(p, l, sc) /\ UNCHANGED fvars
      BY <1>7 DEF Walk
    <2>2. HasAt(proc[p], l) /\ l \in CallLabels
      BY <1>2 DEF HasAt, CallLabels
    <2>3. l \notin {"puts", "idle", "iget", "got", "empty", "init", "extend"}
      OBVIOUS
    <2>4. sc \in ScanRecs
      <3>1. inode[d].ents \in Seq(EntryRecs)
        BY <1>2, <1>3, InodeRecFields
      <3>2. Len(inode[d].ents) \in Nat
        BY <3>1
      <3> QED BY <3>2, ScanTyped
    <2> HIDE DEF l, sc
    <2>5. UNCHANGED <<inode, imap, zmap, held, panicked, raced, fvars>>
      BY <1>1, <2>1
    <2> QED BY <1>1, <1>3, <2>1, <2>2, <2>3, <2>4, <2>5, GotoQuietly
  <1> QED BY <1>4, <1>5, <1>6, <1>7

\* A reference on the way to iput is counted, and the root has one more.
LEMMA DueCounted ==
    ASSUME NamesInv, ~raced, NEW p \in Procs, proc[p].puts # <<>>
    PROVE  LET n == Head(proc[p].puts) IN
           n \in Nums /\ inode[n].count >= 1 /\ (n = 1 => inode[n].count >= 2)
  <1> DEFINE n == Head(proc[p].puts)
             Dir == {q \in Procs : proc[q].dir = n}  Ino == {q \in Procs : proc[q].ino = n}
             Old == {q \in Procs : proc[q].old = n}  Res == {q \in Procs : proc[q].res = n}
             One == {q \in Procs : Len(proc[q].puts) >= 1 /\ proc[q].puts[1] = n}
             Two == {q \in Procs : Len(proc[q].puts) >= 2 /\ proc[q].puts[2] = n}
             C(S) == Cardinality(S)
  <1>1. proc[p].puts \in Seq(Nums)
    BY CallRecFields DEF NamesInv, NamesTyped
  <1>2. n \in Nums /\ n = proc[p].puts[1] /\ Len(proc[p].puts) >= 1
    BY <1>1
  <1>3. C(Dir) \in Nat /\ C(Ino) \in Nat /\ C(Old) \in Nat /\ C(Res) \in Nat /\ C(One) \in Nat /\ C(Two) \in Nat
    BY NamesConstants, FS_Subset, FS_CardinalityType
  <1>4. IsFiniteSet(One) /\ p \in One
    BY <1>2, NamesConstants, FS_Subset
  <1>5. C(One) # 0
    BY <1>4, FS_EmptySet
  <1>6. HandRefs(n) = C(Dir) + C(Ino) + C(Old) + C(Res) + C(One) + C(Two)
    BY DEF HandRefs
  <1>7. inode[n].count = (IF n = 1 THEN 1 ELSE 0) + HandRefs(n) + FileRefs(file, n)
    BY <1>2 DEF NamesInv, InodesCounted
  <1>8. FileRefs(file, n) \in Nat
    BY FileRefsNat
  <1> HIDE DEF n, Dir, Ino, Old, Res, One, Two, C
  <1>9. HandRefs(n) \in Nat /\ HandRefs(n) >= 1
    BY <1>3, <1>5, <1>6
  <1>10. inode[n].count >= 1 /\ (n = 1 => inode[n].count >= 2)
    BY <1>7, <1>8, <1>9
  <1> QED BY <1>2, <1>10 DEF n

\* iput: i_count goes down by one, and what is free has none.
LEMMA PutCounts ==
    ASSUME NamesInv, NEW p \in Procs, Put(p)
    PROVE  LET m == Head(proc[p].puts) IN
           /\ m \in Nums /\ inode' \in [Nums -> InodeRecs] /\ imap' \subseteq Nums /\ zmap' \subseteq Zones
           /\ panicked' \in BOOLEAN
           /\ ~raced => /\ \A n \in Nums : inode'[n].count = inode[n].count - Is(m, n)
                        /\ 1 \in imap' /\ \A n \in Nums \ imap' : inode'[n].count = 0
  <1> DEFINE m == Head(proc[p].puts)  z == IF inode[m].isdir THEN ZonesOf(m) ELSE {}
  <1>1. /\ inode \in [Nums -> InodeRecs] /\ imap \subseteq Nums /\ zmap \subseteq Zones
        /\ panicked \in BOOLEAN /\ proc[p].puts \in Seq(Nums) /\ (~raced => InodesInUse)
    BY CallRecFields DEF NamesInv, NamesTyped
  <1>2. proc[p].puts # <<>>
    BY DEF Put
  <1>3. m \in Nums
    BY <1>1, <1>2
  <1>4. ~raced => inode[m].count >= 1 /\ (m = 1 => inode[m].count >= 2)
    BY <1>2, DueCounted
  <1>5. inode[m] \in InodeRecs /\ inode[m].count \in Nat
    BY <1>1, <1>3, InodeRecFields
  <1>6. ASSUME NEW n \in Nums
        PROVE  inode[n].count \in Nat /\ (n = m => Is(m, n) = 1) /\ (n # m => Is(m, n) = 0)
    BY <1>1, InodeRecFields DEF Is
  <1>7. \/ inode[m].count = 0 /\ panicked' = TRUE /\ UNCHANGED <<inode, imap, zmap>>
        \/ /\ inode[m].count = 1 /\ panicked' = ~(z \subseteq zmap) /\ zmap' = zmap \ z
           /\ imap' = imap \ {m} /\ inode' = [inode EXCEPT ![m] = Blank]
        \/ /\ inode[m].count # 0 /\ inode' = [inode EXCEPT ![m].count = @ - 1]
           /\ UNCHANGED <<imap, zmap, panicked>>
    BY DEF Put
  <1> HIDE DEF m, z
  <1>8. CASE inode[m].count = 0 /\ panicked' = TRUE /\ UNCHANGED <<inode, imap, zmap>>
    <2>1. raced
      BY <1>4, <1>8
    <2> QED BY <1>1, <1>3, <1>8, <2>1 DEF m
  <1>9. CASE /\ inode[m].count = 1 /\ panicked' = ~(z \subseteq zmap) /\ zmap' = zmap \ z
             /\ imap' = imap \ {m} /\ inode' = [inode EXCEPT ![m] = Blank]
    <2>1. panicked' \in BOOLEAN
      BY <1>9, Zenon
    <2>2. imap' \subseteq Nums /\ zmap' \subseteq Zones
      BY <1>1, <1>9
    <2>3. inode' \in [Nums -> InodeRecs] /\ inode'[m].count = 0 /\ \A n \in Nums : n # m => inode'[n] = inode[n]
      BY <1>1, <1>3, <1>9, BlankInode
    <2>4. ASSUME ~raced PROVE m # 1
      BY <1>4, <1>9, <2>4
    <2>5. ASSUME NEW n \in Nums PROVE inode'[n].count = inode[n].count - Is(m, n)
      BY <1>6, <1>9, <2>3
    <2>6. ASSUME ~raced PROVE 1 \in imap' /\ \A n \in Nums \ imap' : inode'[n].count = 0
      BY <1>1, <1>9, <2>3, <2>4, <2>6 DEF InodesInUse
    <2> QED BY <1>3, <2>1, <2>2, <2>3, <2>5, <2>6 DEF m
  <1>10. CASE /\ inode[m].count # 0 /\ inode' = [inode EXCEPT ![m].count = @ - 1]
              /\ UNCHANGED <<imap, zmap, panicked>>
    <2> DEFINE e == [inode[m] EXCEPT !.count = inode[m].count - 1]
    <2>1. inode[m].count - 1 \in Nat
      BY <1>5, <1>10
    <2>2. e \in InodeRecs /\ e.count = inode[m].count - 1
      BY <1>5, <2>1 DEF InodeRecs
    <2>3. inode' = [inode EXCEPT ![m] = e]
      BY <1>10
    <2> HIDE DEF e
    <2>4. /\ inode' \in [Nums -> InodeRecs] /\ inode'[m].count = inode[m].count - 1
          /\ \A n \in Nums : n # m => inode'[n] = inode[n]
      BY <1>1, <1>3, <2>2, <2>3
    <2>5. ASSUME NEW n \in Nums PROVE inode'[n].count = inode[n].count - Is(m, n)
      BY <1>6, <2>4
    <2>6. ASSUME ~raced PROVE 1 \in imap' /\ \A n \in Nums \ imap' : inode'[n].count = 0
      BY <1>1, <1>10, <2>4, <2>6 DEF InodesInUse
    <2> QED BY <1>1, <1>3, <1>10, <2>4, <2>5, <2>6 DEF m
  <1> QED BY <1>7, <1>8, <1>9, <1>10

\* iput of the next reference, and the end of the call after the last one.
LEMMA PutKeeps ==
    ASSUME NamesInv, NEW p \in Procs, Put(p)
    PROVE  NamesInv'
  <1> DEFINE m == Head(proc[p].puts)  q == Tail(proc[p].puts)
  <1>1. /\ m \in Nums /\ inode' \in [Nums -> InodeRecs] /\ imap' \subseteq Nums /\ zmap' \subseteq Zones
        /\ panicked' \in BOOLEAN
        /\ ~raced => /\ \A n \in Nums : inode'[n].count = inode[n].count - Is(m, n)
                     /\ 1 \in imap' /\ \A n \in Nums \ imap' : inode'[n].count = 0
    BY PutCounts
  <1>2. /\ proc[p].pc = "puts" /\ proc[p].puts # <<>> /\ held' = held /\ raced' = raced
    BY DEF Put, At
  <1>3. /\ proc[p] \in CallRecs /\ OnCourse(proc[p]) /\ held \in [Procs -> 0 .. 1] /\ raced \in BOOLEAN
        /\ held[p] = IF Buffered(proc[p]) THEN 1 ELSE 0
        /\ inode \in [Nums -> InodeRecs]
    BY DEF NamesInv, NamesTyped, CallsOnCourse
  <1>4. /\ HasAt(proc[p], proc[p].next) /\ proc[p].next \in {"idle", "iget", "unmake", "linked"}
        /\ proc[p].next = "iget" => ~(proc[p].op \in Takes /\ Len(proc[p].rest) = 1)
        /\ proc[p].res # 0 => proc[p].next = "idle" /\ proc[p].fd # 0
        /\ proc[p].fd # 0 <=> proc[p].op \in Opens
        /\ Len(proc[p].puts) <= 2 /\ proc[p].puts \in Seq(Nums) /\ ~Buffered(proc[p]) /\ proc[p].res \in NumOr0
    BY <1>2, <1>3, CallRecFields DEF OnCourse, Buffered
  <1>5. /\ q \in Seq(Nums) /\ Len(q) <= 2 /\ \A n \in Nums : DueTo(q, n) = DueTo(proc[p].puts, n) - Is(m, n)
    BY <1>2, <1>4, DueTail
  <1>6. /\ held' \in [Procs -> 0 .. 1] /\ (\A t \in Procs \ {p} : held'[t] = held[t]) /\ held'[p] = 0
        /\ raced' \in BOOLEAN
    BY <1>2, <1>3, <1>4
  <1>7. \A n \in Nums : /\ inode[n].count \in Int /\ Is(m, n) \in Int /\ DueTo(q, n) \in Int
                        /\ DueTo(proc[p].puts, n) \in Int /\ Is(0, n) = 0
                        /\ Is(proc[p].dir, n) \in Int /\ Is(proc[p].ino, n) \in Int
                        /\ Is(proc[p].old, n) \in Int /\ Is(proc[p].res, n) \in Int
    <2> TAKE n \in Nums
    <2>1. inode[n].count \in Int /\ DueTo(proc[p].puts, n) \in Int /\ DueTo(q, n) \in Int
      BY <1>3, InodeRecFields DEF DueTo
    <2>2. /\ Is(m, n) \in Int /\ Is(0, n) = 0 /\ Is(proc[p].dir, n) \in Int /\ Is(proc[p].ino, n) \in Int
          /\ Is(proc[p].old, n) \in Int /\ Is(proc[p].res, n) \in Int
      BY NamesConstants DEF Is
    <2> QED BY <2>1, <2>2
  <1>8. \/ q = <<>> /\ proc[p].next = "idle" /\ Ends(p, proc[p].res)
        \/ /\ ~(q = <<>> /\ proc[p].next = "idle") /\ UNCHANGED fvars
           /\ Become(p, [proc[p] EXCEPT !.puts = q, !.pc = IF q = <<>> THEN proc[p].next ELSE "puts"])
    BY DEF Put
  <1> HIDE DEF m, q
  <1>9. CASE q = <<>> /\ proc[p].next = "idle" /\ Ends(p, proc[p].res)
    <2>1. proc[p].dir = 0 /\ proc[p].ino = 0 /\ proc[p].old = 0
      BY <1>4, <1>9 DEF HasAt
    <2>2. ASSUME NEW n \in Nums, ~raced
          PROVE  inode'[n].count = inode[n].count + Is(proc[p].res, n) - Share(proc[p], n)
      <3>1. DueTo(q, n) = 0
        BY <1>9 DEF DueTo
      <3>2. Share(proc[p], n) = Is(proc[p].res, n) + Is(m, n)
        BY <1>5, <1>7, <2>1, <3>1 DEF Share
      <3> QED BY <1>1, <1>7, <2>2, <3>2
    <2>3. ~raced' =>
             /\ ~raced
             /\ \A n \in Nums : inode'[n].count = inode[n].count + Is(proc[p].res, n) - Share(proc[p], n)
             /\ 1 \in imap' /\ \A n \in Nums \ imap' : inode'[n].count = 0
      BY <1>1, <1>2, <2>2
    <2>4. proc[p].res # 0 => proc[p].fd # 0
      BY <1>4
    <2> QED BY <1>1, <1>4, <1>6, <1>9, <2>3, <2>4, EndStep, Zenon
  <1>10. CASE /\ ~(q = <<>> /\ proc[p].next = "idle") /\ UNCHANGED fvars
              /\ Become(p, [proc[p] EXCEPT !.puts = q, !.pc = IF q = <<>> THEN proc[p].next ELSE "puts"])
    <2> DEFINE l == IF q = <<>> THEN proc[p].next ELSE "puts"
               s == [proc[p] EXCEPT !.puts = q, !.pc = l]
    <2>1. l \in CallLabels
      BY <1>3, CallRecFields DEF CallLabels
    <2>2. proc' = [proc EXCEPT ![p] = s]
      BY <1>10 DEF Become
    <2>3. /\ s \in CallRecs /\ s.pc = l /\ s.op = proc[p].op /\ s.rest = proc[p].rest /\ s.new = proc[p].new
          /\ s.dir = proc[p].dir /\ s.inr = proc[p].inr /\ s.ino = proc[p].ino /\ s.old = proc[p].old
          /\ s.puts = q /\ s.next = proc[p].next /\ s.fd = proc[p].fd /\ s.res = proc[p].res
      <3> HIDE DEF l
      <3> QED BY <1>3, <1>5, <2>1 DEF CallRecs
    <2> HIDE DEF s
    <2>4. HasAt(s, proc[p].next)
      BY <1>4, <2>3 DEF HasAt
    <2>5. OnCourse(s) /\ ~Buffered(s)
      <3>1. CASE q = <<>>
        <4>1. s.pc = proc[p].next /\ proc[p].next \in {"iget", "unmake", "linked"} /\ proc[p].res = 0
          BY <1>4, <1>10, <2>3, <3>1
        <4>2. s.puts = <<>> /\ s.pc # "puts" /\ s.pc # "idle" /\ Len(s.puts) <= 2
          BY <1>5, <2>3, <3>1, <4>1
        <4>3. OnCourse(s)
          BY <1>4, <2>3, <2>4, <4>1, <4>2 DEF OnCourse
        <4>4. ~Buffered(s)
          BY <1>4, <2>3, <4>1 DEF Buffered
        <4> QED BY <4>3, <4>4
      <3>2. CASE q # <<>>
        <4>1. s.pc = "puts" /\ s.puts # <<>> /\ Len(s.puts) <= 2
          BY <1>5, <2>3, <3>2
        <4>2. OnCourse(s)
          BY <1>4, <2>3, <2>4, <4>1 DEF OnCourse
        <4>3. ~Buffered(s)
          BY <4>1 DEF Buffered
        <4> QED BY <4>2, <4>3
      <3> QED BY <3>1, <3>2
    <2>6. ASSUME NEW n \in Nums, ~raced
          PROVE  inode'[n].count = inode[n].count + Share(s, n) - Share(proc[p], n)
      <3>1. Share(s, n) = Share(proc[p], n) - Is(m, n)
        BY <1>5, <1>7, <2>3 DEF Share
      <3>2. Share(proc[p], n) \in Int
        BY ShareNat
      <3> QED BY <1>1, <1>7, <2>6, <3>1, <3>2
    <2>7. ~raced' =>
             /\ ~raced
             /\ \A n \in Nums : inode'[n].count = inode[n].count + Share(s, n) - Share(proc[p], n)
             /\ 1 \in imap' /\ \A n \in Nums \ imap' : inode'[n].count = 0
      BY <1>1, <1>2, <2>6
    <2>8. held'[p] = IF Buffered(s) THEN 1 ELSE 0
      BY <1>6, <2>5
    <2> QED BY <1>1, <1>6, <1>10, <2>2, <2>3, <2>5, <2>7, <2>8, CallStep, Zenon
  <1> QED BY <1>8, <1>9, <1>10

-----------------------------------------------------------------------------
\* A process that is in no call has no reference and no buffer.
LEMMA IdleHasNone ==
    ASSUME NamesInv, NEW p \in Procs, At(p, "idle")
    PROVE  /\ proc \in [Procs -> CallRecs] /\ proc[p] \in CallRecs /\ proc[p].pc = "idle"
           /\ proc[p].fd = 0 /\ proc[p].dir = 0 /\ proc[p].ino = 0 /\ proc[p].old = 0 /\ proc[p].res = 0
           /\ proc[p].puts = <<>> /\ OnCourse(proc[p]) /\ HasAt(proc[p], "idle") /\ ~Buffered(proc[p])
           /\ held[p] = 0 /\ \A n \in Nums : Share(proc[p], n) = 0
  <1>1. /\ proc \in [Procs -> CallRecs] /\ proc[p] \in CallRecs /\ OnCourse(proc[p])
        /\ proc[p].pc = "idle" /\ HasAt(proc[p], "idle") /\ proc[p].puts = <<>> /\ proc[p].res = 0
        /\ held[p] = IF Buffered(proc[p]) THEN 1 ELSE 0
        /\ \A n \in Nums : Share(proc[p], n) = Is(proc[p].dir, n) + Is(proc[p].ino, n) + Is(proc[p].old, n)
    BY AtLabel
  <1>2. proc[p].dir = 0 /\ proc[p].ino = 0 /\ proc[p].old = 0 /\ proc[p].fd = 0 /\ ~Buffered(proc[p])
    BY <1>1 DEF HasAt, OnCourse, Buffered
  <1>3. ASSUME NEW n \in Nums PROVE Share(proc[p], n) = 0
    <2>1. Is(0, n) = 0
      BY IsFacts
    <2> QED BY <1>1, <1>2, <2>1
  <1> QED BY <1>1, <1>2, <1>3

\* A file that a process without a call has open: it has an inode, and no
\* sys_open has reserved it.
LEMMA IdleFile ==
    ASSUME NamesInv, NEW p \in Procs, At(p, "idle"), NEW d \in Fds, filp[p][d] # 0
    PROVE  LET f == filp[p][d] IN
           /\ f \in FileNos /\ file[f] \in FileRecs /\ file[f].count \in Nat /\ file[f].count >= 1
           /\ file[f].ino \in Nums
           /\ \A q \in Procs : proc[q].fd # 0 => filp[q][proc[q].fd] # f
  <1> DEFINE f == filp[p][d]
  <1>1. filp \in [Procs -> [Fds -> 0 .. NR_FILE]] /\ file \in [FileNos -> FileRecs]
    BY DEF NamesInv, NamesTyped
  <1>2. f \in FileNos
    BY <1>1, NamesConstants DEF FileNos
  <1>3. file[f] \in FileRecs /\ file[f].count \in Nat /\ file[f].ino \in NumOr0
    BY <1>1, <1>2 DEF FileRecs
  <1>4. <<p, d>> \in Descriptors(f)
    BY DEF Descriptors
  <1>5. Cardinality(Descriptors(f)) # 0
    BY <1>4, DescriptorsFinite, FS_EmptySet
  <1>6. file[f].count = Cardinality(Descriptors(f))
    BY <1>2 DEF NamesInv, FilesCounted
  <1>7. file[f].count >= 1 /\ file[f].count > 0
    BY <1>3, <1>5, <1>6
  <1>8. proc[p].fd = 0
    BY IdleHasNone
  <1>9. ASSUME NEW q \in Procs, proc[q].fd # 0, filp[q][proc[q].fd] = f PROVE FALSE
    <2>1. \A t \in Procs, c \in Fds : filp[t][c] = filp[q][proc[q].fd] => t = q /\ c = proc[q].fd
      BY <1>9 DEF NamesInv, FilesReserved
    <2>2. p = q
      BY <1>9, <2>1
    <2> QED BY <1>8, <1>9, <2>2
  <1>10. file[f].ino # 0
    BY <1>2, <1>7, <1>9 DEF NamesInv, FilesCounted
  <1> QED BY <1>2, <1>3, <1>7, <1>9, <1>10 DEF NumOr0

\* What a step that reserves no file has to see to: f_count follows the
\* descriptors, and the files that sys_open calls have reserved are let alone.
LEMMA FilesKept ==
    ASSUME NamesInv, \A q \in Procs : proc'[q].fd = proc[q].fd,
           \A q \in Procs : proc[q].fd # 0 => filp'[q][proc[q].fd] = filp[q][proc[q].fd],
           \A t \in Procs, c \in Fds :
              filp'[t][c] = filp[t][c]
              \/ \A q \in Procs : proc[q].fd # 0 => filp[q][proc[q].fd] # filp'[t][c],
           \A g \in FileNos : /\ file'[g].count = Cardinality(Descriptors(g)')
                              /\ file'[g].count > 0 => file[g].count > 0 /\ file'[g].ino = file[g].ino
                              /\ file'[g].count = 0 => file'[g].ino = 0
                              /\ file'[g].ino = 0 \/ file'[g].ino = file[g].ino
    PROVE  FilesCounted' /\ FilesReserved'
  <1>1. FilesCounted'
    <2> SUFFICES ASSUME NEW g \in FileNos, file'[g].count > 0, file'[g].ino = 0
                 PROVE  \E q \in Procs : proc'[q].fd # 0 /\ filp'[q][proc'[q].fd] = g
      BY DEF FilesCounted
    <2>1. file[g].count > 0 /\ file[g].ino = 0
      OBVIOUS
    <2>2. PICK q \in Procs : proc[q].fd # 0 /\ filp[q][proc[q].fd] = g
      BY <2>1 DEF NamesInv, FilesCounted
    <2> QED BY <2>2
  <1>2. FilesReserved'
    <2> SUFFICES ASSUME NEW q \in Procs, proc'[q].fd # 0
                 PROVE  /\ filp'[q][proc'[q].fd] # 0 /\ file'[filp'[q][proc'[q].fd]].ino = 0
                        /\ \A t \in Procs, c \in Fds :
                              filp'[t][c] = filp'[q][proc'[q].fd] => t = q /\ c = proc'[q].fd
      BY DEF FilesReserved
    <2> DEFINE x == filp[q][proc[q].fd]
    <2>1. proc'[q].fd = proc[q].fd /\ proc[q].fd # 0 /\ filp'[q][proc'[q].fd] = x
      OBVIOUS
    <2>2. /\ x \in FileNos /\ file[x].ino = 0
          /\ \A t \in Procs, c \in Fds : filp[t][c] = x => t = q /\ c = proc[q].fd
      BY <2>1, Reserved
    <2>3. file'[x].ino = 0 /\ x # 0
      BY <2>2, NamesConstants DEF FileNos
    <2>4. ASSUME NEW t \in Procs, NEW c \in Fds, filp'[t][c] = x PROVE filp[t][c] = x
      BY <2>1, <2>4
    <2> QED BY <2>1, <2>2, <2>3, <2>4
  <1> QED BY <1>1, <1>2

\* A process in no call that takes a step with its files only.
LEMMA IdleStep ==
    ASSUME NamesInv, NEW p \in Procs, At(p, "idle"), NEW r \in CallRecs, OnCourse(r), ~Buffered(r),
           proc' = [proc EXCEPT ![p] = r],
           inode' = inode, imap' = imap, zmap' = zmap, held' = held, raced' = raced, panicked' \in BOOLEAN,
           filp' \in [Procs -> [Fds -> 0 .. NR_FILE]], file' \in [FileNos -> FileRecs],
           FilesCounted', FilesReserved',
           \A n \in Nums : Share(r, n) + FileRefs(file', n) = FileRefs(file, n)
    PROVE  NamesInv'
  <1>1. /\ inode \in [Nums -> InodeRecs] /\ imap \subseteq Nums /\ zmap \subseteq Zones
        /\ held \in [Procs -> 0 .. 1] /\ raced \in BOOLEAN /\ (~raced => InodesInUse)
    BY DEF NamesInv, NamesTyped
  <1>2. held[p] = 0 /\ \A n \in Nums : Share(proc[p], n) = 0
    BY IdleHasNone
  <1>3. ASSUME NEW n \in Nums
        PROVE  inode'[n].count = inode[n].count + Share(r, n) - Share(proc[p], n)
                                   + FileRefs(file', n) - FileRefs(file, n)
    <2>1. inode[n].count \in Nat
      BY <1>1, InodeRecFields
    <2>2. Share(r, n) \in Nat /\ FileRefs(file', n) \in Nat /\ FileRefs(file, n) \in Nat
      BY ShareNat, FileRefsNat
    <2>3. Share(r, n) + FileRefs(file', n) = FileRefs(file, n) /\ Share(proc[p], n) = 0
      BY <1>2
    <2> QED BY <2>1, <2>2, <2>3
  <1>4. ~raced' =>
             /\ ~raced
             /\ \A n \in Nums : inode'[n].count = inode[n].count + Share(r, n) - Share(proc[p], n)
                                   + FileRefs(file', n) - FileRefs(file, n)
             /\ 1 \in imap' /\ \A n \in Nums \ imap' : inode'[n].count = 0
    BY <1>1, <1>3 DEF InodesInUse
  <1>5. /\ held' \in [Procs -> 0 .. 1] /\ (\A q \in Procs \ {p} : held'[q] = held[q])
        /\ held'[p] = (IF Buffered(r) THEN 1 ELSE 0)
        /\ inode' \in [Nums -> InodeRecs] /\ imap' \subseteq Nums /\ zmap' \subseteq Zones /\ raced' \in BOOLEAN
    BY <1>1, <1>2
  <1> QED BY <1>4, <1>5, NamesStep, Zenon

\* sys_close: a descriptor less, and with the last one the file's inode goes.
LEMMA CloseKeeps ==
    ASSUME NamesInv, NEW p \in Procs, Close(p)
    PROVE  NamesInv'
  <1>1. /\ At(p, "idle") /\ inode' = inode /\ imap' = imap /\ zmap' = zmap /\ held' = held /\ raced' = raced
    BY DEF Close
  <1>2. PICK d \in Fds : /\ filp[p][d] # 0 /\ filp' = [filp EXCEPT ![p][d] = 0]
                         /\ IF file[filp[p][d]].count = 0
                            THEN panicked' = TRUE /\ UNCHANGED <<proc, file>>
                            ELSE /\ UNCHANGED panicked
                                 /\ IF file[filp[p][d]].count > 1
                                    THEN file' = [file EXCEPT ![filp[p][d]].count = @ - 1] /\ UNCHANGED proc
                                    ELSE /\ file' = [file EXCEPT ![filp[p][d]] = [count |-> 0, ino |-> 0]]
                                         /\ PutThen(p, <<file[filp[p][d]].ino>>, proc[p], "idle")
    BY DEF Close, FreeFds, Fds
  <1> DEFINE f == filp[p][d]  m == file[f].ino
  <1>3. /\ f \in FileNos /\ file[f] \in FileRecs /\ file[f].count \in Nat /\ file[f].count >= 1 /\ m \in Nums
        /\ \A q \in Procs : proc[q].fd # 0 => filp[q][proc[q].fd] # f
    BY <1>1, <1>2, IdleFile
  <1>4. /\ proc \in [Procs -> CallRecs] /\ proc[p] \in CallRecs /\ proc[p].pc = "idle"
        /\ proc[p].fd = 0 /\ proc[p].dir = 0 /\ proc[p].ino = 0 /\ proc[p].old = 0 /\ proc[p].res = 0
        /\ proc[p].puts = <<>> /\ OnCourse(proc[p]) /\ HasAt(proc[p], "idle") /\ ~Buffered(proc[p])
        /\ \A n \in Nums : Share(proc[p], n) = 0
    BY <1>1, IdleHasNone
  <1>5. /\ filp \in [Procs -> [Fds -> 0 .. NR_FILE]] /\ file \in [FileNos -> FileRecs] /\ panicked \in BOOLEAN
    BY DEF NamesInv, NamesTyped
  <1>6. /\ filp' \in [Procs -> [Fds -> 0 .. NR_FILE]] /\ filp'[p][d] = 0
        /\ \A q \in Procs, c \in Fds : q # p \/ c # d => filp'[q][c] = filp[q][c]
    BY <1>2, <1>5, NamesConstants
  <1>7. ASSUME NEW g \in FileNos
        PROVE  /\ file[g].count \in Nat /\ file[g].count = Cardinality(Descriptors(g))
               /\ file[g].count = 0 => file[g].ino = 0
               /\ Cardinality(Descriptors(g)') = file[g].count - (IF g = f THEN 1 ELSE 0)
    <2>1. file[g].count \in Nat /\ file[g].count = Cardinality(Descriptors(g)) /\ (file[g].count = 0 => file[g].ino = 0)
      BY <1>5 DEF NamesInv, FilesCounted, FileRecs
    <2>2. Cardinality(Descriptors(g)') = Cardinality(Descriptors(g)) + Is(filp'[p][d], g) - Is(f, g)
      BY <1>6, DescriptorsStep
    <2>3. Is(filp'[p][d], g) = 0 /\ Is(f, g) = IF g = f THEN 1 ELSE 0
      BY <1>6, NamesConstants DEF Is, FileNos
    <2> QED BY <2>1, <2>2, <2>3
  <1>8. \A q \in Procs : proc[q].fd # 0 => filp'[q][proc[q].fd] = filp[q][proc[q].fd] /\ filp[q][proc[q].fd] # 0
    <2> TAKE q \in Procs
    <2> HAVE proc[q].fd # 0
    <2>1. q # p /\ proc[q].fd \in Fds /\ filp[q][proc[q].fd] \in FileNos
      BY <1>4, Reserved
    <2> QED BY <1>6, <2>1, NamesConstants DEF FileNos
  <1>9. \A t \in Procs, c \in Fds :
              filp'[t][c] = filp[t][c]
              \/ \A q \in Procs : proc[q].fd # 0 => filp[q][proc[q].fd] # filp'[t][c]
    BY <1>6, <1>8
  <1>10. file[f].count # 0
    BY <1>3
  <1> HIDE DEF f, m
  <1>11. CASE file[f].count > 1
    <2>1. file' = [file EXCEPT ![f].count = @ - 1] /\ proc' = proc /\ panicked' = panicked
      BY <1>2, <1>10, <1>11 DEF f
    <2>2. file[f].count - 1 \in Nat
      BY <1>3, <1>10
    <2>3. /\ file' \in [FileNos -> FileRecs] /\ file'[f].count = file[f].count - 1 /\ file'[f].ino = m
          /\ \A g \in FileNos : g # f => file'[g] = file[g]
      BY <1>3, <1>5, <2>1, <2>2 DEF FileRecs, m
    <2>4. ASSUME NEW g \in FileNos
          PROVE  /\ file'[g].count = Cardinality(Descriptors(g)')
                 /\ file'[g].count > 0 => file[g].count > 0 /\ file'[g].ino = file[g].ino
                 /\ file'[g].count = 0 => file'[g].ino = 0
                 /\ file'[g].ino = file[g].ino
      <3>1. CASE g = f
        BY <1>3, <1>7, <1>11, <2>3, <3>1 DEF m
      <3>2. CASE g # f
        BY <1>7, <2>3, <3>2
      <3> QED BY <3>1, <3>2
    <2>5. FilesCounted' /\ FilesReserved'
      BY <1>8, <1>9, <2>1, <2>4, FilesKept
    <2>6. ASSUME NEW n \in Nums PROVE Share(proc[p], n) + FileRefs(file', n) = FileRefs(file, n)
      <3>1. Is(file'[f].ino, n) = Is(file[f].ino, n) /\ Is(file[f].ino, n) \in Int
        BY <2>3 DEF Is, m
      <3>2. FileRefs(file', n) = FileRefs(file, n) + Is(file'[f].ino, n) - Is(file[f].ino, n)
        BY <1>3, <2>4, FileRefsStep
      <3>3. FileRefs(file, n) \in Nat
        BY FileRefsNat
      <3> QED BY <1>4, <3>1, <3>2, <3>3
    <2>7. proc' = [proc EXCEPT ![p] = proc[p]] /\ panicked' \in BOOLEAN
      BY <1>4, <1>5, <2>1
    <2> QED BY <1>1, <1>4, <1>6, <2>3, <2>5, <2>6, <2>7, IdleStep, Zenon
  <1>12. CASE ~(file[f].count > 1)
    <2> DEFINE e == [count |-> 0, ino |-> 0]
               r == [proc[p] EXCEPT !.pc = "puts", !.puts = <<m>>, !.next = "idle"]
    <2>1. file' = [file EXCEPT ![f] = e] /\ PutThen(p, <<m>>, proc[p], "idle") /\ panicked' = panicked
      BY <1>2, <1>10, <1>12 DEF f, m
    <2>2. file[f].count = 1
      BY <1>3, <1>12
    <2>3. e \in FileRecs
      BY DEF FileRecs, NumOr0
    <2>4. /\ file' \in [FileNos -> FileRecs] /\ file'[f].count = 0 /\ file'[f].ino = 0
          /\ \A g \in FileNos : g # f => file'[g] = file[g]
      BY <1>3, <1>5, <2>1, <2>3
    <2>5. ASSUME NEW g \in FileNos
          PROVE  /\ file'[g].count = Cardinality(Descriptors(g)')
                 /\ file'[g].count > 0 => file[g].count > 0 /\ file'[g].ino = file[g].ino
                 /\ file'[g].count = 0 => file'[g].ino = 0
                 /\ file'[g].ino = 0 \/ file'[g].ino = file[g].ino
      <3>1. CASE g = f
        BY <1>3, <1>7, <2>2, <2>4, <3>1
      <3>2. CASE g # f
        BY <1>7, <2>4, <3>2
      <3> QED BY <3>1, <3>2
    <2>6. proc' = [proc EXCEPT ![p] = r]
      BY <2>1 DEF PutThen, Become
    <2>7. /\ <<m>> \in Seq(Nums) /\ <<m>> # <<>> /\ Len(<<m>>) <= 2
          /\ \A n \in Nums : DueTo(<<m>>, n) = Is(m, n)
      BY <1>3, DueOne
    <2>8. /\ r \in CallRecs /\ r.pc = "puts" /\ r.puts = <<m>> /\ r.next = "idle" /\ r.op = proc[p].op
          /\ r.rest = proc[p].rest /\ r.new = proc[p].new /\ r.dir = 0 /\ r.ino = 0 /\ r.old = 0
          /\ r.fd = 0 /\ r.res = 0
      BY <1>4, <2>7 DEF CallRecs, CallLabels
    <2> HIDE DEF r, e
    <2>9. HasAt(r, "idle")
      BY <1>4, <2>8 DEF HasAt
    <2>10. OnCourse(r) /\ ~Buffered(r)
      <3>1. r.puts # <<>> /\ Len(r.puts) <= 2
        BY <2>7, <2>8
      <3> QED BY <1>4, <2>8, <2>9, <3>1 DEF OnCourse, Buffered
    <2>11. \A q \in Procs : proc'[q].fd = proc[q].fd
      BY <1>4, <2>6, <2>8
    <2>12. FilesCounted' /\ FilesReserved'
      BY <1>8, <1>9, <2>5, <2>11, FilesKept
    <2>13. ASSUME NEW n \in Nums PROVE Share(r, n) + FileRefs(file', n) = FileRefs(file, n)
      <3>1. Is(0, n) = 0 /\ Is(m, n) \in Int
        BY IsFacts
      <3>2. Share(r, n) = Is(m, n)
        BY <2>7, <2>8, <3>1 DEF Share
      <3>3. FileRefs(file', n) = FileRefs(file, n) + Is(file'[f].ino, n) - Is(file[f].ino, n)
        BY <1>3, <2>4, FileRefsStep
      <3>4. Is(file'[f].ino, n) = 0 /\ Is(file[f].ino, n) = Is(m, n)
        BY <2>4, <3>1 DEF m
      <3>5. FileRefs(file, n) \in Nat
        BY FileRefsNat
      <3> QED BY <3>1, <3>2, <3>3, <3>4, <3>5
    <2>14. panicked' \in BOOLEAN
      BY <1>5, <2>1
    <2> QED BY <1>1, <1>6, <2>4, <2>6, <2>8, <2>10, <2>12, <2>13, <2>14, IdleStep, Zenon
  <1> QED BY <1>11, <1>12

\* dupfd: one descriptor more for the file.
LEMMA DupKeeps ==
    ASSUME NamesInv, NEW p \in Procs, Dup(p)
    PROVE  NamesInv'
  <1> DEFINE r == NoCall(proc[p].ops - 1)  e == Min(FreeFds(p))
  <1>1. /\ At(p, "idle") /\ inode' = inode /\ imap' = imap /\ zmap' = zmap /\ held' = held /\ raced' = raced
        /\ panicked' = panicked /\ proc' = [proc EXCEPT ![p] = r]
    BY DEF Dup, Become
  <1>2. PICK d \in Fds : /\ filp[p][d] # 0
                         /\ IF FreeFds(p) = {} THEN UNCHANGED fvars
                            ELSE /\ filp' = [filp EXCEPT ![p][e] = filp[p][d]]
                                 /\ file' = [file EXCEPT ![filp[p][d]].count = @ + 1]
    BY DEF Dup, FreeFds, Fds
  <1> DEFINE f == filp[p][d]
  <1>3. /\ f \in FileNos /\ file[f] \in FileRecs /\ file[f].count \in Nat /\ file[f].count >= 1
        /\ \A q \in Procs : proc[q].fd # 0 => filp[q][proc[q].fd] # f
    BY <1>1, <1>2, IdleFile
  <1>4. proc \in [Procs -> CallRecs] /\ proc[p].fd = 0 /\ proc[p].ops \in Int
    BY <1>1, IdleHasNone, CallRecFields
  <1>5. /\ r \in CallRecs /\ OnCourse(r) /\ ~Buffered(r) /\ r.fd = 0 /\ \A n \in Nums : Share(r, n) = 0
    BY <1>4, NoCallKeeps
  <1>6. /\ filp \in [Procs -> [Fds -> 0 .. NR_FILE]] /\ file \in [FileNos -> FileRecs] /\ panicked \in BOOLEAN
    BY DEF NamesInv, NamesTyped
  <1> HIDE DEF r
  <1>7. \A q \in Procs : proc'[q].fd = proc[q].fd
    BY <1>1, <1>4, <1>5
  <1>8. ASSUME NEW g \in FileNos
        PROVE  /\ file[g].count \in Nat /\ file[g].count = Cardinality(Descriptors(g))
               /\ file[g].count = 0 => file[g].ino = 0
    BY <1>6 DEF NamesInv, FilesCounted, FileRecs
  <1>9. panicked' \in BOOLEAN
    BY <1>1, <1>6
  <1>10. CASE FreeFds(p) = {}
    <2>1. file' = file /\ filp' = filp
      BY <1>2, <1>10 DEF fvars
    <2>2. \A g : Descriptors(g)' = Descriptors(g)
      BY <2>1 DEF Descriptors
    <2>3. FilesCounted' /\ FilesReserved'
      BY <1>7, <1>8, <2>1, <2>2, FilesKept
    <2>4. ASSUME NEW n \in Nums PROVE Share(r, n) + FileRefs(file', n) = FileRefs(file, n)
      <3>1. FileRefs(file, n) \in Nat
        BY FileRefsNat
      <3> QED BY <1>5, <2>1, <3>1
    <2>5. filp' \in [Procs -> [Fds -> 0 .. NR_FILE]] /\ file' \in [FileNos -> FileRecs]
      BY <1>6, <2>1
    <2> QED BY <1>1, <1>5, <1>9, <2>3, <2>4, <2>5, IdleStep, Zenon
  <1>11. CASE FreeFds(p) # {}
    <2>1. e \in Fds /\ filp[p][e] = 0
      <3>1. FreeFds(p) \in SUBSET Nat
        BY NamesConstants DEF FreeFds
      <3>2. e \in FreeFds(p)
        BY <1>11, <3>1, FirstFree
      <3> QED BY <3>2 DEF FreeFds, Fds
    <2>2. filp' = [filp EXCEPT ![p][e] = f] /\ file' = [file EXCEPT ![f].count = @ + 1]
      BY <1>2, <1>11
    <2> HIDE DEF e
    <2>3. /\ filp' \in [Procs -> [Fds -> 0 .. NR_FILE]] /\ filp'[p][e] = f
          /\ \A q \in Procs, c \in Fds : q # p \/ c # e => filp'[q][c] = filp[q][c]
      BY <1>6, <2>1, <2>2
    <2> HIDE DEF f
    <2>4. /\ file' \in [FileNos -> FileRecs] /\ file'[f].count = file[f].count + 1 /\ file'[f].ino = file[f].ino
          /\ \A g \in FileNos : g # f => file'[g] = file[g]
      BY <1>3, <1>6, <2>2 DEF FileRecs
    <2>5. ASSUME NEW g \in FileNos
          PROVE  Cardinality(Descriptors(g)') = file[g].count + (IF g = f THEN 1 ELSE 0)
      <3>1. Cardinality(Descriptors(g)') = Cardinality(Descriptors(g)) + Is(filp'[p][e], g) - Is(filp[p][e], g)
        BY <2>1, <2>3, DescriptorsStep
      <3>2. Is(filp[p][e], g) = 0 /\ Is(filp'[p][e], g) = IF g = f THEN 1 ELSE 0
        BY <2>1, <2>3, NamesConstants DEF Is, FileNos
      <3> QED BY <1>8, <3>1, <3>2
    <2>6. ASSUME NEW g \in FileNos
          PROVE  /\ file'[g].count = Cardinality(Descriptors(g)')
                 /\ file'[g].count > 0 => file[g].count > 0 /\ file'[g].ino = file[g].ino
                 /\ file'[g].count = 0 => file'[g].ino = 0
                 /\ file'[g].ino = file[g].ino
      <3>1. CASE g = f
        BY <1>3, <2>4, <2>5, <3>1
      <3>2. CASE g # f
        BY <1>8, <2>4, <2>5, <3>2
      <3> QED BY <3>1, <3>2
    <2>7. \A q \in Procs : proc[q].fd # 0 => filp'[q][proc[q].fd] = filp[q][proc[q].fd]
      <3> TAKE q \in Procs
      <3> HAVE proc[q].fd # 0
      <3>1. q # p /\ proc[q].fd \in Fds
        BY <1>4, Reserved
      <3> QED BY <2>3, <3>1
    <2>8. \A t \in Procs, c \in Fds :
              filp'[t][c] = filp[t][c]
              \/ \A q \in Procs : proc[q].fd # 0 => filp[q][proc[q].fd] # filp'[t][c]
      BY <1>3, <2>3
    <2>9. FilesCounted' /\ FilesReserved'
      BY <1>7, <2>6, <2>7, <2>8, FilesKept
    <2>10. ASSUME NEW n \in Nums PROVE Share(r, n) + FileRefs(file', n) = FileRefs(file, n)
      <3>1. Is(file'[f].ino, n) = Is(file[f].ino, n) /\ Is(file[f].ino, n) \in Int
        BY <2>4 DEF Is
      <3>2. FileRefs(file', n) = FileRefs(file, n) + Is(file'[f].ino, n) - Is(file[f].ino, n)
        BY <1>3, <2>6, FileRefsStep
      <3>3. FileRefs(file, n) \in Nat
        BY FileRefsNat
      <3> QED BY <1>5, <3>1, <3>2, <3>3
    <2> QED BY <1>1, <1>5, <1>9, <2>3, <2>4, <2>9, <2>10, IdleStep, Zenon
  <1> QED BY <1>10, <1>11

\* copy_process: the child gets the father's descriptors, each file counts them.
LEMMA ForkFilesKeeps ==
    ASSUME NamesInv, NEW p \in Procs, NEW k \in Procs, ForkFiles(p, k)
    PROVE  NamesInv'
  <1> DEFINE r == NoCall(proc[p].ops - 1)  In(g) == {d \in Fds : filp[p][d] = g}
  <1>1. /\ p # k /\ At(p, "idle") /\ At(k, "idle") /\ FreeFds(k) = Fds
        /\ filp' = [filp EXCEPT ![k] = filp[p]]
        /\ file' = [f \in FileNos |-> [file[f] EXCEPT !.count = @ + Cardinality(In(f))]]
        /\ inode' = inode /\ imap' = imap /\ zmap' = zmap /\ held' = held /\ raced' = raced
        /\ panicked' = panicked /\ proc' = [proc EXCEPT ![p] = r]
    BY DEF ForkFiles, Become, Fds, FileNos
  <1>2. proc \in [Procs -> CallRecs] /\ proc[p].fd = 0 /\ proc[p].ops \in Int /\ proc[k].fd = 0
    BY <1>1, IdleHasNone, CallRecFields
  <1>3. /\ r \in CallRecs /\ OnCourse(r) /\ ~Buffered(r) /\ r.fd = 0 /\ \A n \in Nums : Share(r, n) = 0
    BY <1>2, NoCallKeeps
  <1>4. /\ filp \in [Procs -> [Fds -> 0 .. NR_FILE]] /\ file \in [FileNos -> FileRecs] /\ panicked \in BOOLEAN
    BY DEF NamesInv, NamesTyped
  <1> HIDE DEF r
  <1>5. \A q \in Procs : proc'[q].fd = proc[q].fd
    BY <1>1, <1>2, <1>3
  <1>6. \A d \in Fds : filp[k][d] = 0
    BY <1>1 DEF FreeFds, Fds
  <1>7. /\ filp' \in [Procs -> [Fds -> 0 .. NR_FILE]]
        /\ \A d \in Fds : filp'[k][d] = filp[p][d]
        /\ \A q \in Procs : q # k => filp'[q] = filp[q]
    BY <1>1, <1>4
  <1>8. ASSUME NEW g \in FileNos
        PROVE  /\ Cardinality(In(g)) \in Nat
               /\ Cardinality(Descriptors(g)') = Cardinality(Descriptors(g)) + Cardinality(In(g))
    <2> DEFINE S == Descriptors(g)  T == {k} \X In(g)
    <2>1. g # 0
      BY NamesConstants DEF FileNos
    <2>2. Descriptors(g)' = S \cup T
      <3>1. ASSUME NEW q \in Procs, NEW d \in Fds
            PROVE  <<q, d>> \in Descriptors(g)' <=> <<q, d>> \in S \cup T
        <4>1. (<<q, d>> \in Descriptors(g)' <=> filp'[q][d] = g) /\ (<<q, d>> \in S <=> filp[q][d] = g)
          BY DEF Descriptors
        <4>2. <<q, d>> \in T <=> q = k /\ filp[p][d] = g
          OBVIOUS
        <4>3. CASE q = k
          BY <1>6, <1>7, <2>1, <4>1, <4>2, <4>3
        <4>4. CASE q # k
          BY <1>7, <4>1, <4>2, <4>4
        <4> QED BY <4>3, <4>4
      <3>2. Descriptors(g)' \subseteq Procs \X Fds /\ S \cup T \subseteq Procs \X Fds
        BY DEF Descriptors
      <3> HIDE DEF S, T
      <3>3. ASSUME NEW y \in Procs \X Fds PROVE y \in Descriptors(g)' <=> y \in S \cup T
        <4>1. PICK q \in Procs, d \in Fds : y = <<q, d>>
          OBVIOUS
        <4> QED BY <3>1, <4>1
      <3> QED BY <3>2, <3>3
    <2>3. S \cap T = {}
      <3>1. ASSUME NEW y \in S, y \in T PROVE FALSE
        <4>1. PICK d \in Fds : y = <<k, d>>
          BY <3>1
        <4> QED BY <1>6, <2>1, <3>1, <4>1 DEF Descriptors
      <3> QED BY <3>1
    <2>4. IsFiniteSet(S) /\ Cardinality(S) \in Nat
      BY DescriptorsFinite
    <2>5. IsFiniteSet(In(g)) /\ Cardinality(In(g)) \in Nat
      <3>1. IsFiniteSet(Fds)
        BY NamesConstants, FS_Interval DEF Fds
      <3> QED BY <3>1, FS_Subset, FS_CardinalityType
    <2>6. IsFiniteSet({k}) /\ Cardinality({k}) = 1
      BY FS_Singleton
    <2>7. IsFiniteSet(T) /\ Cardinality(T) = 1 * Cardinality(In(g))
      BY <2>5, <2>6, FS_Product
    <2> HIDE DEF S, T, In
    <2>8. Cardinality(S \cup T) = Cardinality(S) + Cardinality(T) - Cardinality(S \cap T)
      BY <2>4, <2>7, FS_Union
    <2>9. Cardinality(S \cap T) = 0
      BY <2>3, FS_EmptySet
    <2> QED BY <2>2, <2>4, <2>5, <2>7, <2>8, <2>9 DEF S
  <1>9. ASSUME NEW g \in FileNos
        PROVE  /\ file[g] \in FileRecs /\ file[g].count \in Nat /\ file[g].count = Cardinality(Descriptors(g))
               /\ file[g].count = 0 => file[g].ino = 0
               /\ file'[g] = [file[g] EXCEPT !.count = file[g].count + Cardinality(In(g))]
    BY <1>1, <1>4 DEF NamesInv, FilesCounted, FileRecs
  <1>10. ASSUME NEW g \in FileNos
         PROVE  file'[g] \in FileRecs /\ file'[g].ino = file[g].ino /\ file'[g].count = Cardinality(Descriptors(g)')
    <2> HIDE DEF In
    <2>3. Cardinality(In(g)) \in Nat
      BY <1>8
    <2>4. file[g].count \in Nat
      BY <1>9
    <2>1. file[g].count + Cardinality(In(g)) \in Nat
      BY <2>3, <2>4
    <2>2. /\ file'[g] \in FileRecs /\ file'[g].ino = file[g].ino
          /\ file'[g].count = file[g].count + Cardinality(In(g))
      BY <1>9, <2>1 DEF FileRecs
    <2> QED BY <1>8, <1>9, <2>2
  <1>11. ASSUME NEW g \in FileNos
         PROVE  file'[g].count > 0 => file[g].count > 0
    <2>1. CASE In(g) = {}
      <3>1. Cardinality(In(g)) = 0
        BY <2>1, FS_EmptySet
      <3>2. file[g].count \in Nat /\ file[g].count = Cardinality(Descriptors(g))
        BY <1>9
      <3> HIDE DEF In
      <3>3. Cardinality(Descriptors(g)') = Cardinality(Descriptors(g)) + 0
        BY <1>8, <3>1
      <3>4. file'[g].count = Cardinality(Descriptors(g)')
        BY <1>10
      <3> QED BY <3>2, <3>3, <3>4
    <2>2. CASE In(g) # {}
      <3>1. PICK d \in Fds : filp[p][d] = g
        BY <2>2
      <3>2. filp[p][d] # 0
        BY <3>1, NamesConstants DEF FileNos
      <3>3. file[g].count \in Nat /\ file[g].count >= 1
        BY <1>1, <3>1, <3>2, IdleFile
      <3> QED BY <3>3
    <2> QED BY <2>1, <2>2
  <1> HIDE DEF In
  <1>12. ASSUME NEW g \in FileNos
         PROVE  file'[g].count = 0 => file'[g].ino = 0
    <2>1. file'[g].count = Cardinality(Descriptors(g)') /\ file'[g].ino = file[g].ino
      BY <1>10
    <2>3. Cardinality(In(g)) \in Nat /\ Cardinality(Descriptors(g)') = Cardinality(Descriptors(g)) + Cardinality(In(g))
      BY <1>8
    <2>4. file[g].count \in Nat /\ file[g].count = Cardinality(Descriptors(g))
      BY <1>9
    <2>2. file'[g].count = 0 => file[g].count = 0
      BY <2>1, <2>3, <2>4
    <2> QED BY <1>9, <1>10, <2>2
  <1>13. \A q \in Procs : proc[q].fd # 0 => filp'[q][proc[q].fd] = filp[q][proc[q].fd] /\ filp[q][proc[q].fd] # 0
    <2> TAKE q \in Procs
    <2> HAVE proc[q].fd # 0
    <2>1. q # k /\ filp[q][proc[q].fd] \in FileNos
      BY <1>2, Reserved
    <2> QED BY <1>7, <2>1, NamesConstants DEF FileNos
  <1>14. ASSUME NEW t \in Procs, NEW c \in Fds
         PROVE  filp'[t][c] = filp[t][c]
                \/ \A q \in Procs : proc[q].fd # 0 => filp[q][proc[q].fd] # filp'[t][c]
    <2>1. CASE t # k
      BY <1>7, <2>1
    <2>2. CASE t = k /\ filp[p][c] = 0
      BY <1>7, <1>13, <2>2
    <2>3. CASE t = k /\ filp[p][c] # 0
      <3>1. \A q \in Procs : proc[q].fd # 0 => filp[q][proc[q].fd] # filp[p][c]
        BY <1>1, <2>3, IdleFile
      <3> QED BY <1>7, <2>3, <3>1
    <2> QED BY <2>1, <2>2, <2>3
  <1>15. FilesCounted' /\ FilesReserved'
    BY <1>5, <1>10, <1>11, <1>12, <1>13, <1>14, FilesKept
  <1>16. file' \in [FileNos -> FileRecs]
    BY <1>1, <1>10
  <1>17. ASSUME NEW n \in Nums PROVE Share(r, n) + FileRefs(file', n) = FileRefs(file, n)
    <2>1. {f \in FileNos : file'[f].ino = n} = {f \in FileNos : file[f].ino = n}
      BY <1>10
    <2>2. FileRefs(file', n) = FileRefs(file, n) /\ FileRefs(file, n) \in Nat
      BY <2>1, FileRefsNat DEF FileRefs
    <2> QED BY <1>3, <2>2
  <1>18. panicked' \in BOOLEAN
    BY <1>1, <1>4
  <1> QED BY <1>1, <1>3, <1>7, <1>15, <1>16, <1>17, <1>18, IdleStep, Zenon

\* A path is a list of names.
LEMMA PathNames ==
    ASSUME NEW w \in Seq(STRING)
    PROVE  w \in Seq(FileNames)
  <1>1. STRING \subseteq FileNames
    BY DEF FileNames
  <1>2. w \in [1 .. Len(w) -> STRING] /\ Len(w) \in Nat
    OBVIOUS
  <1>3. w \in [1 .. Len(w) -> FileNames]
    BY <1>1, <1>2
  <1> QED BY <1>2, <1>3

\* sys_open reserves a free descriptor and a free file before it walks.
LEMMA ReserveKeeps ==
    ASSUME NamesInv, NEW p \in Procs, At(p, "idle"), NEW d \in Fds, filp[p][d] = 0,
           NEW f \in FileNos, file[f].count = 0, NEW r, proc' = [proc EXCEPT ![p] = r], r.fd = d,
           filp' = [filp EXCEPT ![p][d] = f],
           file' = [file EXCEPT ![f] = [count |-> @.count + 1, ino |-> 0]]
    PROVE  /\ filp' \in [Procs -> [Fds -> 0 .. NR_FILE]] /\ file' \in [FileNos -> FileRecs]
           /\ FilesCounted' /\ FilesReserved'
           /\ \A n \in Nums : FileRefs(file', n) = FileRefs(file, n)
  <1> DEFINE e == [count |-> 1, ino |-> 0]
  <1>1. /\ filp \in [Procs -> [Fds -> 0 .. NR_FILE]] /\ file \in [FileNos -> FileRecs]
        /\ proc \in [Procs -> CallRecs] /\ proc[p].fd = 0
    BY IdleHasNone DEF NamesInv, NamesTyped
  <1>2. e \in FileRecs /\ e.count = 1 /\ e.ino = 0 /\ file' = [file EXCEPT ![f] = e]
    BY <1>1 DEF FileRecs, NumOr0
  <1> HIDE DEF e
  <1>3. /\ file' \in [FileNos -> FileRecs] /\ file'[f].count = 1 /\ file'[f].ino = 0
        /\ \A g \in FileNos \ {f} : file'[g] = file[g]
    BY <1>1, <1>2
  <1>4. f \in 0 .. NR_FILE /\ f # 0 /\ d # 0
    BY NamesConstants DEF FileNos, Fds
  <1>5. /\ filp' \in [Procs -> [Fds -> 0 .. NR_FILE]] /\ filp'[p][d] = f
        /\ \A q \in Procs, c \in Fds : q # p \/ c # d => filp'[q][c] = filp[q][c]
    BY <1>1, <1>4
  <1>6. ASSUME NEW g \in FileNos
        PROVE  /\ file[g].count = Cardinality(Descriptors(g)) /\ file[g].count \in Nat
               /\ file[g].count = 0 => file[g].ino = 0
               /\ file[g].count > 0 /\ file[g].ino = 0 =>
                     \E q \in Procs : proc[q].fd # 0 /\ filp[q][proc[q].fd] = g
    BY <1>1 DEF NamesInv, FilesCounted, FileRecs
  <1>7. \A q \in Procs, c \in Fds : filp[q][c] # f
    <2>1. Descriptors(f) = {}
      BY <1>6, DescriptorsFinite, FS_EmptySet
    <2>2. ASSUME NEW q \in Procs, NEW c \in Fds, filp[q][c] = f PROVE FALSE
      <3>1. <<q, c>> \in Descriptors(f)
        BY <2>2 DEF Descriptors
      <3> QED BY <2>1, <3>1
    <2> QED BY <2>2
  <1>8. ASSUME NEW g \in FileNos
        PROVE  Cardinality(Descriptors(g)') = file[g].count + (IF g = f THEN 1 ELSE 0)
    <2>1. Cardinality(Descriptors(g)') = Cardinality(Descriptors(g)) + Is(filp'[p][d], g) - Is(filp[p][d], g)
      BY <1>5, DescriptorsStep
    <2>2. Is(filp[p][d], g) = 0 /\ Is(filp'[p][d], g) = IF g = f THEN 1 ELSE 0
      BY <1>5, NamesConstants DEF Is, FileNos
    <2>3. file[g].count = Cardinality(Descriptors(g)) /\ file[g].count \in Nat
      BY <1>6
    <2> QED BY <2>1, <2>2, <2>3
  <1>9. proc'[p].fd = d /\ \A q \in Procs : q # p => proc'[q].fd = proc[q].fd
    BY <1>1
  <1>10. ASSUME NEW q \in Procs, proc[q].fd # 0
         PROVE  /\ q # p /\ proc[q].fd \in Fds /\ filp[q][proc[q].fd] \in FileNos
                /\ filp[q][proc[q].fd] # f /\ filp'[q][proc[q].fd] = filp[q][proc[q].fd]
                /\ filp[q][proc[q].fd] # 0 /\ file[filp[q][proc[q].fd]].ino = 0
                /\ \A t \in Procs, c \in Fds : filp[t][c] = filp[q][proc[q].fd] => t = q /\ c = proc[q].fd
    <2>1. /\ proc[q].fd \in Fds /\ filp[q][proc[q].fd] \in FileNos /\ file[filp[q][proc[q].fd]].ino = 0
          /\ \A t \in Procs, c \in Fds : filp[t][c] = filp[q][proc[q].fd] => t = q /\ c = proc[q].fd
      BY <1>10, Reserved
    <2>2. q # p
      BY <1>1, <1>10
    <2>3. filp[q][proc[q].fd] # f /\ filp'[q][proc[q].fd] = filp[q][proc[q].fd]
      BY <1>5, <1>7, <2>1, <2>2
    <2>4. filp[q][proc[q].fd] # 0
      BY <2>1, NamesConstants DEF FileNos
    <2> QED BY <2>1, <2>2, <2>3, <2>4
  <1>11. FilesCounted'
    <2> SUFFICES ASSUME NEW g \in FileNos
                 PROVE  /\ file'[g].count = Cardinality(Descriptors(g)')
                        /\ file'[g].count = 0 => file'[g].ino = 0
                        /\ file'[g].count > 0 /\ file'[g].ino = 0 =>
                              \E q \in Procs : proc'[q].fd # 0 /\ filp'[q][proc'[q].fd] = g
      BY DEF FilesCounted
    <2>1. CASE g = f
      <3>1. file'[g].count = Cardinality(Descriptors(g)') /\ file'[g].count = 1
        BY <1>3, <1>8, <2>1
      <3>2. proc'[p].fd # 0 /\ filp'[p][proc'[p].fd] = g
        BY <1>4, <1>5, <1>9, <2>1
      <3> QED BY <3>1, <3>2
    <2>2. CASE g # f
      <3>1. file'[g] = file[g] /\ file'[g].count = Cardinality(Descriptors(g)')
        BY <1>3, <1>6, <1>8, <2>2
      <3>2. ASSUME file[g].count > 0, file[g].ino = 0
            PROVE  \E q \in Procs : proc'[q].fd # 0 /\ filp'[q][proc'[q].fd] = g
        <4>1. PICK q \in Procs : proc[q].fd # 0 /\ filp[q][proc[q].fd] = g
          BY <1>6, <3>2
        <4>2. proc'[q].fd = proc[q].fd /\ filp'[q][proc[q].fd] = g
          BY <1>9, <1>10, <4>1
        <4> QED BY <4>1, <4>2
      <3> QED BY <1>6, <3>1, <3>2
    <2> QED BY <2>1, <2>2
  <1>12. FilesReserved'
    <2> SUFFICES ASSUME NEW q \in Procs, proc'[q].fd # 0
                 PROVE  /\ filp'[q][proc'[q].fd] # 0 /\ file'[filp'[q][proc'[q].fd]].ino = 0
                        /\ \A t \in Procs, c \in Fds :
                              filp'[t][c] = filp'[q][proc'[q].fd] => t = q /\ c = proc'[q].fd
      BY DEF FilesReserved
    <2>1. CASE q = p
      <3>1. filp'[q][proc'[q].fd] = f /\ proc'[q].fd = d
        BY <1>5, <1>9, <2>1
      <3>2. ASSUME NEW t \in Procs, NEW c \in Fds, filp'[t][c] = f PROVE t = p /\ c = d
        BY <1>5, <1>7, <3>2
      <3> QED BY <1>3, <1>4, <2>1, <3>1, <3>2
    <2>2. CASE q # p
      <3> DEFINE x == filp[q][proc[q].fd]
      <3>1. proc'[q].fd = proc[q].fd /\ proc[q].fd # 0
        BY <1>9, <2>2
      <3>2. /\ x \in FileNos /\ x # f /\ filp'[q][proc[q].fd] = x /\ x # 0 /\ file[x].ino = 0
            /\ \A t \in Procs, c \in Fds : filp[t][c] = x => t = q /\ c = proc[q].fd
        BY <1>10, <3>1
      <3> HIDE DEF x
      <3>3. file'[x].ino = 0
        BY <1>3, <3>2
      <3>4. ASSUME NEW t \in Procs, NEW c \in Fds, filp'[t][c] = x PROVE t = q /\ c = proc[q].fd
        <4>1. ~(t = p /\ c = d)
          BY <1>5, <3>2, <3>4
        <4>2. filp[t][c] = x
          BY <1>5, <3>4, <4>1
        <4> QED BY <3>2, <4>2
      <3> QED BY <3>1, <3>2, <3>3, <3>4
    <2> QED BY <2>1, <2>2
  <1>13. ASSUME NEW n \in Nums PROVE FileRefs(file', n) = FileRefs(file, n)
    <2>1. \A g \in FileNos : file'[g].ino = file[g].ino
      BY <1>3, <1>6
    <2>2. {g \in FileNos : file'[g].ino = n} = {g \in FileNos : file[g].ino = n}
      BY <2>1
    <2> QED BY <2>2 DEF FileRefs
  <1> QED BY <1>3, <1>5, <1>11, <1>12, <1>13

\* A call starts at the root with a reference to it; sys_open reserves first.
LEMMA StartKeeps ==
    ASSUME NamesInv, NEW p \in Procs, Start(p)
    PROVE  NamesInv'
  <1>1. /\ At(p, "idle") /\ imap' = imap /\ zmap' = zmap /\ held' = held /\ raced' = raced
        /\ panicked' = panicked
    BY DEF Start
  <1> DEFINE k == NoCall(proc[p].ops - 1)  d == Min(FreeFds(p))  f == Min(FreeFiles)
             R(c) == [k EXCEPT !.pc = "walk", !.op = c.op, !.rest = c.path, !.new = c.new, !.dir = 1]
  <1>2. PICK c \in Calls :
             IF c.path = <<>>
             THEN Become(p, k) /\ UNCHANGED <<inode, fvars>>
             ELSE IF c.op \notin Opens
             THEN /\ Become(p, R(c))
                  /\ inode' = [inode EXCEPT ![1].count = @ + 1]
                  /\ UNCHANGED fvars
             ELSE IF FreeFds(p) = {} \/ FreeFiles = {}
             THEN Become(p, k) /\ UNCHANGED <<inode, fvars>>
             ELSE /\ Become(p, [R(c) EXCEPT !.fd = d])
                  /\ inode' = [inode EXCEPT ![1].count = @ + 1]
                  /\ filp' = [filp EXCEPT ![p][d] = f]
                  /\ file' = [file EXCEPT ![f] = [count |-> @.count + 1, ino |-> 0]]
    BY DEF Start, Opens
  <1> DEFINE r == R(c)
  <1>3. /\ c.op \in Ops /\ c.path \in Seq(FileNames) /\ c.new \in Seq(FileNames)
    BY DirectoryConstants, PathNames
  <1>4. proc[p].ops \in Int /\ proc[p].fd = 0 /\ (\A n \in Nums : Share(proc[p], n) = 0) /\ held[p] = 0
    BY <1>1, IdleHasNone, CallRecFields
  <1>5. /\ inode \in [Nums -> InodeRecs] /\ imap \subseteq Nums /\ zmap \subseteq Zones
        /\ held \in [Procs -> 0 .. 1] /\ panicked \in BOOLEAN /\ raced \in BOOLEAN
        /\ (~raced => InodesInUse)
    BY DEF NamesInv, NamesTyped
  <1>6. /\ k \in CallRecs /\ OnCourse(k) /\ ~Buffered(k) /\ k.fd = 0 /\ \A n \in Nums : Share(k, n) = 0
    BY <1>4, NoCallKeeps
  <1>7. k.ino = 0 /\ k.old = 0 /\ k.res = 0 /\ k.puts = <<>>
    BY DEF NoCall
  <1> HIDE DEF k
  <1>8. /\ imap' \subseteq Nums /\ zmap' \subseteq Zones /\ panicked' \in BOOLEAN /\ raced' \in BOOLEAN
        /\ held' \in [Procs -> 0 .. 1] /\ (\A t \in Procs \ {p} : held'[t] = held[t]) /\ held'[p] = 0
    BY <1>1, <1>4, <1>5
  <1>9. ASSUME c.path # <<>>, NEW s \in CallRecs, s.pc = "walk", s.op = c.op, s.rest = c.path, s.new = c.new, s.dir = 1,
               s.ino = 0, s.old = 0, s.res = 0, s.puts = <<>>, s.fd # 0 <=> c.op \in Opens
        PROVE  OnCourse(s) /\ ~Buffered(s) /\ \A n \in Nums : Share(s, n) = Is(1, n)
    <2>1. HasAt(s, "walk")
      BY <1>3, <1>9 DEF HasAt
    <2>2. Len(s.puts) <= 2
      BY <1>9
    <2>3. OnCourse(s) /\ ~Buffered(s)
      BY <1>9, <2>1, <2>2 DEF OnCourse, Buffered
    <2>4. ASSUME NEW n \in Nums PROVE Share(s, n) = Is(1, n)
      <3>1. Is(0, n) = 0 /\ Is(1, n) \in Int
        BY IsFacts
      <3>2. DueTo(<<>>, n) = 0
        BY DEF DueTo
      <3> QED BY <1>9, <3>1, <3>2 DEF Share
    <2> QED BY <2>3, <2>4
  <1>10. /\ r \in CallRecs /\ r.pc = "walk" /\ r.op = c.op /\ r.rest = c.path /\ r.new = c.new /\ r.dir = 1
         /\ r.ino = 0 /\ r.old = 0 /\ r.res = 0 /\ r.puts = <<>> /\ r.fd = 0
    BY <1>3, <1>6, <1>7, NamesConstants DEF CallRecs, CallLabels, NumOr0
  <1> HIDE DEF r, R
  <1>11. ASSUME inode' = [inode EXCEPT ![1].count = @ + 1]
         PROVE  /\ inode' \in [Nums -> InodeRecs]
                /\ \A n \in Nums : inode'[n].count = inode[n].count + Is(1, n)
                /\ ~raced' => ~raced /\ 1 \in imap' /\ \A n \in Nums \ imap' : inode'[n].count = 0
    <2>1. inode' \in [Nums -> InodeRecs] /\ \A n \in Nums : inode'[n].count = inode[n].count + Is(1, n)
      BY <1>5, <1>11, NamesConstants, CountUp
    <2>2. ASSUME ~raced' PROVE ~raced /\ 1 \in imap' /\ \A n \in Nums \ imap' : inode'[n].count = 0
      <3>1. ~raced /\ InodesInUse
        BY <1>1, <1>5, <2>2
      <3>2. ASSUME NEW n \in Nums \ imap' PROVE inode'[n].count = 0
        <4>1. inode[n].count = 0 /\ Is(1, n) = 0
          BY <1>1, <3>1 DEF InodesInUse, Is
        <4> QED BY <2>1, <4>1
      <3> QED BY <1>1, <3>1, <3>2 DEF InodesInUse
    <2> QED BY <2>1, <2>2
  <1>12. CASE c.path # <<>> /\ c.op \notin Opens
    <2>1. proc' = [proc EXCEPT ![p] = r] /\ UNCHANGED fvars /\ inode' = [inode EXCEPT ![1].count = @ + 1]
      BY <1>2, <1>12 DEF Become, r
    <2>2. OnCourse(r) /\ ~Buffered(r) /\ \A n \in Nums : Share(r, n) = Is(1, n)
      BY <1>9, <1>10, <1>12
    <2>3. ASSUME NEW n \in Nums PROVE inode'[n].count = inode[n].count + Share(r, n) - Share(proc[p], n)
      <3>1. inode[n].count \in Int /\ Is(1, n) \in Int
        BY <1>5, InodeRecFields, IsFacts
      <3> QED BY <1>4, <1>11, <2>1, <2>2, <3>1
    <2>4. /\ inode' \in [Nums -> InodeRecs]
          /\ ~raced' =>
               /\ ~raced
               /\ \A n \in Nums : inode'[n].count = inode[n].count + Share(r, n) - Share(proc[p], n)
               /\ 1 \in imap' /\ \A n \in Nums \ imap' : inode'[n].count = 0
      BY <1>11, <2>1, <2>3
    <2>5. held'[p] = (IF Buffered(r) THEN 1 ELSE 0) /\ r.fd = proc[p].fd
      BY <1>4, <1>8, <1>10, <2>2
    <2> QED BY <1>8, <1>10, <2>1, <2>2, <2>4, <2>5, CallStep, Zenon
  <1>13. CASE c.path = <<>> \/ (c.op \in Opens /\ (FreeFds(p) = {} \/ FreeFiles = {}))
    <2>1. proc' = [proc EXCEPT ![p] = k] /\ UNCHANGED fvars /\ inode' = inode
      BY <1>2, <1>13 DEF Become
    <2>2. ASSUME NEW n \in Nums PROVE inode'[n].count = inode[n].count + Share(k, n) - Share(proc[p], n)
      <3>1. inode[n].count \in Int
        BY <1>5, InodeRecFields
      <3> QED BY <1>4, <1>6, <2>1, <3>1
    <2>3. /\ inode' \in [Nums -> InodeRecs]
          /\ ~raced' =>
               /\ ~raced
               /\ \A n \in Nums : inode'[n].count = inode[n].count + Share(k, n) - Share(proc[p], n)
               /\ 1 \in imap' /\ \A n \in Nums \ imap' : inode'[n].count = 0
      BY <1>1, <1>5, <2>1, <2>2 DEF InodesInUse
    <2>4. held'[p] = (IF Buffered(k) THEN 1 ELSE 0) /\ k.fd = proc[p].fd
      BY <1>4, <1>6, <1>8
    <2> QED BY <1>6, <1>8, <2>1, <2>3, <2>4, CallStep, Zenon
  <1>14. CASE c.path # <<>> /\ c.op \in Opens /\ ~(FreeFds(p) = {} \/ FreeFiles = {})
    <2> DEFINE s == [r EXCEPT !.fd = d]
    <2>1. /\ proc' = [proc EXCEPT ![p] = s] /\ inode' = [inode EXCEPT ![1].count = @ + 1]
          /\ filp' = [filp EXCEPT ![p][d] = f]
          /\ file' = [file EXCEPT ![f] = [count |-> @.count + 1, ino |-> 0]]
      BY <1>2, <1>14 DEF Become, r
    <2>2. d \in Fds /\ filp[p][d] = 0 /\ f \in FileNos /\ file[f].count = 0
      <3>1. FreeFds(p) \in SUBSET Nat /\ FreeFiles \in SUBSET Nat
        BY NamesConstants DEF FreeFds, FreeFiles
      <3>2. d \in FreeFds(p) /\ f \in FreeFiles
        BY <1>14, <3>1, FirstFree
      <3> QED BY <3>2 DEF FreeFds, FreeFiles, Fds, FileNos
    <2> HIDE DEF d, f
    <2>3. d \in 0 .. NR_OPEN /\ d # 0
      BY <2>2, NamesConstants DEF Fds
    <2>4. /\ s \in CallRecs /\ s.pc = "walk" /\ s.op = c.op /\ s.rest = c.path /\ s.new = c.new /\ s.dir = 1
          /\ s.ino = 0 /\ s.old = 0 /\ s.res = 0 /\ s.puts = <<>> /\ s.fd = d
      BY <1>10, <2>3 DEF CallRecs
    <2> HIDE DEF s
    <2>5. OnCourse(s) /\ ~Buffered(s) /\ \A n \in Nums : Share(s, n) = Is(1, n)
      BY <1>9, <1>14, <2>3, <2>4
    <2>6. /\ filp' \in [Procs -> [Fds -> 0 .. NR_FILE]] /\ file' \in [FileNos -> FileRecs]
          /\ FilesCounted' /\ FilesReserved'
          /\ \A n \in Nums : FileRefs(file', n) = FileRefs(file, n)
      BY <1>1, <2>1, <2>2, <2>4, ReserveKeeps, Zenon
    <2>7. ASSUME NEW n \in Nums
          PROVE  inode'[n].count = inode[n].count + Share(s, n) - Share(proc[p], n)
                                   + FileRefs(file', n) - FileRefs(file, n)
      <3>1. inode[n].count \in Int /\ Is(1, n) \in Int
        BY <1>5, InodeRecFields, IsFacts
      <3>2. FileRefs(file, n) \in Nat
        BY FileRefsNat
      <3>3. inode'[n].count = inode[n].count + Is(1, n)
        BY <1>11, <2>1
      <3> QED BY <1>4, <2>5, <2>6, <3>1, <3>2, <3>3
    <2>8. /\ inode' \in [Nums -> InodeRecs]
          /\ ~raced' =>
               /\ ~raced
               /\ \A n \in Nums : inode'[n].count = inode[n].count + Share(s, n) - Share(proc[p], n)
                                   + FileRefs(file', n) - FileRefs(file, n)
               /\ 1 \in imap' /\ \A n \in Nums \ imap' : inode'[n].count = 0
      BY <1>11, <2>1, <2>7
    <2>9. held'[p] = IF Buffered(s) THEN 1 ELSE 0
      BY <1>8, <2>5
    <2> QED BY <1>8, <2>1, <2>4, <2>5, <2>6, <2>8, <2>9, NamesStep, Zenon
  <1> QED BY <1>12, <1>13, <1>14

-----------------------------------------------------------------------------
\* The inodes at the start: of their type, the root with one reference.
LEMMA FirstInodes ==
    ASSUME NamesInit
    PROVE  /\ inode \in [Nums -> InodeRecs]
           /\ \A n \in Nums : inode[n].count = IF n = 1 THEN 1 ELSE 0
  <1> DEFINE E == <<Ent(".", 1), Ent("..", 1), Ent("d", 2), Ent("a", 3)>>  F == <<Ent(".", 2), Ent("..", 1)>>
             a == [count |-> 1, nlinks |-> 3, isdir |-> TRUE, dev |-> "none", zones |-> RootZones, ents |-> E]
             b == [count |-> 0, nlinks |-> 2, isdir |-> TRUE, dev |-> "none", zones |-> <<2>>, ents |-> F]
             c == [Blank EXCEPT !.nlinks = 1]
  <1>1. /\ Ent(".", 1) \in EntryRecs /\ Ent("..", 1) \in EntryRecs /\ Ent("d", 2) \in EntryRecs
        /\ Ent("a", 3) \in EntryRecs /\ Ent(".", 2) \in EntryRecs
    BY EntTyped, NamesConstants DEF FileNames, NumOr0
  <1>2. E \in Seq(EntryRecs) /\ F \in Seq(EntryRecs)
    BY <1>1
  <1> HIDE DEF E, F
  <1>3. RootZones \in Seq(Zones) /\ <<2>> \in Seq(Zones)
    <2>1. <<1, 3>> \in Seq(Zones) /\ <<1>> \in Seq(Zones) /\ <<2>> \in Seq(Zones)
      BY NamesConstants
    <2> QED BY <2>1 DEF RootZones
  <1>4. a \in InodeRecs /\ a.count = 1
    BY <1>2, <1>3 DEF InodeRecs
  <1>5. b \in InodeRecs /\ b.count = 0
    BY <1>2, <1>3 DEF InodeRecs
  <1>6. c \in InodeRecs /\ c.count = 0
    BY BlankInode DEF InodeRecs
  <1>7. Blank \in InodeRecs /\ Blank.count = 0
    BY BlankInode
  <1>8. inode = [n \in Nums |-> CASE n = 1 -> a [] n = 2 -> b [] n = 3 -> c [] OTHER -> Blank]
    BY DEF NamesInit, E, F
  <1> HIDE DEF a, b, c
  <1>9. ASSUME NEW n \in Nums
        PROVE  inode[n] \in InodeRecs /\ inode[n].count = IF n = 1 THEN 1 ELSE 0
    <2>1. inode[n] = CASE n = 1 -> a [] n = 2 -> b [] n = 3 -> c [] OTHER -> Blank
      BY <1>8
    <2>2. CASE n = 1
      BY <1>4, <2>1, <2>2
    <2>3. CASE n = 2
      BY <1>5, <2>1, <2>3
    <2>4. CASE n = 3
      BY <1>6, <2>1, <2>4
    <2>5. CASE n # 1 /\ n # 2 /\ n # 3
      BY <1>7, <2>1, <2>5
    <2> QED BY <2>2, <2>3, <2>4, <2>5
  <1> QED BY <1>8, <1>9

\* Before the first call nobody has a reference, a descriptor or a buffer.
LEMMA NamesStart == NamesInit => NamesInv
  <1> HAVE NamesInit
  <1>1. inode \in [Nums -> InodeRecs] /\ \A n \in Nums : inode[n].count = IF n = 1 THEN 1 ELSE 0
    BY FirstInodes
  <1> DEFINE k == NoCall(MaxOps)
  <1>2. /\ k \in CallRecs /\ OnCourse(k) /\ ~Buffered(k) /\ k.fd = 0
    BY NamesConstants, NoCallKeeps
  <1>3. k.dir = 0 /\ k.ino = 0 /\ k.old = 0 /\ k.res = 0 /\ k.puts = <<>>
    BY DEF NoCall
  <1>4. proc = [p \in Procs |-> k]
    BY DEF NamesInit
  <1> HIDE DEF k
  <1>5. /\ filp = [p \in Procs |-> [d \in Fds |-> 0]] /\ held = [p \in Procs |-> 0]
        /\ file = [f \in FileNos |-> [count |-> 0, ino |-> 0]]
        /\ imap = {1, 2, 3} /\ zmap \subseteq {1, 2, 3} /\ panicked = FALSE /\ raced = FALSE
    BY DEF NamesInit, Fds, FileNos
  <1>6. NamesTyped
    <2>1. proc \in [Procs -> CallRecs] /\ held \in [Procs -> 0 .. 1]
      BY <1>2, <1>4, <1>5
    <2>2. [d \in Fds |-> 0] \in [Fds -> 0 .. NR_FILE]
      BY NamesConstants
    <2>3. [count |-> 0, ino |-> 0] \in FileRecs
      BY DEF FileRecs, NumOr0
    <2>4. filp \in [Procs -> [Fds -> 0 .. NR_FILE]] /\ file \in [FileNos -> FileRecs]
      BY <1>5, <2>2, <2>3
    <2>5. imap \subseteq Nums /\ zmap \subseteq Zones /\ panicked \in BOOLEAN /\ raced \in BOOLEAN
      BY <1>5, NamesConstants
    <2> QED BY <1>1, <2>1, <2>4, <2>5 DEF NamesTyped
  <1>7. CallsOnCourse
    BY <1>2, <1>4, <1>5 DEF CallsOnCourse
  <1>8. ASSUME NEW f \in FileNos PROVE Cardinality(Descriptors(f)) = 0
    <2>1. f # 0
      BY NamesConstants DEF FileNos
    <2>2. ASSUME NEW x \in Descriptors(f) PROVE FALSE
      <3>1. PICK q \in Procs, d \in Fds : x = <<q, d>> /\ filp[q][d] = f
        BY DEF Descriptors
      <3> QED BY <1>5, <2>1, <3>1
    <2>3. Descriptors(f) = {}
      BY <2>2
    <2> QED BY <2>3, FS_EmptySet
  <1>9. FilesCounted
    BY <1>5, <1>8 DEF FilesCounted
  <1>10. FilesReserved
    BY <1>2, <1>4 DEF FilesReserved
  <1>11. ASSUME NEW n \in Nums
         PROVE  inode[n].count = (IF n = 1 THEN 1 ELSE 0) + HandRefs(n) + FileRefs(file, n)
    <2>1. n # 0
      BY NamesConstants
    <2>2. /\ {p \in Procs : proc[p].dir = n} = {} /\ {p \in Procs : proc[p].ino = n} = {}
          /\ {p \in Procs : proc[p].old = n} = {} /\ {p \in Procs : proc[p].res = n} = {}
      BY <1>3, <1>4, <2>1
    <2>3. Len(k.puts) = 0
      BY <1>3
    <2>4. /\ {p \in Procs : Len(proc[p].puts) >= 1 /\ proc[p].puts[1] = n} = {}
          /\ {p \in Procs : Len(proc[p].puts) >= 2 /\ proc[p].puts[2] = n} = {}
      BY <1>4, <2>3
    <2>5. Cardinality({}) = 0
      BY FS_EmptySet
    <2>6. HandRefs(n) = 0
      <3>1. HandRefs(n) = Cardinality({p \in Procs : proc[p].dir = n}) + Cardinality({p \in Procs : proc[p].ino = n})
                + Cardinality({p \in Procs : proc[p].old = n}) + Cardinality({p \in Procs : proc[p].res = n})
                + Cardinality({p \in Procs : Len(proc[p].puts) >= 1 /\ proc[p].puts[1] = n})
                + Cardinality({p \in Procs : Len(proc[p].puts) >= 2 /\ proc[p].puts[2] = n})
        BY DEF HandRefs
      <3>2. HandRefs(n) = Cardinality({}) + Cardinality({}) + Cardinality({}) + Cardinality({})
                + Cardinality({}) + Cardinality({})
        BY <2>2, <2>4, <3>1, Zenon
      <3> QED BY <2>5, <3>2
    <2>7. {f \in FileNos : file[f].ino = n} = {}
      BY <1>5, <2>1
    <2>8. FileRefs(file, n) = 0
      BY <2>5, <2>7 DEF FileRefs
    <2> QED BY <1>1, <2>6, <2>8
  <1>12. InodesCounted
    BY <1>11 DEF InodesCounted
  <1>13. InodesInUse
    BY <1>1, <1>5 DEF InodesInUse
  <1> QED BY <1>6, <1>7, <1>9, <1>10, <1>12, <1>13 DEF NamesInv

\* A step that changes nothing.
LEMMA NamesStutter ==
    ASSUME NamesInv, UNCHANGED namesVars
    PROVE  NamesInv'
  <1>1. /\ inode' = inode /\ imap' = imap /\ zmap' = zmap /\ proc' = proc /\ filp' = filp /\ file' = file
        /\ held' = held /\ panicked' = panicked /\ raced' = raced
    BY DEF namesVars, fvars
  <1>2. NamesTyped' /\ CallsOnCourse'
    BY <1>1 DEF NamesInv, NamesTyped, CallsOnCourse
  <1>3. \A f : Descriptors(f)' = Descriptors(f)
    BY <1>1 DEF Descriptors
  <1>4. FilesCounted' /\ FilesReserved'
    BY <1>1, <1>3 DEF NamesInv, FilesCounted, FilesReserved
  <1>5. \A n : HandRefs(n)' = HandRefs(n)
    BY <1>1 DEF HandRefs
  <1>6. raced' \/ (InodesCounted' /\ InodesInUse')
    BY <1>1, <1>5 DEF NamesInv, InodesCounted, InodesInUse
  <1> QED BY <1>2, <1>4, <1>6 DEF NamesInv

\* Every step of every call keeps the invariant.
LEMMA NamesKept == NamesInv /\ [NamesNext]_namesVars => NamesInv'
  <1> SUFFICES ASSUME NamesInv, [NamesNext]_namesVars
               PROVE  NamesInv'
    OBVIOUS
  <1>1. CASE UNCHANGED namesVars
    BY <1>1, NamesStutter
  <1>2. ASSUME NEW p \in Procs,
               \/ Start(p) \/ Walk(p) \/ Look(p) \/ Step(p) \/ Find(p) \/ Iget(p) \/ DiskChange(p)
               \/ Again(p) \/ New(p) \/ Block(p) \/ InitDir(p) \/ NextBlock(p) \/ Extend(p)
               \/ Extended(p) \/ Unmake(p) \/ Add(p) \/ Linked(p) \/ Unlink(p) \/ Rmdir(p)
               \/ LookEmpty(p) \/ NotEmpty(p) \/ Remove(p) \/ Close(p) \/ Dup(p) \/ Put(p)
        PROVE  NamesInv'
    BY <1>2, StartKeeps, WalkKeeps, StepKeeps, FindKeeps, IgetKeeps, AgainKeeps, NewKeeps, BlockKeeps,
       InitDirKeeps, ExtendKeeps, UnmakeKeeps, AddKeeps, LinkedKeeps, UnlinkKeeps, RmdirKeeps,
       RemoveKeeps, CloseKeeps, DupKeeps, PutKeeps, LookKeeps, DiskChangeKeeps, NextBlockKeeps,
       ExtendedKeeps, LookEmptyKeeps, NotEmptyKeeps
  <1>3. ASSUME NEW p \in Procs, NEW q \in Procs, ForkFiles(p, q)
        PROVE  NamesInv'
    BY <1>3, ForkFilesKeeps
  <1> QED BY <1>1, <1>2, <1>3 DEF NamesNext

\* The invariant says what Balanced says.
LEMMA NamesInvBalanced == NamesInv => Balanced
  <1> HAVE NamesInv
  <1>1. NamesTyped /\ CallsOnCourse /\ FilesCounted /\ (raced \/ InodesCounted)
    BY DEF NamesInv
  <1>2. NamesTypeOK
    <2>1. ASSUME NEW n \in Nums
          PROVE  /\ inode[n].count \in Nat /\ inode[n].nlinks \in Nat
                 /\ inode[n].isdir \in BOOLEAN /\ inode[n].zones \in Seq(Zones)
      BY <1>1, InodeRecFields DEF NamesTyped
    <2>2. ASSUME NEW p \in Procs
          PROVE  /\ {proc[p].dir, proc[p].ino, proc[p].old, proc[p].inr, proc[p].res} \subseteq Nums \cup {0}
                 /\ held[p] \in 0 .. 1 /\ proc[p].fd \in 0 .. NR_OPEN /\ Len(proc[p].puts) <= 2
      <3>1. proc[p] \in CallRecs /\ held[p] \in 0 .. 1 /\ Len(proc[p].puts) <= 2
        BY <1>1 DEF NamesTyped, CallsOnCourse, OnCourse
      <3>2. /\ proc[p].dir \in NumOr0 /\ proc[p].ino \in NumOr0 /\ proc[p].old \in NumOr0
            /\ proc[p].inr \in NumOr0 /\ proc[p].res \in NumOr0 /\ proc[p].fd \in 0 .. NR_OPEN
        BY <3>1, CallRecFields
      <3> QED BY <3>1, <3>2 DEF NumOr0
    <2>3. /\ imap \subseteq Nums /\ zmap \subseteq Zones
          /\ filp \in [Procs -> [1 .. NR_OPEN -> 0 .. NR_FILE]]
          /\ file \in [1 .. NR_FILE -> [count : Nat, ino : Nums \cup {0}]]
          /\ panicked \in BOOLEAN /\ raced \in BOOLEAN
      BY <1>1 DEF NamesTyped, Fds, FileNos, FileRecs, NumOr0
    <2> QED BY <2>1, <2>2, <2>3 DEF NamesTypeOK
  <1>3. ASSUME ~raced, NEW n \in Nums
        PROVE  inode[n].count = (IF n = 1 THEN 1 ELSE 0) + HandRefs(n)
                                       + Cardinality({f \in 1 .. NR_FILE : file[f].ino = n})
    BY <1>1, <1>3 DEF InodesCounted, FileRefs, FileNos
  <1>4. \A f \in 1 .. NR_FILE :
          /\ file[f].count = Cardinality({x \in Procs \X (1 .. NR_OPEN) : filp[x[1]][x[2]] = f})
          /\ file[f].count = 0 => file[f].ino = 0
          /\ file[f].count > 0 /\ file[f].ino = 0 =>
                \E p \in Procs : proc[p].fd # 0 /\ filp[p][proc[p].fd] = f
    BY <1>1 DEF FilesCounted, Descriptors, FileNos, Fds
  <1>5. \A p \in Procs : proc[p].pc \in {"idle", "puts"} => held[p] = 0
    BY <1>1 DEF CallsOnCourse, Buffered
  <1> QED BY <1>2, <1>3, <1>4, <1>5 DEF Balanced

\* Every way through every call gives back exactly what it took (Balanced):
\* i_count is the number of references until two calls meet in a window, f_count
\* the number of descriptors, and no buffer is kept but the one empty_dir keeps of
\* a bad directory, for any number of processes, inodes, blocks and calls.
THEOREM CallsAreBalanced == NamesSpec => []Balanced
  <1>1. NamesSpec => []NamesInv
    BY NamesStart, NamesKept, PTL DEF NamesSpec
  <1> QED BY <1>1, NamesInvBalanced, PTL
=============================================================================

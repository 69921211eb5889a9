----------------------------- MODULE WaitQueue -----------------------------
(***************************************************************************)
(* The sleep/wake primitives of kernel/sched.c.                            *)
(*                                                                         *)
(* A wait queue is a single task pointer `*p`.  Each sleeper saves the     *)
(* pointer it found there in the local `tmp` of its own kernel stack, so   *)
(* the real queue is a chain threaded through the stacks of the sleepers;  *)
(* wake_up only wakes the head and every sleeper wakes the next on its way *)
(* out.                                                                    *)
(*                                                                         *)
(* The kernel is not preemptive and every caller whose queue is woken by   *)
(* an interrupt (wait_for_request excepted, see BlockQueue) calls with     *)
(* interrupts off, so the code between two calls of schedule() is one      *)
(* step.  Which queues are slept on by interruptible_sleep_on is fixed for  *)
(* a behaviour; no queue of the kernel is used by both functions.          *)
(*                                                                         *)
(* The names differ from those of Processes, so that one module can extend *)
(* both.                                                                   *)
(***************************************************************************)
CONSTANTS Tasks, Queues, NIL

ASSUME NilIsNoTask == NIL \notin Tasks /\ NIL \notin Queues

VARIABLES
    queue,   \* queue[q]: the pointer *p
    state,   \* state[t]: the task's state field
    signal,  \* signal[t]: an unblocked signal is pending
    pc,      \* pc[t]: where the task is
    on,      \* on[t]: the queue the task is inside sleep_on for
    tmp,     \* tmp[t]: the local variable of that activation
    interruptible   \* the queues slept on by interruptible_sleep_on (fixed)

sleepVars == <<queue, state, signal, pc, on, tmp, interruptible>>

RUNNING == "TASK_RUNNING"
INTERRUPTIBLE == "TASK_INTERRUPTIBLE"
UNINTERRUPTIBLE == "TASK_UNINTERRUPTIBLE"
ZOMBIE == "TASK_ZOMBIE"

SleepTypes ==
    /\ queue \in [Queues -> Tasks \cup {NIL}]
    /\ state \in [Tasks -> {RUNNING, INTERRUPTIBLE, UNINTERRUPTIBLE, ZOMBIE}]
    /\ signal \in [Tasks -> BOOLEAN]
    /\ pc \in [Tasks -> {"outside", "sleep_on", "interruptible_sleep_on", "do_exit"}]
    /\ on \in [Tasks -> Queues \cup {NIL}]
    /\ tmp \in [Tasks -> Tasks \cup {NIL}]
    /\ interruptible \subseteq Queues

SleepInit ==
    /\ queue = [q \in Queues |-> NIL]
    /\ state = [t \in Tasks |-> RUNNING]
    /\ signal = [t \in Tasks |-> FALSE]
    /\ pc = [t \in Tasks |-> "outside"]
    /\ on = [t \in Tasks |-> NIL]
    /\ tmp = [t \in Tasks |-> NIL]
    /\ interruptible \in SUBSET Queues

-----------------------------------------------------------------------------
\* `if (u) u->state = 0' applied to the state function s.
SetRunning(s, u) == [t \in Tasks |-> IF t = u THEN RUNNING ELSE s[t]]

\* The first loop of schedule(): every interruptible task with a signal is
\* made runnable.  (Which runnable task is then picked is left open.)
WakeSignalled(s) ==
    [t \in Tasks |-> IF s[t] = INTERRUPTIBLE /\ signal[t] THEN RUNNING ELSE s[t]]

Outside(t) == pc[t] = "outside" /\ state[t] = RUNNING

\* schedule() called by the timer interrupt of a task in user mode.
Schedule ==
    /\ state # WakeSignalled(state)
    /\ state' = WakeSignalled(state)
    /\ UNCHANGED <<queue, signal, pc, on, tmp, interruptible>>

\* Entering a sleep on q in task state s, with the pointer `saved' in tmp.
Enter(t, q, s, label, saved) ==
    /\ Outside(t)
    /\ tmp' = [tmp EXCEPT ![t] = saved]
    /\ queue' = [queue EXCEPT ![q] = t]
    /\ state' = WakeSignalled([state EXCEPT ![t] = s])
    /\ pc' = [pc EXCEPT ![t] = label]
    /\ on' = [on EXCEPT ![t] = q]
    /\ UNCHANGED <<signal, interruptible>>

\* Mutants: the old head is not saved; the wrong task state.
SleepOn_NoSave(t, q) == Enter(t, q, UNINTERRUPTIBLE, "sleep_on", NIL)
SleepOn_Interruptible(t, q) == Enter(t, q, INTERRUPTIBLE, "sleep_on", queue[q])

\* sleep_on up to and including its call of schedule().
SleepOn(t, q) == Enter(t, q, UNINTERRUPTIBLE, "sleep_on", queue[q])

\* The activation of t ends.
Leave(t) ==
    /\ pc' = [pc EXCEPT ![t] = "outside"]
    /\ on' = [on EXCEPT ![t] = NIL]
    /\ tmp' = [tmp EXCEPT ![t] = NIL]
    /\ UNCHANGED <<signal, interruptible>>

\* Mutant: the next sleeper is not woken.
SleepOnReturn_NoWake(t) ==
    pc[t] = "sleep_on" /\ state[t] = RUNNING /\ Leave(t) /\ UNCHANGED <<queue, state>>

\* The rest of sleep_on, once the task runs again.
SleepOnReturn(t) ==
    /\ pc[t] = "sleep_on" /\ state[t] = RUNNING
    /\ state' = SetRunning(state, tmp[t])
    /\ Leave(t)
    /\ UNCHANGED queue

\* interruptible_sleep_on up to and including its first call of schedule().
InterruptibleSleepOn(t, q) == Enter(t, q, INTERRUPTIBLE, "interruptible_sleep_on", queue[q])

\* Somebody else is at the head of the queue: wake him and `goto repeat'.
InterruptibleRepeat(t) ==
    /\ pc[t] = "interruptible_sleep_on" /\ state[t] = RUNNING
    /\ queue[on[t]] \notin {NIL, t}
    /\ state' = WakeSignalled([SetRunning(state, queue[on[t]]) EXCEPT ![t] = INTERRUPTIBLE])
    /\ UNCHANGED <<queue, signal, pc, on, tmp, interruptible>>

\* Nobody, or the task itself, is at the head: empty the queue and leave.
InterruptibleReturn(t) ==
    /\ pc[t] = "interruptible_sleep_on" /\ state[t] = RUNNING
    /\ queue[on[t]] \in {NIL, t}
    /\ queue' = [queue EXCEPT ![on[t]] = NIL]
    /\ state' = SetRunning(state, tmp[t])
    /\ Leave(t)

\* wake_up, called by a task or by an interrupt handler.
WakeUp(q) ==
    /\ queue[q] # NIL
    /\ state' = SetRunning(state, queue[q])
    /\ queue' = [queue EXCEPT ![q] = NIL]
    /\ UNCHANGED <<signal, pc, on, tmp, interruptible>>

\* send_sig, called by another task, an alarm or the tty interrupt.
SendSig(t) ==
    /\ ~signal[t]
    /\ pc[t] # "do_exit"
    /\ signal' = [signal EXCEPT ![t] = TRUE]
    /\ UNCHANGED <<queue, state, pc, on, tmp, interruptible>>

\* do_signal with a handler (or SIGCHLD): the bit is cleared, the task goes on.
CatchSignal(t) ==
    /\ Outside(t)
    /\ signal[t]
    /\ signal' = [signal EXCEPT ![t] = FALSE]
    /\ UNCHANGED <<queue, state, pc, on, tmp, interruptible>>

\* do_signal without a handler: do_exit, which ends in schedule().
DoExit(t) ==
    /\ Outside(t)
    /\ signal[t]
    /\ signal' = [signal EXCEPT ![t] = FALSE]
    /\ state' = WakeSignalled([state EXCEPT ![t] = ZOMBIE])
    /\ pc' = [pc EXCEPT ![t] = "do_exit"]
    /\ UNCHANGED <<queue, on, tmp, interruptible>>

Resume(t) == SleepOnReturn(t) \/ InterruptibleRepeat(t) \/ InterruptibleReturn(t)

SleepNext ==
    \/ Schedule
    \/ \E t \in Tasks :
          \/ \E q \in Queues \ interruptible : SleepOn(t, q)
          \/ \E q \in interruptible : InterruptibleSleepOn(t, q)
          \/ Resume(t)
          \/ SendSig(t) \/ CatchSignal(t) \/ DoExit(t)
    \/ \E q \in Queues : WakeUp(q)

\* Every runnable task is eventually given the processor (schedule() recharges
\* the counters when all are used up), and the timer keeps calling schedule().
Fairness == WF_sleepVars(Schedule) /\ \A t \in Tasks : WF_sleepVars(Resume(t))

SleepSpec == SleepInit /\ [][SleepNext]_sleepVars /\ Fairness

-----------------------------------------------------------------------------
Asleep(t) == pc[t] = "sleep_on" /\ state[t] # RUNNING

\* Somebody will wake t: it is the head of its queue, or the saved pointer of
\* another activation of sleep_on on the same queue.
Referenced(t) ==
    \/ queue[on[t]] = t
    \/ \E u \in Tasks \ {t} : pc[u] = "sleep_on" /\ on[u] = on[t] /\ tmp[u] = t

\* No task sleeping in sleep_on is ever dropped from its chain, although the
\* chain lives on the stacks of the sleepers, newcomers push themselves on it
\* while older sleepers are on their way out, and interruptible sleepers may
\* wake an uninterruptible one out of turn.
NoOrphan == \A t \in Tasks : Asleep(t) => Referenced(t)

\* When interruptible_sleep_on is not used, the pointers form proper lists:
\* whoever a queue head or a saved pointer names is still asleep on that same
\* queue, and no two pointers name the same task.  So `tmp->state=0' never
\* wakes a task that has gone on to something else, and never a dead one.
ProperChains ==
    interruptible = {} =>
        /\ \A q \in Queues : queue[q] # NIL => Asleep(queue[q]) /\ on[queue[q]] = q
        /\ \A u \in Tasks : (pc[u] = "sleep_on" /\ tmp[u] # NIL) =>
                Asleep(tmp[u]) /\ on[tmp[u]] = on[u] /\ tmp[u] # u
        /\ \A u, v \in Tasks :
                (pc[u] = "sleep_on" /\ pc[v] = "sleep_on" /\ tmp[u] = tmp[v] /\ tmp[u] # NIL)
                    => u = v
        /\ \A q \in Queues, u \in Tasks :
                (queue[q] # NIL /\ pc[u] = "sleep_on") => tmp[u] # queue[q]

\* A task in do_exit is a zombie for good: its last schedule() does not return.
ZombieStaysDead == \A t \in Tasks : pc[t] = "do_exit" => state[t] = ZOMBIE
=============================================================================

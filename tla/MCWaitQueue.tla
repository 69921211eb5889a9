---------------------------- MODULE MCWaitQueue ----------------------------
(***************************************************************************)
(* Model-checking instances of WaitQueue, the chain a queue stands for,    *)
(* and the refinement of WaitSet.                                          *)
(***************************************************************************)
EXTENDS WaitQueue, Naturals, FiniteSets

Inside(q) == {t \in Tasks : pc[t] = "sleep_on" /\ on[t] = q}

\* The tasks inside sleep_on for q that will be woken because a task of the
\* queue is runnable already: those a runnable one leads to through the saved
\* pointers.
Released(q) ==
    LET reach[n \in 0 .. Cardinality(Tasks)] ==
            IF n = 0 THEN {t \in Inside(q) : state[t] = RUNNING}
            ELSE LET r == reach[n - 1] IN r \cup (Inside(q) \cap {tmp[t] : t \in r})
    IN  reach[Cardinality(Tasks)]

Waiting(q) == Inside(q) \ Released(q)

Abstract == INSTANCE WaitSet WITH
    waiting  <- [q \in Queues |-> IF interruptible # {} THEN {} ELSE Waiting(q)],
    released <- [q \in Queues |-> IF interruptible # {} THEN {} ELSE Released(q)]

\* Where only sleep_on is used, its chain implements a set of waiters: wake_up
\* releases exactly the tasks asleep at that moment, the tasks that come later
\* are not released with them, and every released task returns.
WaitSetSpec == Abstract!Spec

\* Also where interruptible sleepers wake tasks out of turn, a task that wake_up
\* has released returns from sleep_on, even if nobody ever calls wake_up again.
ReleasedReturns ==
    \A t \in Tasks : (\E q \in Queues \ interruptible : t \in Released(q)) ~> (pc[t] = "outside")
=============================================================================

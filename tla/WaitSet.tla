------------------------------ MODULE WaitSet ------------------------------
(***************************************************************************)
(* What a wait queue promises, without the chain through the stacks: a     *)
(* task waits, a wake-up releases every task waiting at that moment and no *)
(* other, and a released task eventually returns.                          *)
(***************************************************************************)
CONSTANTS Tasks, Queues

VARIABLES waiting, released    \* both in [Queues -> SUBSET Tasks]

wvars == <<waiting, released>>

Init ==
    /\ waiting = [q \in Queues |-> {}]
    /\ released = [q \in Queues |-> {}]

Idle(t) == \A q \in Queues : t \notin waiting[q] \cup released[q]

Wait(t, q) ==
    /\ Idle(t)
    /\ waiting' = [waiting EXCEPT ![q] = @ \cup {t}]
    /\ UNCHANGED released

WakeAll(q) ==
    /\ waiting[q] # {}
    /\ waiting' = [waiting EXCEPT ![q] = {}]
    /\ released' = [released EXCEPT ![q] = @ \cup waiting[q]]

Return(t, q) ==
    /\ t \in released[q]
    /\ released' = [released EXCEPT ![q] = @ \ {t}]
    /\ UNCHANGED waiting

Next ==
    \E q \in Queues : WakeAll(q) \/ \E t \in Tasks : Wait(t, q) \/ Return(t, q)

Spec ==
    /\ Init /\ [][Next]_wvars
    /\ \A t \in Tasks, q \in Queues : WF_wvars(Return(t, q))
=============================================================================

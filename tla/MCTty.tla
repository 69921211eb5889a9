------------------------------- MODULE MCTty -------------------------------
(* The instance of Tty that TLC checks. *)
EXTENDS Tty

\* INIT_C_CC, and one in which what may be queued ends the input and what
\* killed the line interrupts.
INIT_C_CC == [VINTR |-> "^C", VERASE |-> "DEL", VKILL |-> "^U", VEOF |-> "^D"]
Other == [INIT_C_CC EXCEPT !.VEOF = "a", !.VINTR = "^U", !.VKILL = "^C"]

\* What rs_init leaves, what a login on the line sets, and a change of c_cc.
Canonical == {"ICANON", "ECHO", "ISIG"}
Raw_Login_Other ==
    {[c_lflag |-> {}, c_cc |-> INIT_C_CC], [c_lflag |-> Canonical, c_cc |-> INIT_C_CC],
     [c_lflag |-> Canonical, c_cc |-> Other]}
=============================================================================

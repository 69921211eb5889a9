-------------------------------- MODULE Tty --------------------------------
(***************************************************************************)
(* A terminal on a serial line: kernel/chr_drv/tty_io.c (line discipline,  *)
(* tty_read, tty_write), rs_io.s and serial.c (interrupts) and the parts   *)
(* of tty_ioctl.c that change the queues or the mode.                      *)
(*                                                                         *)
(* There is a process that reads and one that writes.  In the kernel a     *)
(* process keeps the processor until it sleeps, calls schedule() or        *)
(* returns; interrupts come between any two of its steps, except where it  *)
(* runs with interrupts off.  The interrupts of one line do not nest: its  *)
(* interrupt controller is told of the end only after the handler.         *)
(*                                                                         *)
(* Of the write queue only the number of characters matters, and the input *)
(* flags (ICRNL and the like) only map what is typed to what is queued;    *)
(* VTIME stays 0 and VMIN 1, as in INIT_C_CC.                              *)
(***************************************************************************)
EXTENDS Integers, Sequences, FiniteSets

CONSTANTS
    TTY_BUF_SIZE,   \* places of a queue; one stays free
    ROOM,           \* 20: tty_read does not wait for a line when LEFT <= ROOM
    LOW,            \* 128: a writer waits for so many free places
    STARTUP,        \* 256: characters left when a writer is woken
    Chars,          \* what is typed
    Termios,        \* what termios ever is: flags set, characters with a meaning
    MaxRead,        \* most bytes a read call asks for
    MaxWrite,       \* most bytes a write call asks for
    MaxTyped        \* characters typed in all

ASSUME TtyConstants ==
    /\ {TTY_BUF_SIZE, LOW, MaxRead, MaxWrite, MaxTyped} \subseteq Nat \ {0} /\ {ROOM, STARTUP} \subseteq Nat
    /\ STARTUP + LOW < TTY_BUF_SIZE
    /\ Termios # {}
    /\ \A t \in Termios :
         /\ t.c_lflag \subseteq {"ICANON", "ECHO", "ISIG"}
         /\ {"VINTR", "VERASE", "VKILL", "VEOF"} \subseteq DOMAIN t.c_cc

VARIABLES
    read_q, secondary,  \* the characters in the two input queues
    data,               \* secondary.data: lines in it
    wq,                 \* CHARS(write_q)
    thri,               \* the transmit interrupt is enabled
    termios,
    intr,               \* copy_to_cooked runs
    rd, wr,             \* the reading and the writing process
    woken,              \* those that wake_up has made runnable
    sig,                \* those with a signal
    raced,              \* history: tty_read took a character from an empty queue
    recounted,          \* history: VEOF changed what ends the lines queued
    typed               \* history: number of characters typed

vars == <<read_q, secondary, data, wq, thri, termios, intr, rd, wr, woken, sig, raced, recounted, typed>>

lflag == termios.c_lflag
c_cc == termios.c_cc

LineEnd == {"NL", c_cc.VEOF}
\* Where the characters of L are in the queue s.
Ends(L, s) == {i \in DOMAIN s : s[i] \in L}
Full == TTY_BUF_SIZE - 1

TypeOK ==
    /\ read_q \in Seq(Chars) /\ Len(read_q) <= Full
    /\ secondary \in Seq(Chars) /\ Len(secondary) <= Full
    /\ data \in Int /\ wq \in 0 .. Full /\ thri \in BOOLEAN
    /\ termios \in Termios
    /\ rd \in [pc : {"user", "top", "get", "test", "sleep"}, nr : 0 .. MaxRead]
    /\ wr \in [pc : {"user", "full", "sleep", "fill", "ready"}, nr : 0 .. MaxWrite, cr : BOOLEAN]
    /\ intr \in BOOLEAN /\ raced \in BOOLEAN /\ recounted \in BOOLEAN /\ typed \in 0 .. MaxTyped
    /\ woken \subseteq {"rd", "wr"} /\ sig \subseteq {"rd", "wr"}

Init ==
    /\ read_q = <<>> /\ secondary = <<>> /\ data = 0 /\ wq = 0 /\ thri = FALSE
    /\ termios \in Termios /\ intr = FALSE
    /\ rd = [pc |-> "user", nr |-> 0] /\ wr = [pc |-> "user", nr |-> 0, cr |-> FALSE]
    /\ woken = {} /\ sig = {} /\ raced = FALSE /\ recounted = FALSE /\ typed = 0

\* Nobody runs in the kernel, so that the scheduler may choose.
Free == rd.pc \in {"user", "sleep"} /\ wr.pc \in {"user", "sleep", "ready"}

-----------------------------------------------------------------------------
\* read_char: the character is dropped when read_q is full; do_tty_interrupt.
read_char(c) ==
    /\ ~intr /\ typed < MaxTyped
    /\ typed' = typed + 1
    /\ read_q' = IF Len(read_q) < Full THEN Append(read_q, c) ELSE read_q
    /\ intr' = TRUE
    /\ UNCHANGED <<secondary, data, wq, thri, termios, rd, wr, woken, sig, raced, recounted>>

\* PUTCH(.., write_q) n times with no test for room (in a full queue it makes
\* head = tail: the queue is empty), then rs_write: start sending.
\* Mutant: the transmit interrupt is left as it is.
Echo_NoStart(n) ==
    /\ wq' = IF "ECHO" \in lflag THEN (wq + n) % TTY_BUF_SIZE ELSE wq
    /\ thri' = thri

Echo(n) ==
    /\ wq' = IF "ECHO" \in lflag THEN (wq + n) % TTY_BUF_SIZE ELSE wq
    /\ thri' = (thri \/ ("ECHO" \in lflag /\ wq' # 0))

\* What an echoed character takes: two places for a control character.
Width(c) == IF c \in {"a", "DEL"} THEN 1 ELSE 2

\* One round of copy_to_cooked's loop is one of the next four actions.
Cooking(c) == intr /\ read_q # <<>> /\ Len(secondary) < Full /\ c = Head(read_q)
Editing(c) == "ICANON" \in lflag /\ c \in {c_cc.VKILL, c_cc.VERASE}
Interrupting(c) == ~Editing(c) /\ "ISIG" \in lflag /\ c = c_cc.VINTR
Editable == secondary # <<>> /\ secondary[Len(secondary)] \notin LineEnd
DropLast == secondary' = SubSeq(secondary, 1, Len(secondary) - 1)

\* KILL_CHAR, which stays in read_q until the line is empty, and ERASE_CHAR.
\* Mutant: the end of the line before is erased as well.
Erase_PastLine(c) ==
    /\ Cooking(c) /\ Editing(c)
    /\ IF secondary # <<>>
       THEN DropLast /\ Echo(Width(secondary[Len(secondary)]))
       ELSE UNCHANGED <<secondary, wq, thri>>
    /\ read_q' = IF c = c_cc.VKILL /\ secondary # <<>> THEN read_q ELSE Tail(read_q)
    /\ UNCHANGED <<data, termios, intr, rd, wr, woken, sig, raced, recounted, typed>>

Erase(c) ==
    /\ Cooking(c) /\ Editing(c)
    /\ IF Editable
       THEN DropLast /\ Echo(Width(secondary[Len(secondary)]))
       ELSE UNCHANGED <<secondary, wq, thri>>
    /\ read_q' = IF c = c_cc.VKILL /\ Editable THEN read_q ELSE Tail(read_q)
    /\ UNCHANGED <<data, termios, intr, rd, wr, woken, sig, raced, recounted, typed>>

\* INTR_CHAR and QUIT_CHAR: tty_intr signals the foreground processes, but
\* wakes nobody: schedule() finds the signals of those that sleep.
tty_intr(c) ==
    /\ Cooking(c) /\ Interrupting(c)
    /\ sig' = {p \in {"rd", "wr"} : (IF p = "rd" THEN rd.pc ELSE wr.pc) # "user"}
    /\ read_q' = Tail(read_q)
    /\ UNCHANGED <<secondary, data, wq, thri, termios, intr, rd, wr, woken, raced, recounted, typed>>

\* Any other character: counted when it ends a line, echoed and queued.
Cook(c) ==
    /\ Cooking(c) /\ ~Editing(c) /\ ~Interrupting(c)
    /\ data' = data + (IF c \in LineEnd THEN 1 ELSE 0)
    /\ Echo(Width(c))
    /\ secondary' = Append(secondary, c)
    /\ read_q' = Tail(read_q)
    /\ UNCHANGED <<termios, intr, rd, wr, woken, sig, raced, recounted, typed>>

\* The end of copy_to_cooked: wake_up(&secondary.proc_list).  Mutant: only
\* a complete line wakes the reader.
Cooked_LineOnly ==
    /\ intr /\ (read_q = <<>> \/ Len(secondary) = Full)
    /\ woken' = IF rd.pc = "sleep" /\ data > 1 THEN woken \cup {"rd"} ELSE woken
    /\ intr' = FALSE
    /\ UNCHANGED <<read_q, secondary, data, wq, thri, termios, rd, wr, sig, raced, recounted, typed>>

Cooked ==
    /\ intr /\ (read_q = <<>> \/ Len(secondary) = Full)
    /\ woken' = IF rd.pc = "sleep" THEN woken \cup {"rd"} ELSE woken
    /\ intr' = FALSE
    /\ UNCHANGED <<read_q, secondary, data, wq, thri, termios, rd, wr, sig, raced, recounted, typed>>

\* write_char, the transmit interrupt: a character is sent, a waiting writer
\* woken when few are left; the interrupt is disabled when none is.
\* Mutant: the writer is not woken by an empty queue.
write_char_NoWake ==
    /\ ~intr /\ thri
    /\ wq' = IF wq = 0 THEN 0 ELSE wq - 1
    /\ thri' = (wq' # 0)
    /\ woken' = IF wr.pc = "sleep" /\ wq \in 1 .. STARTUP THEN woken \cup {"wr"} ELSE woken
    /\ UNCHANGED <<read_q, secondary, data, termios, intr, rd, wr, sig, raced, recounted, typed>>

write_char ==
    /\ ~intr /\ thri
    /\ wq' = IF wq = 0 THEN 0 ELSE wq - 1
    /\ thri' = (wq' # 0)
    /\ woken' = IF wr.pc = "sleep" /\ (wq <= STARTUP \/ wq' = 0) THEN woken \cup {"wr"} ELSE woken
    /\ UNCHANGED <<read_q, secondary, data, termios, intr, rd, wr, sig, raced, recounted, typed>>

-----------------------------------------------------------------------------
\* A process returns to user mode, where its signals are handled.
Returns(p) == sig' = sig \ {p} /\ woken' = woken \ {p}

\* tty_read is called.
ReadCall(n) ==
    /\ ~intr /\ Free /\ rd.pc = "user"
    /\ rd' = [pc |-> "top", nr |-> n]
    /\ UNCHANGED <<read_q, secondary, data, wq, thri, termios, intr, wr, woken, sig, raced, recounted, typed>>

NoLine == "ICANON" \in lflag /\ data = 0 /\ Full - Len(secondary) > ROOM

\* The processor is kept by a tty_read that waits for the rest of a line: the
\* queue is not empty, so that sleep_if_empty does not sleep.
Spinning == rd.pc = "top" /\ "rd" \notin sig /\ secondary # <<>> /\ NoLine

\* The top of the loop: a signal; round and round; nothing to read
\* (sleep_if_empty); or a start.
ReadTop ==
    /\ ~intr /\ rd.pc = "top"
    /\ \/ "rd" \in sig /\ rd' = [pc |-> "user", nr |-> 0] /\ Returns("rd")
       \/ Spinning /\ UNCHANGED <<rd, sig, woken>>
       \/ /\ "rd" \notin sig /\ ~Spinning
          /\ rd' = [rd EXCEPT !.pc = IF secondary = <<>> THEN "sleep" ELSE "get"]
          /\ UNCHANGED <<sig, woken>>
    /\ UNCHANGED <<read_q, secondary, data, wq, thri, termios, intr, wr, raced, recounted, typed>>

\* sleep_if_empty goes on: to sleep again, or back to the loop.
ReadWoken ==
    /\ ~intr /\ Free /\ rd.pc = "sleep" /\ "rd" \in woken \cup sig
    /\ rd' = [rd EXCEPT !.pc = IF "rd" \notin sig /\ secondary = <<>> THEN "sleep" ELSE "top"]
    /\ woken' = woken \ {"rd"}
    /\ UNCHANGED <<read_q, secondary, data, wq, thri, termios, intr, wr, sig, raced, recounted, typed>>

\* GETCH and what is done with the character.  If an interrupt erased the
\* rest of the line since the test, the tail passes the head and the queue is
\* full of what it held before.
Taken(c) ==
    /\ data' = data - (IF c \in LineEnd THEN 1 ELSE 0)
    /\ IF c = c_cc.VEOF /\ "ICANON" \in lflag
       THEN rd' = [pc |-> "user", nr |-> 0] /\ Returns("rd")
       ELSE IF rd.nr = 1
       THEN rd' = [pc |-> "user", nr |-> 0] /\ Returns("rd")
       ELSE rd' = [pc |-> "test", nr |-> rd.nr - 1] /\ UNCHANGED <<sig, woken>>

ReadGet ==
    /\ ~intr /\ rd.pc = "get"
    /\ IF secondary # <<>>
       THEN Taken(Head(secondary)) /\ secondary' = Tail(secondary) /\ UNCHANGED raced
       ELSE /\ raced' = TRUE
            /\ \E c \in Chars : Taken(c) /\ secondary' = [i \in 1 .. Full |-> c]
    /\ UNCHANGED <<read_q, wq, thri, termios, intr, wr, recounted, typed>>

\* The end of the inner loop: on while the queue has more, else return.
ReadTest ==
    /\ ~intr /\ rd.pc = "test"
    /\ IF secondary # <<>>
       THEN rd' = [rd EXCEPT !.pc = "get"] /\ UNCHANGED <<sig, woken>>
       ELSE rd' = [pc |-> "user", nr |-> 0] /\ Returns("rd")
    /\ UNCHANGED <<read_q, secondary, data, wq, thri, termios, intr, wr, raced, recounted, typed>>

-----------------------------------------------------------------------------
\* tty_write is called.
WriteCall(n) ==
    /\ ~intr /\ Free /\ wr.pc = "user"
    /\ wr' = [wr EXCEPT !.pc = "full", !.nr = n]
    /\ UNCHANGED <<read_q, secondary, data, wq, thri, termios, intr, rd, woken, sig, raced, recounted, typed>>

\* sleep_if_full, and the test for a signal that follows.
WriteTop ==
    /\ ~intr /\ wr.pc = "full"
    /\ \/ "wr" \in sig /\ wr' = [wr EXCEPT !.pc = "user", !.nr = 0] /\ Returns("wr")
       \/ /\ "wr" \notin sig /\ wr' = [wr EXCEPT !.pc = IF wq = Full THEN "sleep" ELSE "fill"]
          /\ UNCHANGED <<sig, woken>>
    /\ UNCHANGED <<read_q, secondary, data, wq, thri, termios, intr, rd, raced, recounted, typed>>

WriteWoken ==
    /\ ~intr /\ Free /\ wr.pc = "sleep" /\ "wr" \in woken \cup sig
    /\ IF "wr" \in sig
       THEN wr' = [wr EXCEPT !.pc = "user", !.nr = 0] /\ Returns("wr")
       ELSE /\ wr' = [wr EXCEPT !.pc = IF Full - wq < LOW THEN "sleep" ELSE "fill"]
            /\ woken' = woken \ {"wr"} /\ UNCHANGED sig
    /\ UNCHANGED <<read_q, secondary, data, wq, thri, termios, intr, rd, raced, recounted, typed>>

\* PUTCH of a character, or of the CR before an NL (cr_flag).
WriteFill ==
    /\ ~intr /\ wr.pc = "fill" /\ wr.nr > 0 /\ wq < Full
    /\ wq' = wq + 1
    /\ \/ ~wr.cr /\ wr' = [wr EXCEPT !.cr = TRUE]
       \/ wr' = [wr EXCEPT !.nr = @ - 1, !.cr = FALSE]
    /\ UNCHANGED <<read_q, secondary, data, thri, termios, intr, rd, woken, sig, raced, recounted, typed>>

\* rs_write; then return, or let others run and begin again.
WriteStart ==
    /\ ~intr /\ wr.pc = "fill" /\ (wr.nr = 0 \/ wq = Full)
    /\ thri' = (thri \/ wq # 0)
    /\ IF wr.nr = 0
       THEN wr' = [wr EXCEPT !.pc = "user", !.nr = 0] /\ Returns("wr")
       ELSE wr' = [wr EXCEPT !.pc = "ready"] /\ UNCHANGED <<sig, woken>>
    /\ UNCHANGED <<read_q, secondary, data, wq, termios, intr, rd, raced, recounted, typed>>

WriteAgain ==
    /\ ~intr /\ Free /\ wr.pc = "ready"
    /\ wr' = [wr EXCEPT !.pc = "full"]
    /\ UNCHANGED <<read_q, secondary, data, wq, thri, termios, intr, rd, woken, sig, raced, recounted, typed>>

-----------------------------------------------------------------------------
\* tty_ioctl of a third process: TCFLSH of either queue, and TCSETS.
Flush(in, out) ==
    /\ ~intr /\ Free
    /\ read_q' = IF in THEN <<>> ELSE read_q
    /\ wq' = IF out THEN 0 ELSE wq
    /\ UNCHANGED <<secondary, data, thri, termios, intr, rd, wr, woken, sig, raced, recounted, typed>>

\* set_termios and set_termio replace c_lflag and c_cc.  They go byte by byte,
\* so that an interrupt may see the one changed and not yet the other: with
\* that in Termios too, it is two steps of this action.
SetTermios(t) ==
    /\ ~intr /\ Free
    /\ termios' = t
    /\ recounted' = (recounted \/ Ends(LineEnd', secondary) # Ends(LineEnd, secondary))
    /\ UNCHANGED <<read_q, secondary, data, wq, thri, intr, rd, wr, woken, sig, raced, typed>>

-----------------------------------------------------------------------------
Handler == (\E c \in Chars : Erase(c) \/ tty_intr(c) \/ Cook(c)) \/ Cooked
Reader == ReadTop \/ ReadWoken \/ ReadGet \/ ReadTest
Writer == WriteTop \/ WriteWoken \/ WriteFill \/ WriteStart \/ WriteAgain

Next ==
    \/ \E c \in Chars : read_char(c)
    \/ Handler \/ write_char
    \/ Reader \/ Writer
    \/ \E n \in 1 .. MaxRead : ReadCall(n)
    \/ \E n \in 1 .. MaxWrite : WriteCall(n)
    \/ \E i, o \in BOOLEAN : Flush(i, o)
    \/ \E t \in Termios : SetTermios(t)

\* Handlers run to their end, the line transmits, and the scheduler lets every
\* runnable process run in the end.  Nobody need type or ask for anything.
Spec == Init /\ [][Next]_vars /\ WF_vars(Handler) /\ WF_vars(write_char)
             /\ SF_vars(Reader) /\ SF_vars(Writer)

-----------------------------------------------------------------------------
\* secondary.data is the number of line ends in the queue, whatever is typed,
\* erased, read, flushed or set in between, until one of two things happens:
\* tty_read takes a character that was erased under its hands, or TCSETS
\* gives VEOF another value while a character that it makes a line end, or
\* no longer one, is in the queue (and everything is of its type).
LinesCounted ==
    /\ TypeOK
    /\ ~raced /\ ~recounted => data = Cardinality(Ends(LineEnd, secondary))

\* Characters in the write queue are being sent, unless the writer is still
\* filling it and will call rs_write: no order of echo, flush, interrupt and
\* write leaves output behind with the transmitter off.
Transmitting == wq > 0 => thri \/ wr.pc = "fill"

\* A read returns when there is a line for it, as long as no change of VEOF has
\* made the count of lines wrong.
ReaderServed == (rd.pc # "user" /\ data > 0) ~> (rd.pc = "user" \/ data <= 0 \/ recounted)

\* A write returns, unless the reader spins on an incomplete line for ever.
WriterServed == (wr.pc # "user") ~> (wr.pc = "user" \/ Spinning)
=============================================================================

------------------------------- MODULE Floppy -------------------------------
(***************************************************************************)
(* The floppy driver kernel/blk_drv/floppy.c and the timers it lives on,   *)
(* kernel/sched.c: motors that spin up before and run on after a transfer, *)
(* the drive select, seeks, recalibration, resets and retries.             *)
(*                                                                         *)
(* Handlers run one after the other: `call` names the routine that is      *)
(* called next, and nothing comes in between while there is one.  The      *)
(* controller (external) does one command at a time and interrupts when it *)
(* is done, within Latency ticks.  Of the bytes a command is made of any   *)
(* may fail to be taken (output_byte times out and sets `reset`); there    *)
(* are MaxFaults such faults, read and write errors are unlimited.         *)
(*                                                                         *)
(* A request that finds the list empty while the driver still recovers     *)
(* from the last one calls do_fd_request all the same, and a second        *)
(* command and a second timer may follow.  `overtaken' records that; the   *)
(* driver goes on as the code does, routine by routine, but what an        *)
(* interrupt inside one of them adds is left out from there on.            *)
(***************************************************************************)
EXTENDS Elevator, FiniteSets

CONSTANTS
    Blocks,     \* the requests processes make: [cmd, dev, sector], dev = drive
    Drives,     \* drives with a motor
    Size, Cyl,  \* sectors of a diskette and of one of its cylinders
    SpinUp,     \* HZ/2: ticks until a motor is up to speed
    RunOn,      \* 3*HZ: ticks a motor runs on after floppy_off
    Latency,    \* ticks the controller takes for a command at most
    MAX_ERRORS,
    MaxFaults,  \* how often the controller does not take a byte or fails a recalibration
    TIME_REQUESTS,
    MaxOvertaken, \* after that many requests from the first that overtakes a recovery on
                  \* no other is made and floppy_change is not called
    NULL

\* moff_timer = 10000: 100 seconds, longer than any request takes.
Long == -1

ASSUME FloppyConstants ==
    /\ Drives \subseteq Nat /\ Drives # {}
    /\ Blocks \subseteq [cmd : {READ, WRITE}, dev : Drives, sector : Nat]
    /\ {Size, Cyl, SpinUp, RunOn, Latency, MAX_ERRORS, TIME_REQUESTS} \subseteq Nat \ {0} /\ MaxFaults \in Nat
    /\ MaxOvertaken \in Nat \ {0}
    /\ RunOn > 2 * Latency + 2
    /\ NULL \notin {"rw_interrupt", "seek_interrupt", "recal_interrupt", "reset_interrupt"}

VARIABLES
    queue,      \* blk_dev[2].current_request, CURRENT first
    lock,       \* lock[b]: b_lock of the buffer
    call,       \* the routine called next, or "none"
    do_floppy,  \* the handler of the next interrupt
    reset, recalibrate, seek, seek_track, current_drive, current_track,
    selected,   \* the drive select is taken
    motor, dor, \* current_DOR: the motors that are on, the drive selected
    mon, moff,  \* mon_timer, moff_timer
    timers,     \* the list next_timer, jiffies relative to the one before
    tick,       \* do_timer is between its timer list and do_floppy_timer
    ctl,        \* the command the controller is doing
    change,     \* a process in floppy_change: where it is, and the drive
    faults,
    overtaken   \* requests made since do_fd_request was called with a command under way (history)

dvars == <<reset, recalibrate, seek, seek_track, current_drive, current_track>>
mvars == <<motor, dor, mon, moff>>
vars == <<queue, lock, call, do_floppy, dvars, selected, mvars, timers, tick, ctl, change, faults,
          overtaken>>

Quiet == [cmd |-> "none", track |-> 0, age |-> 0]
Track(r) == r.sector \div Cyl

TypeOK ==
    /\ \A i \in DOMAIN queue : queue[i].errors \in 0 .. MAX_ERRORS
    /\ lock \in [Blocks -> BOOLEAN]
    /\ call \in {"none", "do_fd_request", "floppy_on_interrupt", "transfer", "setup_rw_floppy"}
    /\ do_floppy \in {NULL, "rw_interrupt", "seek_interrupt", "recal_interrupt", "reset_interrupt"}
    /\ reset \in BOOLEAN /\ recalibrate \in BOOLEAN /\ seek \in BOOLEAN /\ seek_track \in Nat /\ selected \in BOOLEAN
    /\ current_drive \in Drives /\ current_track \in Nat
    /\ motor \subseteq Drives /\ dor \in Drives
    /\ mon \in [Drives -> 0 .. SpinUp + 2] /\ moff \in [Drives -> {Long} \cup 0 .. RunOn]
    /\ tick \in BOOLEAN /\ faults \in 0 .. MaxFaults
    /\ change.pc \in {"idle", "floppy_on", "slow", "wait_motor", "select", "taken", "wait_select"}
    /\ Len(timers) <= 1

Init ==
    /\ queue = <<>> /\ lock = [b \in Blocks |-> FALSE] /\ call = "none" /\ do_floppy = NULL
    /\ reset = FALSE /\ recalibrate = FALSE /\ seek = FALSE /\ seek_track = 0
    /\ selected = FALSE /\ overtaken = 0
    /\ current_drive = (CHOOSE d \in Drives : \A e \in Drives : d <= e) /\ current_track = 255
    /\ motor = {} /\ dor = current_drive
    /\ mon = [d \in Drives |-> 0] /\ moff = [d \in Drives |-> 0]
    /\ timers = <<>> /\ tick = FALSE /\ ctl = Quiet
    /\ change = [pc |-> "idle", nr |-> current_drive] /\ faults = 0

-----------------------------------------------------------------------------
\* add_timer: the new timer passes those that are due before it, its own time
\* taken relative to them; the one it comes before keeps its time.
Before(ts, i) == LET S[n \in 0 .. Len(ts)] == IF n = 0 THEN 0 ELSE S[n - 1] + ts[n].jiffies IN S[i]
Added(ts, j, fn) ==
    LET passed == {k \in 0 .. Len(ts) : \A i \in 1 .. k : ts[i].jiffies < j - Before(ts, i - 1)}
        k == CHOOSE x \in passed : \A y \in passed : y <= x
    IN  InsertAfter(ts, k, [jiffies |-> j - Before(ts, k), fn |-> fn])

\* A time that is up already calls fn at once.
add_timer(j, fn) ==
    IF j = 0 THEN call' = fn /\ UNCHANGED timers
    ELSE IF Len(timers) = TIME_REQUESTS THEN call' = "panic" /\ UNCHANGED timers
    ELSE call' = "none" /\ timers' = Added(timers, j, fn)

\* ticks_to_floppy_on(nr): the motor on; select it unless the select is taken.
\* Mutant: the select is changed even while it is taken.
ticks_to_floppy_on_Select(nr) ==
    LET on == motor \cup {nr} IN
    /\ moff' = [moff EXCEPT ![nr] = Long]
    /\ motor' = on /\ dor' = nr
    /\ mon' = [mon EXCEPT ![nr] = IF on # motor THEN SpinUp
                                  ELSE IF nr # dor /\ @ < 2 THEN 2 ELSE @]

ticks_to_floppy_on(nr) ==
    LET on == motor \cup {nr}  to == IF selected THEN dor ELSE nr IN
    /\ moff' = [moff EXCEPT ![nr] = Long]
    /\ motor' = on /\ dor' = to
    /\ mon' = [mon EXCEPT ![nr] = IF on # motor THEN SpinUp
                                  ELSE IF to # dor /\ @ < 2 THEN 2 ELSE @]

\* do_floppy_timer, for every motor that is on.  The sleeper of a motor that has
\* run up is woken.  The 100 seconds may be over for a drive that floppy_change
\* has switched on and no request uses.
do_floppy_timer ==
    \E over \in SUBSET {d \in motor : mon[d] = 0 /\ moff[d] = Long
                                       /\ (queue # <<>> => queue[1].dev # d)} :
    /\ mon' = [d \in Drives |-> IF d \in motor /\ mon[d] > 0 THEN mon[d] - 1 ELSE mon[d]]
    /\ motor' = {d \in motor : mon[d] > 0 \/ moff[d] # 0}
    /\ moff' = [d \in Drives |-> IF d \in over THEN 0
                                 ELSE IF d \in motor /\ mon[d] = 0 /\ moff[d] > 0 THEN moff[d] - 1
                                 ELSE moff[d]]
    /\ change' = IF change.pc = "wait_motor" /\ change.nr \in motor /\ mon[change.nr] = 1
                 THEN [change EXCEPT !.pc = "floppy_on"] ELSE change

\* do_timer: the first timer one tick nearer, ...
Tick ==
    /\ call = "none" /\ ~tick
    /\ ctl # Quiet => ctl.age < Latency
    /\ \/ timers # <<>> \/ motor # {} \/ ctl # Quiet
    /\ timers' = IF timers = <<>> THEN <<>> ELSE [timers EXCEPT ![1].jiffies = @ - 1]
    /\ ctl' = IF ctl = Quiet THEN ctl ELSE [ctl EXCEPT !.age = @ + 1]
    /\ tick' = TRUE
    /\ UNCHANGED <<queue, lock, call, do_floppy, dvars, selected, mvars, change, faults, overtaken>>

\* ... its function called when it is due, ...
Fire ==
    /\ call = "none" /\ tick /\ timers # <<>> /\ timers[1].jiffies <= 0
    /\ call' = timers[1].fn
    /\ timers' = Tail(timers)
    /\ UNCHANGED <<queue, lock, do_floppy, dvars, selected, mvars, tick, ctl, change, faults,
                   overtaken>>

\* ... and then do_floppy_timer.
TickEnd ==
    /\ call = "none" /\ tick /\ (timers # <<>> => timers[1].jiffies > 0)
    /\ do_floppy_timer
    /\ tick' = FALSE
    /\ UNCHANGED <<queue, lock, call, do_floppy, dvars, selected, dor, timers, ctl, faults, overtaken>>

-----------------------------------------------------------------------------
CURRENT == Head(queue)

\* do_fd_request is called; it begins with seek = 0.
Again == call' = "do_fd_request" /\ seek' = FALSE

\* end_request of CURRENT in the list q, with its floppy_off.
Ended(q) ==
    /\ queue' = Tail(q)
    /\ lock' = [lock EXCEPT ![q[1].bh] = FALSE]
    /\ moff' = [moff EXCEPT ![q[1].dev] = RunOn]

\* output_byte: a byte is not taken, or not even tried because of `reset'.
Refused ==
    /\ reset \/ faults < MaxFaults
    /\ faults' = IF reset THEN faults ELSE faults + 1
    /\ reset' = TRUE

\* A command is given to the controller, in the place of one that it may still
\* be doing; or a byte of it is not taken.
Command(cmd, track, handler) ==
    /\ do_floppy' = handler
    /\ \/ /\ ~reset
          /\ ctl' = [cmd |-> cmd, track |-> track, age |-> 0]
          /\ call' = "none"
          /\ UNCHANGED <<reset, seek, faults>>
       \/ Refused /\ Again /\ UNCHANGED ctl

\* add_request: the driver is called when the list was empty, whatever the
\* controller is doing.
Submit(b) ==
    LET r == [cmd |-> b.cmd, dev |-> b.dev, sector |-> b.sector, errors |-> 0, bh |-> b] IN
    /\ call = "none" /\ ~tick /\ ~lock[b] /\ overtaken < MaxOvertaken
    /\ lock' = [lock EXCEPT ![b] = TRUE]
    /\ IF queue = <<>>
       THEN queue' = <<r>> /\ Again
       ELSE queue' = InsertAfter(queue, ElevatorPosition(queue, r), r) /\ UNCHANGED <<call, seek>>
    /\ overtaken' = IF overtaken > 0 \/ (queue = <<>> /\ ctl # Quiet) THEN overtaken + 1 ELSE 0
    /\ UNCHANGED <<do_floppy, reset, recalibrate, seek_track, current_drive, current_track, selected,
                   mvars, timers, tick, ctl, change, faults>>

InRequest == call = "do_fd_request"

\* reset_floppy.
ResetFloppy ==
    /\ InRequest /\ reset
    /\ reset' = FALSE /\ recalibrate' = TRUE
    /\ do_floppy' = "reset_interrupt"
    /\ ctl' = [cmd |-> "reset", track |-> 0, age |-> 0]
    /\ call' = "none"
    /\ UNCHANGED <<queue, lock, seek, seek_track, current_drive, current_track, selected, mvars, timers,
                   tick, change, faults, overtaken>>

\* recalibrate_floppy.
RecalibrateFloppy ==
    /\ InRequest /\ ~reset /\ recalibrate
    /\ recalibrate' = FALSE /\ current_track' = 0
    /\ Command("recalibrate", 0, "recal_interrupt")
    /\ UNCHANGED <<queue, lock, seek_track, current_drive, selected, mvars, timers, tick, change,
                   overtaken>>

\* INIT_REQUEST: nothing to do.
NoWork ==
    /\ InRequest /\ ~reset /\ ~recalibrate /\ queue = <<>>
    /\ call' = "none"
    /\ UNCHANGED <<queue, lock, do_floppy, dvars, selected, mvars, timers, tick, ctl, change, faults,
                   overtaken>>

\* The request is beyond the end of the diskette; `seek' stays as it is.
Reject ==
    /\ InRequest /\ ~reset /\ ~recalibrate /\ queue # <<>> /\ CURRENT.sector + 2 > Size
    /\ seek' = (seek \/ current_drive # CURRENT.dev)
    /\ current_drive' = CURRENT.dev
    /\ Ended(queue)
    /\ UNCHANGED <<call, do_floppy, reset, recalibrate, seek_track, current_track, selected, motor, dor,
                   mon, timers, tick, ctl, change, faults, overtaken>>

\* The motor is switched on, and floppy_on_interrupt called when it runs.
StartMotor ==
    /\ InRequest /\ ~reset /\ ~recalibrate /\ queue # <<>> /\ CURRENT.sector + 2 <= Size
    /\ seek' = (seek \/ current_drive # CURRENT.dev \/ Track(CURRENT) # current_track)
    /\ seek_track' = Track(CURRENT) /\ current_drive' = CURRENT.dev
    /\ ticks_to_floppy_on(CURRENT.dev)
    /\ add_timer(mon'[CURRENT.dev], "floppy_on_interrupt")
    /\ UNCHANGED <<queue, lock, do_floppy, reset, recalibrate, current_track, selected, tick, ctl,
                   change, faults, overtaken>>

\* floppy_on_interrupt: take the select; a new drive gets two ticks.
FloppyOn ==
    /\ call = "floppy_on_interrupt"
    /\ selected' = TRUE
    /\ IF current_drive # dor
       THEN dor' = current_drive /\ add_timer(2, "transfer")
       ELSE call' = "transfer" /\ UNCHANGED <<dor, timers>>
    /\ UNCHANGED <<queue, lock, do_floppy, dvars, motor, mon, moff, tick, ctl, change, faults,
                   overtaken>>

\* transfer: FD_SPECIFY where needed, then seek first or start at once.
Transfer ==
    /\ call = "transfer"
    /\ IF seek
       THEN Command(IF seek_track = 0 THEN "recalibrate" ELSE "seek", seek_track, "seek_interrupt")
       ELSE \/ /\ ~reset
               /\ call' = "setup_rw_floppy"
               /\ UNCHANGED <<do_floppy, reset, seek, ctl, faults>>
            \/ Refused /\ Again /\ UNCHANGED <<do_floppy, ctl>>
    /\ UNCHANGED <<queue, lock, recalibrate, seek_track, current_drive, current_track, selected, mvars,
                   timers, tick, change, overtaken>>

SetupRwFloppy ==
    /\ call = "setup_rw_floppy" /\ queue # <<>>
    /\ Command("rw", seek_track, "rw_interrupt")
    /\ UNCHANGED <<queue, lock, recalibrate, seek_track, current_drive, current_track, selected, mvars,
                   timers, tick, change, overtaken>>

-----------------------------------------------------------------------------
\* The controller interrupts: do_floppy is taken and cleared.  Once a command has
\* overtaken another, the interrupt may be one of an earlier command.
Handles(h) ==
    /\ call = "none" /\ ~tick /\ ctl # Quiet /\ do_floppy = h
    /\ do_floppy' = NULL
    /\ ctl' = Quiet \/ (overtaken > 0 /\ ctl' = ctl)

\* setup_rw_floppy, rw_interrupt and seek_interrupt use CURRENT without a look
\* whether there is one: with an empty list what follows is not defined.
NoCurrent ==
    /\ queue = <<>>
    /\ \/ call = "setup_rw_floppy"
       \/ call = "none" /\ ~tick /\ ctl # Quiet /\ do_floppy \in {"rw_interrupt", "seek_interrupt"}
    /\ call' = "wild"
    /\ UNCHANGED <<queue, lock, do_floppy, dvars, selected, mvars, timers, tick, ctl, change, faults,
                   overtaken>>

\* floppy_deselect wakes the process that waits for the select.
floppy_deselect ==
    /\ selected' = FALSE
    /\ change' = IF change.pc = "wait_select" THEN [change EXCEPT !.pc = "select"] ELSE change

\* bad_flp_intr of a request with its error counted in q: given up after
\* MAX_ERRORS; then CURRENT, which may be the next request or none at all (the
\* word at address 8 is read), decides between reset and recalibration.  The
\* error may also be a result that does not come (`reset' is set by result()).
\* Mutants: the error is not counted; the select is not released when the
\* request is given up.
Worse(late) ==
    /\ late => faults < MaxFaults
    /\ faults' = faults + (IF late THEN 1 ELSE 0)
    /\ \E hard \in BOOLEAN :
          /\ queue' # <<>> => hard = (queue'[1].errors > MAX_ERRORS \div 2)
          /\ reset' = (reset \/ hard \/ late)
          /\ recalibrate' = (recalibrate \/ ~hard)
Counted_Not == queue
Counted == [queue EXCEPT ![1].errors = @ + 1]

bad_flp_intr_KeepSelect ==
    /\ IF Counted[1].errors > MAX_ERRORS THEN Ended(Counted) ELSE queue' = Counted /\ UNCHANGED <<lock, moff>>
    /\ UNCHANGED <<selected, change>>
    /\ \E late \in BOOLEAN : Worse(late)

bad_flp_intr ==
    /\ IF Counted[1].errors > MAX_ERRORS THEN Ended(Counted) /\ floppy_deselect
       ELSE queue' = Counted /\ UNCHANGED <<lock, moff, selected, change>>
    /\ \E late \in BOOLEAN : Worse(late)

\* seek_interrupt: the head is where it should be, or not.
SeekDone ==
    /\ Handles("seek_interrupt") /\ queue # <<>> /\ ~reset
    /\ current_track' = seek_track
    /\ call' = "setup_rw_floppy"
    /\ UNCHANGED <<queue, lock, reset, recalibrate, seek, seek_track, current_drive, selected, mvars,
                   timers, tick, change, faults, overtaken>>

SeekFailed ==
    /\ Handles("seek_interrupt") /\ queue # <<>>
    /\ bad_flp_intr /\ Again
    /\ UNCHANGED <<seek_track, current_drive, current_track, motor, dor, mon, timers, tick, overtaken>>

\* rw_interrupt: the transfer is good (which takes a head on the right track),
\* or a write-protected diskette ends the request, or it is an error.
RwDone ==
    /\ Handles("rw_interrupt") /\ queue # <<>>
    /\ floppy_deselect
    /\ Ended(queue)
    /\ Again
    /\ UNCHANGED <<reset, recalibrate, seek_track, current_drive, current_track, motor, dor, mon, timers,
                   tick, faults, overtaken>>

RwFailed ==
    /\ Handles("rw_interrupt") /\ queue # <<>>
    /\ bad_flp_intr /\ Again
    /\ UNCHANGED <<seek_track, current_drive, current_track, motor, dor, mon, timers, tick, overtaken>>

\* recal_interrupt: recalibrated, or a reset is due.
RecalInterrupt ==
    /\ Handles("recal_interrupt")
    /\ \/ ~reset /\ recalibrate' = FALSE /\ UNCHANGED <<reset, faults>>
       \/ Refused /\ UNCHANGED recalibrate
    /\ Again
    /\ UNCHANGED <<queue, lock, seek_track, current_drive, current_track, selected, mvars, timers, tick,
                   change, overtaken>>

\* reset_interrupt: FD_SENSEI and FD_SPECIFY, whose bytes may not be taken.
ResetInterrupt ==
    /\ Handles("reset_interrupt")
    /\ UNCHANGED <<reset, faults>> \/ Refused
    /\ Again
    /\ UNCHANGED <<queue, lock, recalibrate, seek_track, current_drive, current_track, selected, mvars,
                   timers, tick, change, overtaken>>

\* unexpected_floppy_interrupt: no handler is set; the next do_fd_request recovers.
UnexpectedInterrupt ==
    /\ Handles(NULL)
    /\ \/ ~reset /\ recalibrate' = TRUE /\ UNCHANGED <<reset, faults>>
       \/ Refused /\ UNCHANGED recalibrate
    /\ UNCHANGED <<queue, lock, call, seek, seek_track, current_drive, current_track, selected, mvars,
                   timers, tick, change, overtaken>>

-----------------------------------------------------------------------------
\* floppy_change(nr), run by a process: floppy_on switches the motor on.
\* ticks_to_floppy_on ends with sti(), so that the process may be interrupted
\* between finding that the motor needs time and sleeping ("slow").
rest == <<queue, lock, call, do_floppy, dvars, selected, timers, tick, ctl, faults, overtaken>>

MotorOn(nr) ==
    /\ ticks_to_floppy_on(nr)
    /\ change' = [pc |-> IF mon'[nr] = 0 THEN "select" ELSE "slow", nr |-> nr]

InChange(pc) == call = "none" /\ ~tick /\ change.pc = pc /\ UNCHANGED rest

ChangeStart(nr) == InChange("idle") /\ overtaken < MaxOvertaken /\ MotorOn(nr)

\* ... woken by do_floppy_timer it looks again, ...
ChangeOn == InChange("floppy_on") /\ MotorOn(change.nr)

\* ... and the drive must be selected: begin again when it is not and the
\* select is free, and wait while another drive has it.
ChangeSelected ==
    /\ InChange("select")
    /\ IF dor = change.nr
       THEN /\ moff' = [moff EXCEPT ![dor] = RunOn]
            /\ change' = [change EXCEPT !.pc = "idle"]
            /\ UNCHANGED <<motor, dor, mon>>
       ELSE IF selected THEN change' = [change EXCEPT !.pc = "taken"] /\ UNCHANGED mvars
       ELSE MotorOn(change.nr)

\* sleep_on(nr+wait_motor), interruptible_sleep_on(&wait_on_floppy_select): a
\* wake-up that came before is lost.  A signal ends the second.
ChangeSleep ==
    /\ \/ InChange("slow") /\ change' = [change EXCEPT !.pc = "wait_motor"]
       \/ InChange("taken") /\ change' = [change EXCEPT !.pc = "wait_select"]
       \/ InChange("wait_select") /\ change' = [change EXCEPT !.pc = "select"]
    /\ UNCHANGED mvars

Driver == ResetFloppy \/ RecalibrateFloppy \/ NoWork \/ Reject \/ StartMotor \/ FloppyOn
             \/ Transfer \/ SetupRwFloppy \/ NoCurrent
Interrupt == SeekDone \/ SeekFailed \/ RwDone \/ RwFailed \/ RecalInterrupt \/ ResetInterrupt
                \/ UnexpectedInterrupt
Clock == Tick \/ Fire \/ TickEnd

\* After an overtaking the kernel may panic or run wild, or the driver be left
\* with requests, or a sleeper, and nothing under way.
Stuck ==
    /\ \/ call \in {"panic", "wild"}
       \/ overtaken > 0 /\ call = "none" /\ ~tick /\ ctl = Quiet /\ timers = <<>>
    /\ UNCHANGED vars

Next == \/ \E b \in Blocks : Submit(b)
        \/ Driver \/ Interrupt \/ Clock
        \/ \E nr \in Drives : ChangeStart(nr)
        \/ ChangeOn \/ ChangeSelected \/ ChangeSleep
        \/ Stuck

\* Routines run to their end, the clock ticks, and the controller interrupts.
Spec == Init /\ [][Next]_vars /\ WF_vars(Driver) /\ WF_vars(Interrupt) /\ WF_vars(Clock)

-----------------------------------------------------------------------------
\* Whenever the controller seeks, reads or writes for a request, the motor of
\* its drive is on and up to speed (but for the two ticks that follow a select:
\* floppy_on_interrupt omits them when floppy_change has just selected the
\* drive) and the drive is the one selected, whatever
\* floppy_change does with motors and select in the meantime.  All that until a
\* request overtakes a recovery: then a timer of one request may find another,
\* or none.
DriveReady ==
    ctl.cmd \in {"seek", "rw"} \/ (ctl.cmd = "recalibrate" /\ do_floppy = "seek_interrupt") =>
        \/ overtaken > 0
        \/ /\ queue # <<>> /\ current_drive = CURRENT.dev
           /\ current_drive \in motor /\ dor = current_drive /\ selected
           /\ mon[current_drive] <= 2

\* The drive select is released when the driver comes to rest: otherwise
\* floppy_change would wait for it for ever.  Until a request overtakes a
\* recovery one timer at most runs, add_timer does not panic and CURRENT is
\* never used without a request (and everything is of its type).
SelectReleased == overtaken > 0 \/ (TypeOK /\ (queue = <<>> /\ call = "none" => ~selected))

\* Every request ends, however its transfers fail, unless one has overtaken a
\* recovery: only then can the driver be left with requests and nothing under
\* way.
EveryRequestServed == \A b \in Blocks : lock[b] ~> (~lock[b] \/ overtaken > 0)
=============================================================================

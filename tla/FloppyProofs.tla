---------------------------- MODULE FloppyProofs ----------------------------
(***************************************************************************)
(* What Floppy promises for every number of drives, requests, faults and   *)
(* retries and for every length of the delays.                             *)
(*                                                                         *)
(* At any time one thing at most is under way: a routine is called, a      *)
(* timer runs or the controller works (OneThing).  The inductive invariant *)
(* follows a request along them.  While its motor spins up, mon_timer and  *)
(* the timer count down together, so that moff_timer, which floppy_change  *)
(* may have set to run on only, does not count yet (SpinningUp).  From the *)
(* select on, the motor has as many ticks left as the steps still to come  *)
(* can take: two for the select, one Latency each for seek and transfer,   *)
(* and the rest of the present tick (InUse).                               *)
(*                                                                         *)
(* All of it holds until a request overtakes a recovery (overtaken > 0):   *)
(* the lemmas are about steps up to there (Ahead).                         *)
(***************************************************************************)
EXTENDS Floppy, TLAPS, SequenceTheorems, WellFoundedInduction

Requests == [cmd : {READ, WRITE}, dev : Drives, sector : Nat, errors : 0 .. MAX_ERRORS, bh : Blocks]
Timers == [jiffies : Nat, fn : {"floppy_on_interrupt", "transfer"}]
Commands == [cmd : {"none", "reset", "recalibrate", "seek", "rw"}, track : Nat, age : 0 .. Latency]

Places == {"idle", "floppy_on", "slow", "wait_motor", "select", "taken", "wait_select"}
Changes == [pc : Places, nr : Drives]

\* The types of the variables about which TypeOK says little.
Typed ==
    /\ TypeOK
    /\ queue \in Seq(Requests) /\ timers \in Seq(Timers) /\ ctl \in Commands
    /\ change \in Changes /\ overtaken = 0

\* The controller works for a request; the timer fn runs.
Transfers == ctl # Quiet /\ do_floppy \in {"rw_interrupt", "seek_interrupt"}
Timer(fn) == timers # <<>> /\ timers[1].fn = fn

\* One thing at most is under way, and the handler of the next interrupt is
\* that of the command.
OneThing ==
    /\ call # "none" => timers = <<>> /\ ctl = Quiet
    /\ timers # <<>> => ctl = Quiet
    /\ ctl # Quiet =>
          \/ ctl.cmd = "rw" /\ do_floppy = "rw_interrupt"
          \/ ctl.cmd \in {"seek", "recalibrate"} /\ do_floppy = "seek_interrupt"
          \/ ctl.cmd = "recalibrate" /\ do_floppy = "recal_interrupt"
          \/ ctl.cmd = "reset" /\ do_floppy = "reset_interrupt"
    /\ timers # <<>> /\ ~tick => timers[1].jiffies > 0

\* The first request is one that do_fd_request has not rejected.
Valid == queue # <<>> /\ CURRENT.sector + 2 <= Size

\* Something is under way for the first request.
Working ==
    \/ call \in {"floppy_on_interrupt", "transfer", "setup_rw_floppy"}
    \/ timers # <<>> \/ Transfers

Serving ==
    /\ selected => Valid
    /\ Working => Valid /\ current_drive = CURRENT.dev /\ current_drive \in motor

\* 1 in the middle of a tick, before do_floppy_timer.
Now == IF tick THEN 1 ELSE 0

\* The motor spins up: it is not switched off and not yet counted down.
Kept == moff[current_drive] \in {Long, RunOn}
SpinningUp ==
    /\ call = "floppy_on_interrupt" => Kept /\ mon[current_drive] <= 2
    /\ Timer("floppy_on_interrupt") =>
          /\ Kept
          /\ timers[1].jiffies + Now - 1 <= mon[current_drive]
          /\ mon[current_drive] <= 2 \/ mon[current_drive] <= timers[1].jiffies + Now

\* The drive is selected, its motor runs and does so for n ticks at least.
Holds(n) ==
    /\ selected /\ dor = current_drive /\ mon[current_drive] <= 2
    /\ moff[current_drive] = Long \/ moff[current_drive] >= n

InUse ==
    /\ Timer("transfer") => /\ timers[1].jiffies <= 2
                            /\ Holds(timers[1].jiffies + 2 * Latency + Now)
    /\ call = "transfer" => Holds(2 * Latency + Now)
    /\ ctl # Quiet /\ do_floppy = "seek_interrupt" => Holds(2 * Latency - ctl.age + Now)
    /\ call = "setup_rw_floppy" => Holds(Latency + Now)
    /\ ctl # Quiet /\ do_floppy = "rw_interrupt" => Holds(Latency - ctl.age + Now)

IInv == Typed /\ OneThing /\ Serving /\ SpinningUp /\ InUse

\* No request has overtaken a recovery.
Ahead == overtaken = 0
-----------------------------------------------------------------------------
\* The constants as numbers.
LEMMA Delays ==
    /\ Latency \in Nat /\ RunOn \in Nat /\ SpinUp \in Nat /\ SpinUp >= 1 /\ MAX_ERRORS \in Nat
    /\ MaxFaults \in Nat /\ Size \in Nat /\ Cyl \in Nat /\ Cyl >= 1
    /\ RunOn >= 2 * Latency + 3
  <1>1. \A n \in {Size, Cyl, SpinUp, RunOn, Latency, MAX_ERRORS, TIME_REQUESTS} : n \in Nat /\ n # 0
    BY FloppyConstants
  <1>2. MaxFaults \in Nat /\ RunOn > 2 * Latency + 2
    BY FloppyConstants
  <1>3. SpinUp \in Nat /\ SpinUp # 0 /\ Cyl \in Nat /\ Cyl # 0
    BY <1>1
  <1>4. Latency \in Nat /\ RunOn \in Nat /\ MAX_ERRORS \in Nat /\ Size \in Nat
    BY <1>1
  <1> QED BY <1>2, <1>3, <1>4

\* There is room for a timer when none runs.
LEMMA RoomForTimer == Len(<<>>) # TIME_REQUESTS
  BY FloppyConstants

\* A request's track is a number.
LEMMA TrackIsNumber ==
    ASSUME NEW r \in Requests
    PROVE  Track(r) \in Nat
  BY Delays DEF Track, Requests

\* A set of naturals that has an element has a least one.
LEMMA LeastNatural ==
    ASSUME NEW T \in SUBSET Nat, T # {}
    PROVE  \E x \in T : \A y \in T : x <= y
  <1>1. \E x \in T : \A y \in T : ~(<<y, x>> \in OpToRel(<, Nat))
    BY NatLessThanWellFounded, WFMin
  <1>2. PICK x \in T : \A y \in T : ~(<<y, x>> \in OpToRel(<, Nat))
    BY <1>1
  <1>3. ASSUME NEW y \in T, ~(x <= y) PROVE FALSE
    <2>1. x \in Nat /\ y \in Nat /\ y < x
      BY <1>3
    <2>2. <<y, x>> \in OpToRel(<, Nat)
      BY <2>1 DEF OpToRel
    <2> QED BY <2>2, <1>2
  <1> QED BY <1>3

\* add_request links a request behind the first of the list or further down.
LEMMA PositionInList ==
    ASSUME NEW q, NEW r, Len(q) \in Nat \ {0}
    PROVE  ElevatorPosition(q, r) \in 1 .. Len(q)
  <1> DEFINE fits == {i \in 1 .. Len(q) - 1 : Fits(q[i], r, q[i + 1])}
  <1>1. fits \in SUBSET Nat /\ fits \subseteq 1 .. Len(q)
    OBVIOUS
  <1>2. ElevatorPosition(q, r) =
          IF fits = {} THEN Len(q) ELSE CHOOSE i \in fits : \A j \in fits : i <= j
    BY DEF ElevatorPosition
  <1> HIDE DEF fits
  <1>3. CASE fits = {}
    BY <1>2, <1>3
  <1>4. CASE fits # {}
    <2>1. \E i \in fits : \A j \in fits : i <= j
      BY <1>1, <1>4, LeastNatural
    <2>2. (CHOOSE i \in fits : \A j \in fits : i <= j) \in fits
      BY <2>1
    <2> QED BY <1>1, <1>2, <1>4, <2>2
  <1> QED BY <1>3, <1>4

\* A request linked into the list does not become its first.
LEMMA InsertKeepsFirst ==
    ASSUME NEW S, NEW q \in Seq(S), NEW x \in S, NEW i \in 1 .. Len(q)
    PROVE  /\ InsertAfter(q, i, x) \in Seq(S) /\ InsertAfter(q, i, x) # <<>>
           /\ Head(InsertAfter(q, i, x)) = Head(q)
  <1> DEFINE n == Len(q)  a == SubSeq(q, 1, i)  b == <<x>>  c == SubSeq(q, i + 1, n)
             ab == a \o b
  <1>0. n \in Nat /\ i \in 1 .. n /\ \A k \in 1 .. n : q[k] \in S
    BY LenProperties, ElementOfSeq
  <1>1. a \in Seq(S) /\ Len(a) = i /\ a[1] = q[1]
    <2>1. \A k \in 1 .. i : a[k] = q[k]
      BY <1>0, SubSeqProperties
    <2> QED BY <1>0, <2>1, SubSeqProperties
  <1>2. b \in Seq(S) /\ Len(b) = 1
    OBVIOUS
  <1>3. c \in Seq(S) /\ Len(c) \in Nat
    <2>1. \A k \in i + 1 .. n : q[k] \in S
      BY <1>0
    <2>2. c \in Seq(S)
      BY <1>0, <2>1, SubSeqProperties
    <2> QED BY <2>2
  <1>4. InsertAfter(q, i, x) = ab \o c
    BY DEF InsertAfter
  <1> HIDE DEF a, b, c, n
  <1>5. ab \in Seq(S) /\ Len(ab) = i + 1 /\ ab[1] = a[1]
    <2>1. /\ a \o b \in Seq(S) /\ Len(a \o b) = Len(a) + Len(b)
          /\ \A k \in 1 .. Len(a) + Len(b) :
                (a \o b)[k] = IF k <= Len(a) THEN a[k] ELSE b[k - Len(a)]
      BY <1>1, <1>2, ConcatProperties
    <2>2. 1 \in 1 .. Len(a) + Len(b) /\ 1 <= Len(a)
      BY <1>0, <1>1, <1>2
    <2> QED BY <1>1, <1>2, <2>1, <2>2
  <1> HIDE DEF ab
  <1>6. ab \o c \in Seq(S) /\ Len(ab \o c) = i + 1 + Len(c) /\ (ab \o c)[1] = ab[1]
    <2>1. /\ ab \o c \in Seq(S) /\ Len(ab \o c) = Len(ab) + Len(c)
          /\ \A k \in 1 .. Len(ab) + Len(c) :
                (ab \o c)[k] = IF k <= Len(ab) THEN ab[k] ELSE c[k - Len(ab)]
      BY <1>3, <1>5, ConcatProperties
    <2>2. 1 \in 1 .. Len(ab) + Len(c) /\ 1 <= Len(ab)
      BY <1>0, <1>3, <1>5
    <2> QED BY <1>5, <2>1, <2>2
  <1>7. Len(ab \o c) >= 1
    BY <1>0, <1>3, <1>6
  <1>8. ab \o c # <<>> /\ Head(ab \o c) = (ab \o c)[1] /\ Head(q) = q[1]
    BY <1>6, <1>7
  <1> QED BY <1>1, <1>4, <1>5, <1>6, <1>8

\* add_timer with no other timer running.
LEMMA FirstTimer ==
    ASSUME NEW j \in Nat, NEW fn
    PROVE  Added(<<>>, j, fn) = <<[jiffies |-> j, fn |-> fn]>>
  <1> DEFINE e == <<>>
             passed == {k \in 0 .. Len(e) : \A i \in 1 .. k : e[i].jiffies < j - Before(e, i - 1)}
             R(g) == [n \in 0 .. Len(e) |-> IF n = 0 THEN 0 ELSE g[n - 1] + e[n].jiffies]
  <1>1. Len(e) = 0 /\ 0 .. Len(e) = {0}
    OBVIOUS
  <1>2. Before(e, 0) = 0
    <2> DEFINE z == [n \in 0 .. Len(e) |-> 0]
    <2>1. z = R(z)
      BY <1>1
    <2>2. \E g : g = R(g)
      BY <2>1
    <2>3. (CHOOSE g : g = R(g)) = R(CHOOSE g : g = R(g))
      BY <2>2
    <2>4. R(CHOOSE g : g = R(g))[0] = 0
      BY <1>1
    <2> QED BY <2>3, <2>4 DEF Before
  <1>3. passed = {0}
    BY <1>1
  <1>4. (CHOOSE x \in passed : \A y \in passed : y <= x) = 0
    BY <1>3
  <1>5. Added(e, j, fn) = InsertAfter(e, 0, [jiffies |-> j - Before(e, 0), fn |-> fn])
    BY <1>4 DEF Added
  <1>6. \A x : InsertAfter(e, 0, x) = <<x>>
    <2>1. SubSeq(e, 1, 0) = <<>> /\ SubSeq(e, 0 + 1, Len(e)) = <<>>
      BY <1>1
    <2> SUFFICES ASSUME NEW x PROVE InsertAfter(e, 0, x) = <<x>>
      OBVIOUS
    <2>2. <<x>> \in Seq({x})
      OBVIOUS
    <2>3. <<>> \o <<x>> = <<x>> /\ <<x>> \o <<>> = <<x>>
      BY <2>2, ConcatEmptySeq
    <2>4. InsertAfter(e, 0, x) = (<<>> \o <<x>>) \o <<>>
      BY <2>1 DEF InsertAfter
    <2> QED BY <2>3, <2>4
  <1> QED BY <1>2, <1>5, <1>6

-----------------------------------------------------------------------------
\* The errors of queued requests are within their bound.
LEMMA ErrorsBounded ==
    ASSUME NEW q \in Seq(Requests)
    PROVE  \A i \in DOMAIN q : q[i].errors \in 0 .. MAX_ERRORS
  <1>1. \A i \in DOMAIN q : q[i] \in Requests
    BY ElementOfSeq, LenProperties
  <1> QED BY <1>1 DEF Requests

\* What is between requests, or only resets or recalibrates, has nothing to
\* show but types and the select.
LEMMA AtRest ==
    ASSUME Typed', call' \in {"none", "do_fd_request"}, timers' = <<>>,
           \/ ctl' = Quiet
           \/ ctl'.cmd = "recalibrate" /\ do_floppy' = "recal_interrupt" /\ call' = "none"
           \/ ctl'.cmd = "reset" /\ do_floppy' = "reset_interrupt" /\ call' = "none",
           selected' => Valid'
    PROVE  IInv'
  <1>1. ~Transfers' /\ ~(timers' # <<>>)
    BY DEF Transfers
  <1>2. OneThing'
    BY DEF OneThing, Quiet
  <1>3. Serving'
    BY <1>1 DEF Serving, Working
  <1>4. SpinningUp' /\ InUse'
    BY <1>1 DEF SpinningUp, InUse, Timer, Transfers
  <1> QED BY <1>2, <1>3, <1>4 DEF IInv

\* The state before the first request satisfies the invariant.
LEMMA InitInv == Init => IInv
  <1> SUFFICES ASSUME Init PROVE IInv
    OBVIOUS
  <1>1. current_drive \in Drives
    <2>1. \E d \in Drives : \A e \in Drives : d <= e
      BY FloppyConstants, LeastNatural
    <2> QED BY <2>1 DEF Init
  <1>2. <<>> \in Seq(Requests) /\ <<>> \in Seq(Timers) /\ Len(<<>>) = 0
    OBVIOUS
  <1>3. Quiet \in Commands
    BY Delays DEF Quiet, Commands
  <1>4. \A i \in DOMAIN queue : queue[i].errors \in 0 .. MAX_ERRORS
    BY <1>2, ErrorsBounded DEF Init
  <1>5. /\ mon \in [Drives -> 0 .. SpinUp + 2] /\ moff \in [Drives -> {Long} \cup 0 .. RunOn]
        /\ faults \in 0 .. MaxFaults /\ current_track \in Nat
    BY Delays DEF Init
  <1>6. TypeOK
    <2>1. /\ lock \in [Blocks -> BOOLEAN] /\ call \in {"none", "do_fd_request"} /\ do_floppy = NULL
          /\ reset \in BOOLEAN /\ recalibrate \in BOOLEAN /\ seek \in BOOLEAN /\ selected \in BOOLEAN
          /\ tick \in BOOLEAN /\ motor \subseteq Drives /\ seek_track \in Nat /\ change.pc = "idle"
      BY DEF Init
    <2>2. Len(timers) <= 1 /\ dor \in Drives
      BY <1>1, <1>2 DEF Init
    <2> QED BY <1>1, <1>4, <1>5, <2>1, <2>2 DEF TypeOK
  <1>7. Typed
    BY <1>1, <1>2, <1>3, <1>6 DEF Init, Typed, Changes, Places
  <1>8. OneThing /\ Serving /\ SpinningUp /\ InUse
    BY DEF Init, OneThing, Serving, SpinningUp, InUse, Working, Transfers, Timer
  <1> QED BY <1>7, <1>8 DEF IInv

-----------------------------------------------------------------------------
\* Motors and selects stay within their types whatever is switched on.
LEMMA MotorTypes ==
    ASSUME Typed, NEW nr \in Drives, ticks_to_floppy_on(nr)
    PROVE  /\ motor' \subseteq Drives /\ dor' \in Drives
           /\ mon' \in [Drives -> 0 .. SpinUp + 2] /\ moff' \in [Drives -> {Long} \cup 0 .. RunOn]
           /\ nr \in motor' /\ moff'[nr] = Long
           /\ motor \subseteq motor'
           /\ \A d \in Drives : d # nr => mon'[d] = mon[d] /\ moff'[d] = moff[d]
           /\ nr \in motor => mon'[nr] >= mon[nr] /\ (mon'[nr] <= 2 \/ mon'[nr] = mon[nr])
           /\ selected => dor' = dor
           /\ nr \in motor /\ selected => mon'[nr] = mon[nr]
  <1> DEFINE on == motor \cup {nr}  to == IF selected THEN dor ELSE nr
             m == IF on # motor THEN SpinUp ELSE IF to # dor /\ mon[nr] < 2 THEN 2 ELSE mon[nr]
  <1>0. /\ motor \subseteq Drives /\ dor \in Drives /\ mon \in [Drives -> 0 .. SpinUp + 2]
        /\ moff \in [Drives -> {Long} \cup 0 .. RunOn]
    BY DEF Typed, TypeOK
  <1>1. /\ moff' = [moff EXCEPT ![nr] = Long] /\ motor' = on /\ dor' = to
        /\ mon' = [mon EXCEPT ![nr] = m]
    BY DEF ticks_to_floppy_on
  <1>2. mon[nr] \in 0 .. SpinUp + 2
    BY <1>0
  <1>3. m \in 0 .. SpinUp + 2
    BY <1>2, Delays
  <1>4. nr \in motor => on = motor
    OBVIOUS
  <1>5. nr \in motor => m >= mon[nr] /\ (m <= 2 \/ m = mon[nr])
    BY <1>2, <1>4, Delays
  <1>6. nr \in motor /\ selected => m = mon[nr]
    BY <1>4
  <1>7. mon'[nr] = m
    BY <1>0, <1>1
  <1> HIDE DEF m
  <1>8. mon' \in [Drives -> 0 .. SpinUp + 2] /\ moff' \in [Drives -> {Long} \cup 0 .. RunOn]
    BY <1>0, <1>1, <1>3
  <1>9. \A d \in Drives : d # nr => mon'[d] = mon[d] /\ moff'[d] = moff[d]
    BY <1>0, <1>1
  <1>10. motor' \subseteq Drives /\ dor' \in Drives /\ nr \in motor' /\ motor \subseteq motor' /\ moff'[nr] = Long
    BY <1>0, <1>1
  <1>11. selected => dor' = dor
    BY <1>1
  <1> QED BY <1>5, <1>6, <1>7, <1>8, <1>9, <1>10, <1>11

\* What floppy_change does to motors and select disturbs no request: it
\* switches on, never off, and selects only what nobody has selected.
LEMMA ChangeMotor ==
    ASSUME IInv, NEW nr \in Drives, ticks_to_floppy_on(nr), Typed',
           UNCHANGED <<queue, call, do_floppy, current_drive, selected, timers, tick, ctl>>
    PROVE  IInv'
  <1>0. Typed /\ current_drive \in Drives /\ mon[current_drive] \in 0 .. SpinUp + 2 /\ mon[nr] \in 0 .. SpinUp + 2
    BY DEF IInv, Typed, TypeOK
  <1> DEFINE d == current_drive
  <1>1. /\ motor \subseteq motor' /\ (selected => dor' = dor)
        /\ d \in motor => /\ mon'[d] >= mon[d] /\ (mon'[d] <= 2 \/ mon'[d] = mon[d])
                          /\ selected => mon'[d] = mon[d]
        /\ moff'[d] = Long \/ moff'[d] = moff[d]
    BY <1>0, MotorTypes
  <1>2. OneThing'
    BY DEF IInv, OneThing
  <1>3. Serving' /\ (Working => d \in motor)
    <2>1. (selected => Valid) /\ (Working => Valid /\ current_drive = CURRENT.dev /\ d \in motor)
      BY DEF IInv, Serving
    <2>2. (selected' <=> selected) /\ (Working' <=> Working) /\ (Valid' <=> Valid) /\ CURRENT' = CURRENT
      BY DEF Working, Transfers, Valid, CURRENT
    <2> QED BY <1>1, <2>1, <2>2 DEF Serving
  <1>4. SpinningUp'
    <2>1. CASE call = "floppy_on_interrupt"
      <3>1. d \in motor /\ timers = <<>> /\ Kept /\ mon[d] <= 2
        BY <1>3, <2>1 DEF IInv, OneThing, SpinningUp, Working
      <3>2. mon'[d] <= 2
        BY <1>0, <1>1, <3>1
      <3> QED BY <1>1, <2>1, <3>1, <3>2 DEF SpinningUp, Kept, Timer
    <2>2. CASE Timer("floppy_on_interrupt")
      <3>1. d \in motor /\ call = "none" /\ Kept
        BY <1>3, <2>2 DEF IInv, OneThing, SpinningUp, Working, Timer
      <3>2. Kept'
        BY <1>1, <3>1 DEF Kept
      <3>3. timers # <<>> /\ timers[1] \in Timers
        BY <1>0, <2>2 DEF Timer, Typed
      <3>4. timers[1].jiffies \in Nat /\ Now \in Nat /\ Now' = Now
        BY <3>3 DEF Timers, Now
      <3>5. /\ timers[1].jiffies + Now - 1 <= mon[d]
            /\ mon[d] <= 2 \/ mon[d] <= timers[1].jiffies + Now
        BY <2>2 DEF IInv, SpinningUp
      <3>6. mon'[d] \in Int
        BY <1>0, <1>1 DEF Typed, TypeOK
      <3>7. /\ timers[1].jiffies + Now - 1 <= mon'[d]
            /\ mon'[d] <= 2 \/ mon'[d] <= timers[1].jiffies + Now
        BY <1>0, <1>1, <3>1, <3>4, <3>5, <3>6
      <3> QED BY <3>1, <3>2, <3>4, <3>7 DEF SpinningUp
    <2>3. CASE call # "floppy_on_interrupt" /\ ~Timer("floppy_on_interrupt")
      BY <2>3 DEF SpinningUp, Timer
    <2> QED BY <2>1, <2>2, <2>3
  <1>5. InUse'
    <2>1. Working /\ selected /\ dor = d /\ mon[d] <= 2 =>
             selected' /\ dor' = d /\ mon'[d] <= 2
      BY <1>1, <1>3
    <2>2. Now' = Now /\ d' = d
      BY DEF Now
    <2>3. Timer("transfer") => Working
      BY DEF Working, Timer
    <2>4. ctl # Quiet /\ do_floppy \in {"seek_interrupt", "rw_interrupt"} => Working
      BY DEF Working, Transfers
    <2>5. call \in {"transfer", "setup_rw_floppy"} => Working
      BY DEF Working
    <2>6. Timer("transfer") =>
             timers[1].jiffies <= 2 /\ Holds(timers[1].jiffies + 2 * Latency + Now)'
      BY <1>1, <2>1, <2>2, <2>3 DEF IInv, InUse, Holds
    <2>7. call = "transfer" => Holds(2 * Latency + Now)'
      BY <1>1, <2>1, <2>2, <2>5 DEF IInv, InUse, Holds
    <2>8. ctl # Quiet /\ do_floppy = "seek_interrupt" => Holds(2 * Latency - ctl.age + Now)'
      BY <1>1, <2>1, <2>2, <2>4 DEF IInv, InUse, Holds
    <2>9. call = "setup_rw_floppy" => Holds(Latency + Now)'
      BY <1>1, <2>1, <2>2, <2>5 DEF IInv, InUse, Holds
    <2>10. ctl # Quiet /\ do_floppy = "rw_interrupt" => Holds(Latency - ctl.age + Now)'
      BY <1>1, <2>1, <2>2, <2>4 DEF IInv, InUse, Holds
    <2> QED BY <2>6, <2>7, <2>8, <2>9, <2>10 DEF InUse, Timer
  <1> QED BY <1>2, <1>3, <1>4, <1>5 DEF IInv

\* Where the process in floppy_change is, is of no concern to the driver.
LEMMA OnlyChange ==
    ASSUME IInv, change' \in Changes,
           UNCHANGED <<queue, lock, call, do_floppy, dvars, selected, mvars, timers, tick, ctl, faults, overtaken>>
    PROVE  IInv'
  <1>0. change'.pc \in Places
    BY DEF Changes
  <1>1. Typed'
    BY <1>0 DEF IInv, Typed, TypeOK, dvars, mvars, Places
  <1>2. OneThing' /\ Serving'
    BY DEF IInv, OneThing, Serving, Valid, Working, Transfers, CURRENT, dvars, mvars
  <1>3. SpinningUp'
    BY DEF IInv, SpinningUp, Kept, Timer, Now, dvars, mvars
  <1>4. InUse'
    BY DEF IInv, InUse, Holds, Timer, Now, dvars, mvars
  <1> QED BY <1>1, <1>2, <1>3, <1>4 DEF IInv

\* The steps of floppy_change.
LEMMA ChangeInv ==
    ASSUME IInv, (\E nr \in Drives : ChangeStart(nr)) \/ ChangeOn \/ ChangeSelected \/ ChangeSleep
    PROVE  IInv'
  <1>0. Typed /\ change \in Changes /\ change.nr \in Drives
    BY DEF IInv, Typed, Changes
  <1>1. ASSUME NEW nr \in Drives, MotorOn(nr),
               UNCHANGED <<queue, lock, call, do_floppy, dvars, selected, timers, tick, ctl, faults, overtaken>>
        PROVE  IInv'
    <2>1. ticks_to_floppy_on(nr)
      BY <1>1 DEF MotorOn
    <2>2. change' \in Changes /\ change'.pc \in Places
      BY <1>1 DEF MotorOn, Changes, Places
    <2>3. /\ motor' \subseteq Drives /\ dor' \in Drives
          /\ mon' \in [Drives -> 0 .. SpinUp + 2] /\ moff' \in [Drives -> {Long} \cup 0 .. RunOn]
      BY <1>0, <2>1, MotorTypes
    <2>4. Typed'
      BY <1>0, <1>1, <2>2, <2>3, SMTT(30) DEF Typed, TypeOK, dvars, Places
    <2> QED BY <1>1, <2>1, <2>4, ChangeMotor DEF dvars
  <1>2. CASE \E nr \in Drives : ChangeStart(nr)
    BY <1>1, <1>2 DEF ChangeStart, InChange, rest
  <1>3. CASE ChangeOn
    BY <1>0, <1>1, <1>3 DEF ChangeOn, InChange, rest
  <1>4. CASE ChangeSelected /\ dor # change.nr /\ ~selected
    BY <1>0, <1>1, <1>4 DEF ChangeSelected, InChange, rest
  <1>5. CASE ChangeSelected /\ dor = change.nr
    <2> DEFINE d == current_drive
    <2>1. /\ call = "none" /\ ~tick /\ moff' = [moff EXCEPT ![dor] = RunOn]
          /\ change' = [change EXCEPT !.pc = "idle"]
          /\ UNCHANGED <<motor, dor, mon, queue, lock, call, do_floppy, dvars, selected, timers, tick, ctl, faults, overtaken>>
      BY <1>5 DEF ChangeSelected, InChange, rest
    <2>2. /\ moff \in [Drives -> {Long} \cup 0 .. RunOn] /\ dor \in Drives /\ d \in Drives
          /\ change \in Changes /\ ctl.age \in 0 .. Latency
      BY <1>0 DEF Typed, TypeOK, Commands
    <2>3. Typed'
      <3>1. moff' \in [Drives -> {Long} \cup 0 .. RunOn]
        BY <2>1, <2>2, Delays
      <3>2. change' \in Changes /\ change'.pc \in Places
        BY <2>1, <2>2 DEF Changes, Places
      <3> QED BY <1>0, <2>1, <3>1, <3>2 DEF Typed, TypeOK, dvars, Places
    <2>4. moff'[d] = RunOn \/ moff'[d] = moff[d]
      BY <2>1, <2>2
    <2>5. OneThing'
      BY <2>1 DEF IInv, OneThing
    <2>6. Serving'
      BY <2>1 DEF IInv, Serving, Working, Transfers, Valid, CURRENT, dvars
    <2>7. SpinningUp'
      BY <2>1, <2>4 DEF IInv, SpinningUp, Kept, Timer, Now, dvars
    <2>8. InUse'
      <3>1. Now = 0 /\ Now' = 0 /\ d' = d
        BY <2>1 DEF Now, dvars
      <3>2. ASSUME Timer("transfer")
            PROVE  timers[1].jiffies <= 2 /\ Holds(timers[1].jiffies + 2 * Latency + Now)'
        <4>1. timers[1] \in Timers
          BY <1>0, <3>2 DEF Timer, Typed
        <4>2. timers[1].jiffies \in Nat /\ timers[1].jiffies <= 2 /\ Holds(timers[1].jiffies + 2 * Latency + Now)
          BY <3>2, <4>1 DEF IInv, InUse, Timers
        <4>3. RunOn >= timers[1].jiffies + 2 * Latency + 0
          BY <4>2, Delays
        <4> QED BY <2>1, <2>4, <3>1, <4>2, <4>3 DEF Holds
      <3>3. ctl # Quiet /\ do_floppy = "seek_interrupt" => Holds(2 * Latency - ctl.age + Now)'
        <4>1. RunOn >= 2 * Latency - ctl.age + 0
          BY <2>2, Delays
        <4> QED BY <2>1, <2>4, <3>1, <4>1 DEF IInv, InUse, Holds
      <3>4. ctl # Quiet /\ do_floppy = "rw_interrupt" => Holds(Latency - ctl.age + Now)'
        <4>1. RunOn >= Latency - ctl.age + 0
          BY <2>2, Delays
        <4> QED BY <2>1, <2>4, <3>1, <4>1 DEF IInv, InUse, Holds
      <3> QED BY <2>1, <3>2, <3>3, <3>4 DEF InUse, Timer
    <2> QED BY <2>3, <2>5, <2>6, <2>7, <2>8 DEF IInv
  <1>6. CASE (ChangeSelected /\ dor # change.nr /\ selected) \/ ChangeSleep
    <2>1. UNCHANGED <<queue, lock, call, do_floppy, dvars, selected, mvars, timers, tick, ctl, faults, overtaken>>
      BY <1>6 DEF ChangeSelected, ChangeSleep, InChange, rest
    <2>2. \E pc \in Places : change' = [change EXCEPT !.pc = pc]
      BY <1>6 DEF ChangeSelected, ChangeSleep, InChange, Places
    <2>3. change' \in Changes /\ change'.pc \in Places
      BY <1>0, <2>2 DEF Changes
    <2> QED BY <1>0, <2>1, <2>3, OnlyChange
  <1> QED BY <1>2, <1>3, <1>4, <1>5, <1>6

-----------------------------------------------------------------------------
\* do_timer up to its timer list.
LEMMA TickInv ==
    ASSUME IInv, Tick
    PROVE  IInv'
  <1> DEFINE d == current_drive
  <1>0. Typed /\ ctl \in Commands /\ timers \in Seq(Timers) /\ Len(timers) <= 1
    BY DEF IInv, Typed, TypeOK
  <1>1. /\ call = "none" /\ ~tick /\ tick' = TRUE /\ (ctl # Quiet => ctl.age < Latency)
        /\ timers' = IF timers = <<>> THEN <<>> ELSE [timers EXCEPT ![1].jiffies = @ - 1]
        /\ ctl' = IF ctl = Quiet THEN ctl ELSE [ctl EXCEPT !.age = @ + 1]
        /\ UNCHANGED <<queue, lock, call, do_floppy, dvars, selected, mvars, change, faults, overtaken>>
    BY DEF Tick
  <1>2. Now = 0 /\ Now' = 1
    BY <1>1 DEF Now
  <1>3. /\ ctl' \in Commands /\ (ctl' = Quiet <=> ctl = Quiet) /\ ctl'.cmd = ctl.cmd
        /\ ctl # Quiet => ctl'.age = ctl.age + 1
    <2>1. CASE ctl = Quiet
      BY <1>0, <1>1, <2>1
    <2>2. CASE ctl # Quiet
      <3>1. ctl' = [ctl EXCEPT !.age = ctl.age + 1] /\ ctl.age + 1 \in 0 .. Latency /\ ctl.age + 1 # 0
        BY <1>0, <1>1, <2>2, Delays DEF Commands
      <3>2. ctl' \in Commands /\ ctl'.cmd = ctl.cmd /\ ctl'.age = ctl.age + 1
        BY <1>0, <3>1 DEF Commands
      <3> QED BY <2>2, <3>1, <3>2 DEF Quiet
    <2> QED BY <2>1, <2>2
  <1>4. /\ timers' \in Seq(Timers) /\ Len(timers') <= 1
        /\ timers' = <<>> <=> timers = <<>>
        /\ timers # <<>> => /\ timers[1].jiffies \in Nat /\ timers[1].jiffies > 0
                            /\ timers'[1].jiffies = timers[1].jiffies - 1
                            /\ timers'[1].fn = timers[1].fn
    <2>1. CASE timers = <<>>
      BY <1>0, <1>1, <2>1
    <2>2. CASE timers # <<>>
      <3>1. Len(timers) = 1 /\ timers[1] \in Timers
        BY <1>0, <2>2, SMTT(30)
      <3>2. timers[1].jiffies \in Nat /\ timers[1].jiffies > 0
        BY <1>1, <2>2, <3>1 DEF IInv, OneThing, Timers
      <3> DEFINE r == [timers[1] EXCEPT !.jiffies = timers[1].jiffies - 1]
      <3>3. r \in Timers /\ r.jiffies = timers[1].jiffies - 1 /\ r.fn = timers[1].fn
        BY <3>1, <3>2 DEF Timers
      <3>4. timers' = [timers EXCEPT ![1] = r]
        BY <1>0, <1>1, <2>2, <3>1
      <3> HIDE DEF r
      <3>5. timers' \in Seq(Timers) /\ Len(timers') = 1 /\ timers'[1] = r
        BY <1>0, <3>1, <3>3, <3>4
      <3>6. timers' # <<>> /\ Len(timers') <= 1
        BY <3>5
      <3> QED BY <2>2, <3>2, <3>3, <3>5, <3>6
    <2> QED BY <2>1, <2>2
  <1>5. Typed'
    BY <1>0, <1>1, <1>3, <1>4 DEF Typed, TypeOK, dvars, mvars
  <1>6. OneThing'
    BY <1>1, <1>3, <1>4 DEF IInv, OneThing
  <1>7. Serving'
    BY <1>1, <1>3, <1>4 DEF IInv, Serving, Working, Transfers, Valid, CURRENT, dvars, mvars
  <1>8. SpinningUp'
    <2>1. mon[d] \in Nat /\ mon' = mon /\ moff' = moff /\ d' = d
      BY <1>0, <1>1 DEF Typed, TypeOK, dvars, mvars
    <2>2. ASSUME Timer("floppy_on_interrupt")'
          PROVE  /\ Kept' /\ timers'[1].jiffies + Now' - 1 <= mon'[d']
                 /\ mon'[d'] <= 2 \/ mon'[d'] <= timers'[1].jiffies + Now'
      <3>1. Timer("floppy_on_interrupt") /\ timers # <<>>
        BY <1>4, <2>2 DEF Timer
      <3>2. /\ Kept /\ timers[1].jiffies + Now - 1 <= mon[d]
            /\ mon[d] <= 2 \/ mon[d] <= timers[1].jiffies + Now
        BY <3>1 DEF IInv, SpinningUp
      <3>3. timers[1].jiffies \in Nat /\ timers'[1].jiffies = timers[1].jiffies - 1
        BY <1>4, <3>1
      <3>4. /\ timers'[1].jiffies + Now' - 1 <= mon'[d']
            /\ mon'[d'] <= 2 \/ mon'[d'] <= timers'[1].jiffies + Now'
        BY <1>2, <2>1, <3>2, <3>3
      <3> QED BY <2>1, <3>2, <3>4 DEF Kept
    <2> QED BY <1>1, <2>2 DEF SpinningUp
  <1>9. InUse'
    <2>1. UNCHANGED <<selected, dor, mon, moff, current_drive, do_floppy, call>> /\ call = "none"
      BY <1>1 DEF dvars, mvars
    <2>2. ASSUME Timer("transfer")'
          PROVE  timers'[1].jiffies <= 2 /\ Holds(timers[1].jiffies + 2 * Latency + Now)'
      <3>1. Timer("transfer") /\ timers # <<>>
        BY <1>4, <2>2 DEF Timer
      <3>2. timers[1].jiffies <= 2 /\ Holds(timers[1].jiffies + 2 * Latency + Now)
        BY <3>1 DEF IInv, InUse
      <3>3. timers[1].jiffies \in Nat /\ timers'[1].jiffies = timers[1].jiffies - 1
        BY <1>4, <3>1
      <3>4. (timers[1].jiffies + 2 * Latency + Now)' = timers[1].jiffies + 2 * Latency + Now /\ timers'[1].jiffies <= 2
        BY <1>2, <3>2, <3>3, Delays
      <3> QED BY <2>1, <3>2, <3>4 DEF Holds
    <2>3. ASSUME (ctl # Quiet)', do_floppy' = "seek_interrupt"
          PROVE  Holds(2 * Latency - ctl.age + Now)'
      <3>1. ctl # Quiet /\ Holds(2 * Latency - ctl.age + Now) /\ ctl'.age = ctl.age + 1
        BY <1>3, <2>1, <2>3 DEF IInv, InUse
      <3>2. ctl.age \in Nat
        BY <1>0 DEF Commands
      <3>3. (2 * Latency - ctl.age + Now)' = 2 * Latency - ctl.age + Now
        BY <1>2, <3>1, <3>2, Delays
      <3> QED BY <2>1, <3>1, <3>3 DEF Holds
    <2>4. ASSUME (ctl # Quiet)', do_floppy' = "rw_interrupt"
          PROVE  Holds(Latency - ctl.age + Now)'
      <3>1. ctl # Quiet /\ Holds(Latency - ctl.age + Now) /\ ctl'.age = ctl.age + 1
        BY <1>3, <2>1, <2>4 DEF IInv, InUse
      <3>2. ctl.age \in Nat
        BY <1>0 DEF Commands
      <3>3. (Latency - ctl.age + Now)' = Latency - ctl.age + Now
        BY <1>2, <3>1, <3>2, Delays
      <3> QED BY <2>1, <3>1, <3>3 DEF Holds
    <2> QED BY <2>1, <2>2, <2>3, <2>4 DEF InUse
  <1> QED BY <1>5, <1>6, <1>7, <1>8, <1>9 DEF IInv

\* The timer that is due calls its function.
LEMMA FireInv ==
    ASSUME IInv, Fire
    PROVE  IInv'
  <1> DEFINE d == current_drive
  <1>0. /\ Typed /\ timers \in Seq(Timers) /\ Len(timers) <= 1 /\ mon[d] \in Nat
        /\ moff[d] \in Int
    BY Delays DEF IInv, Typed, TypeOK, Long
  <1>1. /\ call = "none" /\ tick /\ timers # <<>> /\ timers[1].jiffies <= 0
        /\ call' = timers[1].fn /\ timers' = Tail(timers)
        /\ UNCHANGED <<queue, lock, do_floppy, dvars, selected, mvars, tick, ctl, change, faults, overtaken>>
    BY DEF Fire
  <1>2. Len(timers) = 1 /\ timers[1] \in Timers /\ timers' = <<>>
    <2>0. Len(timers) \in Nat \ {0}
      BY <1>0, <1>1, EmptySeq
    <2>1. Len(timers) = 1 /\ timers[1] \in Timers
      <3>1. Len(timers) = 1
        <4>1. ASSUME NEW n \in Nat \ {0}, n <= 1 PROVE n = 1
          BY <4>1
        <4>2. Len(timers) <= 1
          BY <1>0
        <4> QED BY <2>0, <4>1, <4>2
      <3> QED BY <1>0, <3>1, ElementOfSeq
    <2>2. timers' \in Seq(Timers) /\ Len(timers') = 0
      BY <1>0, <1>1, <2>1
    <2> QED BY <2>1, <2>2, EmptySeq
  <1>3. timers[1].jiffies = 0 /\ call' \in {"floppy_on_interrupt", "transfer"}
    BY <1>1, <1>2 DEF Timers
  <1>4. Now = 1 /\ Now' = 1 /\ d' = d /\ ctl = Quiet
    BY <1>1 DEF Now, dvars, IInv, OneThing
  <1>5. Typed'
    <2>1. timers' \in Seq(Timers) /\ Len(timers') <= 1
      BY <1>2
    <2> QED BY <1>0, <1>1, <1>3, <2>1 DEF Typed, TypeOK, dvars, mvars
  <1>6. OneThing'
    BY <1>1, <1>2, <1>4 DEF OneThing
  <1>7. Serving'
    <2>1. Working /\ Valid /\ current_drive = CURRENT.dev /\ current_drive \in motor
      BY <1>1 DEF IInv, Serving, Working
    <2> QED BY <1>1, <2>1 DEF Serving, Valid, CURRENT, dvars, mvars
  <1>8. SpinningUp' /\ InUse'
    <2>1. CASE call' = "floppy_on_interrupt"
      <3>1. /\ Kept /\ (mon[d] <= 2 \/ mon[d] <= timers[1].jiffies + Now)
        BY <1>1, <2>1 DEF IInv, SpinningUp, Timer
      <3>2. mon[d] <= 2
        BY <1>0, <1>3, <1>4, <3>1
      <3> QED BY <1>1, <1>2, <1>4, <2>1, <3>1, <3>2 DEF SpinningUp, InUse, Kept, Timer, mvars
    <2>2. CASE call' = "transfer"
      <3>1. Holds(timers[1].jiffies + 2 * Latency + Now)
        BY <1>1, <2>2 DEF IInv, InUse, Timer
      <3>2. timers[1].jiffies + 2 * Latency + Now = 2 * Latency + Now'
        BY <1>3, <1>4, Delays
      <3>3. Holds(2 * Latency + Now)'
        BY <1>1, <1>4, <3>1, <3>2 DEF Holds, mvars
      <3> QED BY <1>1, <1>2, <1>4, <2>2, <3>3 DEF SpinningUp, InUse, Timer
    <2> QED BY <1>3, <2>1, <2>2
  <1> QED BY <1>5, <1>6, <1>7, <1>8 DEF IInv

\* The first request as a member of its type.
LEMMA FirstRequest ==
    ASSUME Typed, queue # <<>>
    PROVE  CURRENT \in Requests /\ CURRENT = queue[1] /\ CURRENT.dev \in Drives
  <1>1. queue \in Seq(Requests)
    BY DEF Typed
  <1>2. CURRENT \in Requests /\ CURRENT = queue[1]
    BY <1>1 DEF CURRENT
  <1> QED BY <1>2 DEF Requests

\* do_floppy_timer switches no motor off that a request needs.
LEMMA TickEndInv ==
    ASSUME IInv, TickEnd
    PROVE  IInv'
  <1> DEFINE d == current_drive
  <1>0. /\ Typed /\ d \in Drives /\ motor \subseteq Drives
        /\ mon \in [Drives -> 0 .. SpinUp + 2] /\ moff \in [Drives -> {Long} \cup 0 .. RunOn]
        /\ ctl.age \in 0 .. Latency /\ timers \in Seq(Timers) /\ change \in Changes
    BY DEF IInv, Typed, TypeOK, Commands
  <1>1. /\ call = "none" /\ tick /\ tick' = FALSE /\ (timers # <<>> => timers[1].jiffies > 0)
        /\ UNCHANGED <<queue, lock, call, do_floppy, dvars, selected, dor, timers, ctl, faults, overtaken>>
    BY DEF TickEnd
  <1>2. PICK over \in SUBSET {e \in motor : mon[e] = 0 /\ moff[e] = Long
                                             /\ (queue # <<>> => queue[1].dev # e)} :
        /\ mon' = [e \in Drives |-> IF e \in motor /\ mon[e] > 0 THEN mon[e] - 1 ELSE mon[e]]
        /\ motor' = {e \in motor : mon[e] > 0 \/ moff[e] # 0}
        /\ moff' = [e \in Drives |-> IF e \in over THEN 0
                                     ELSE IF e \in motor /\ mon[e] = 0 /\ moff[e] > 0 THEN moff[e] - 1
                                     ELSE moff[e]]
        /\ change' = IF change.pc = "wait_motor" /\ change.nr \in motor /\ mon[change.nr] = 1
                     THEN [change EXCEPT !.pc = "floppy_on"] ELSE change
    BY DEF TickEnd, do_floppy_timer
  <1>3. mon' \in [Drives -> 0 .. SpinUp + 2]
    <2>1. \A e \in Drives : (IF e \in motor /\ mon[e] > 0 THEN mon[e] - 1 ELSE mon[e]) \in 0 .. SpinUp + 2
      <3> TAKE e \in Drives
      <3>1. mon[e] \in 0 .. SpinUp + 2
        BY <1>0
      <3> QED BY <3>1, Delays
    <2> QED BY <1>2, <2>1
  <1>4. moff' \in [Drives -> {Long} \cup 0 .. RunOn]
    <2>1. \A e \in Drives : (IF e \in over THEN 0
                             ELSE IF e \in motor /\ mon[e] = 0 /\ moff[e] > 0 THEN moff[e] - 1
                             ELSE moff[e]) \in {Long} \cup 0 .. RunOn
      <3> TAKE e \in Drives
      <3>1. moff[e] \in {Long} \cup 0 .. RunOn
        BY <1>0
      <3> QED BY <3>1, Delays DEF Long
    <2> QED BY <1>2, <2>1
  <1>41. change' \in Changes /\ change'.pc \in Places
    BY <1>0, <1>2 DEF Changes, Places
  <1>5. Typed'
    BY <1>0, <1>1, <1>2, <1>3, <1>4, <1>41 DEF Typed, TypeOK, dvars, Places
  <1>6. OneThing'
    BY <1>1 DEF IInv, OneThing
  <1>7. /\ mon[d] \in Nat /\ moff[d] \in Int /\ d' = d /\ Now = 1 /\ Now' = 0
        /\ mon'[d] = (IF d \in motor /\ mon[d] > 0 THEN mon[d] - 1 ELSE mon[d])
        /\ d \notin over =>
              moff'[d] = (IF d \in motor /\ mon[d] = 0 /\ moff[d] > 0 THEN moff[d] - 1 ELSE moff[d])
    <2>1. mon[d] \in Nat /\ moff[d] \in Int
      BY <1>0, Delays DEF Long
    <2>2. d' = d /\ Now = 1 /\ Now' = 0
      BY <1>1 DEF Now, dvars
    <2>3. mon'[d] = (IF d \in motor /\ mon[d] > 0 THEN mon[d] - 1 ELSE mon[d])
      BY <1>0, <1>2
    <2>4. moff'[d] = IF d \in over THEN 0
                     ELSE IF d \in motor /\ mon[d] = 0 /\ moff[d] > 0 THEN moff[d] - 1
                     ELSE moff[d]
      BY <1>0, <1>2
    <2> QED BY <2>1, <2>2, <2>3, <2>4
  <1>71. Valid /\ d = CURRENT.dev => d \notin over
    <2> SUFFICES ASSUME Valid, d = CURRENT.dev PROVE d \notin over
      OBVIOUS
    <2>1. queue # <<>> /\ queue[1].dev = d
      BY <1>0, FirstRequest DEF Valid
    <2> QED BY <1>2, <2>1
  <1>8. ASSUME NEW n \in Int, n >= 1, d \in motor, mon[d] <= 2, moff[d] = Long \/ moff[d] >= n, d \notin over
        PROVE  d \in motor' /\ mon'[d] <= 2 /\ (moff'[d] = Long \/ moff'[d] >= n - 1)
    <2>1. moff[d] # 0
      BY <1>7, <1>8 DEF Long
    <2>2. mon'[d] <= 2
      BY <1>7, <1>8
    <2>3. moff'[d] = Long \/ moff'[d] >= n - 1
      BY <1>7, <1>8 DEF Long
    <2> QED BY <1>2, <1>8, <2>1, <2>2, <2>3
  <1>9. CASE timers # <<>>
    <2>1. /\ ctl = Quiet /\ timers[1] \in Timers /\ timers[1].jiffies > 0 /\ d \in motor
          /\ Valid /\ d = CURRENT.dev
      BY <1>0, <1>1, <1>9 DEF IInv, OneThing, Serving, Working
    <2>2. timers[1].jiffies \in Nat
      BY <2>1 DEF Timers
    <2>3. CASE Timer("floppy_on_interrupt")
      <3>1. /\ Kept /\ timers[1].jiffies + Now - 1 <= mon[d]
            /\ mon[d] <= 2 \/ mon[d] <= timers[1].jiffies + Now
        BY <2>3 DEF IInv, SpinningUp
      <3>2. mon[d] > 0 /\ mon[d] # 0
        BY <1>7, <2>1, <2>2, <3>1
      <3>3. d \in motor' /\ mon'[d] = mon[d] - 1 /\ moff'[d] = moff[d]
        BY <1>2, <1>7, <1>71, <2>1, <3>2
      <3>4. /\ timers[1].jiffies + Now' - 1 <= mon'[d]
            /\ mon'[d] <= 2 \/ mon'[d] <= timers[1].jiffies + Now'
        BY <1>7, <2>2, <3>1, <3>3
      <3>5. SpinningUp'
        BY <1>1, <1>7, <3>1, <3>3, <3>4 DEF SpinningUp, Kept
      <3>6. InUse'
        BY <1>1, <2>1, <2>3 DEF InUse, Timer
      <3>7. Serving'
        BY <1>1, <1>7, <2>1, <3>3 DEF Serving, Valid, CURRENT
      <3> QED BY <1>5, <1>6, <3>5, <3>6, <3>7 DEF IInv
    <2>4. CASE Timer("transfer")
      <3> DEFINE n == timers[1].jiffies + 2 * Latency + Now
      <3>1. timers[1].jiffies <= 2 /\ Holds(n)
        BY <2>4 DEF IInv, InUse
      <3>2. n \in Int /\ n >= 1 /\ n - 1 = timers[1].jiffies + 2 * Latency + Now'
        BY <1>7, <2>2, Delays
      <3> HIDE DEF n
      <3>3. selected /\ dor = d /\ mon[d] <= 2 /\ (moff[d] = Long \/ moff[d] >= n)
        BY <3>1 DEF Holds
      <3>4. d \in motor' /\ mon'[d] <= 2 /\ (moff'[d] = Long \/ moff'[d] >= n - 1)
        BY <1>8, <1>71, <2>1, <3>2, <3>3
      <3>5. InUse'
        BY <1>1, <1>7, <2>1, <2>4, <3>1, <3>2, <3>3, <3>4 DEF InUse, Holds, Timer
      <3>6. SpinningUp'
        BY <1>1, <2>4 DEF SpinningUp, Timer
      <3>7. Serving'
        BY <1>1, <1>7, <2>1, <3>4 DEF Serving, Valid, CURRENT
      <3> QED BY <1>5, <1>6, <3>5, <3>6, <3>7 DEF IInv
    <2> QED BY <1>9, <2>1, <2>3, <2>4 DEF Timer, Timers
  <1>10. CASE timers = <<>> /\ Transfers
    <2> DEFINE n == IF do_floppy = "seek_interrupt" THEN 2 * Latency - ctl.age + Now ELSE Latency - ctl.age + Now
    <2>1. d \in motor /\ Valid /\ d = CURRENT.dev /\ Holds(n)
      BY <1>10 DEF IInv, Serving, Working, InUse, Transfers
    <2>2. /\ n \in Int /\ n >= 1
          /\ n - 1 = IF do_floppy = "seek_interrupt" THEN 2 * Latency - ctl.age + Now' ELSE Latency - ctl.age + Now'
      BY <1>0, <1>7, Delays, SMTT(30)
    <2> HIDE DEF n
    <2>3. selected /\ dor = d /\ mon[d] <= 2 /\ (moff[d] = Long \/ moff[d] >= n)
      BY <2>1 DEF Holds
    <2>4. d \in motor' /\ mon'[d] <= 2 /\ (moff'[d] = Long \/ moff'[d] >= n - 1)
      BY <1>8, <1>71, <2>1, <2>2, <2>3
    <2>5. InUse'
      BY <1>1, <1>7, <1>10, <2>2, <2>3, <2>4 DEF InUse, Holds, Timer
    <2>6. SpinningUp'
      BY <1>1, <1>10 DEF SpinningUp, Timer
    <2>7. Serving'
      BY <1>1, <1>7, <2>1, <2>4 DEF Serving, Valid, CURRENT
    <2> QED BY <1>5, <1>6, <2>5, <2>6, <2>7 DEF IInv
  <1>11. CASE timers = <<>> /\ ~Transfers
    <2>1. SpinningUp' /\ InUse'
      BY <1>1, <1>11 DEF SpinningUp, InUse, Timer, Transfers
    <2>2. Serving'
      BY <1>1, <1>11 DEF IInv, Serving, Working, Transfers, Valid, CURRENT
    <2> QED BY <1>5, <1>6, <2>1, <2>2 DEF IInv
  <1> QED BY <1>9, <1>10, <1>11

-----------------------------------------------------------------------------
\* add_request: the first request stays the first; the driver is called only
\* when nothing is under way.
LEMMA SubmitInv ==
    ASSUME IInv, NEW b \in Blocks, Submit(b), Ahead'
    PROVE  IInv'
  <1> DEFINE r == [cmd |-> b.cmd, dev |-> b.dev, sector |-> b.sector, errors |-> 0, bh |-> b]
  <1>0. Typed /\ queue \in Seq(Requests) /\ lock \in [Blocks -> BOOLEAN]
    BY DEF IInv, Typed, TypeOK
  <1>1. r \in Requests
    BY FloppyConstants, Delays DEF Requests
  <1>2. /\ call = "none" /\ ~tick /\ lock' = [lock EXCEPT ![b] = TRUE]
        /\ UNCHANGED <<do_floppy, reset, recalibrate, seek_track, current_drive, current_track, selected,
                       mvars, timers, tick, ctl, change, faults>>
    BY DEF Submit
  <1>21. overtaken' = 0 /\ (queue = <<>> => ctl = Quiet)
    BY DEF Submit, Ahead, IInv, Typed
  <1>3. lock' \in [Blocks -> BOOLEAN]
    BY <1>0, <1>2
  <1>4. CASE queue = <<>>
    <2>1. ctl = Quiet /\ queue' = <<r>> /\ call' = "do_fd_request" /\ seek' = FALSE
      BY <1>4, <1>21 DEF Submit, Again
    <2>2. queue' \in Seq(Requests)
      BY <1>1, <2>1
    <2>3. \A i \in DOMAIN queue' : queue'[i].errors \in 0 .. MAX_ERRORS
      BY <2>2, ErrorsBounded
    <2>4. Typed'
      BY <1>0, <1>2, <1>21, <1>3, <2>1, <2>2, <2>3 DEF Typed, TypeOK, mvars
    <2>5. timers = <<>> /\ ~selected
      BY <1>4 DEF IInv, Serving, Working, Valid
    <2> QED BY <1>2, <2>1, <2>4, <2>5, AtRest
  <1>5. CASE queue # <<>>
    <2> DEFINE i == ElevatorPosition(queue, r)
    <2>1. queue' = InsertAfter(queue, i, r) /\ call' = call /\ seek' = seek
      BY <1>5 DEF Submit
    <2>2. Len(queue) \in Nat \ {0}
      BY <1>0, <1>5, EmptySeq
    <2>3. i \in 1 .. Len(queue)
      BY <2>2, PositionInList
    <2> HIDE DEF i, r
    <2>4. ASSUME NEW k \in 1 .. Len(queue)
          PROVE  /\ InsertAfter(queue, k, r) \in Seq(Requests) /\ InsertAfter(queue, k, r) # <<>>
                 /\ Head(InsertAfter(queue, k, r)) = Head(queue)
      BY <1>0, <1>1, InsertKeepsFirst
    <2>5. queue' \in Seq(Requests) /\ queue' # <<>> /\ CURRENT' = CURRENT
      BY <2>1, <2>3, <2>4 DEF CURRENT
    <2>6. \A k \in DOMAIN queue' : queue'[k].errors \in 0 .. MAX_ERRORS
      BY <2>5, ErrorsBounded
    <2>7. Typed'
      BY <1>0, <1>2, <1>21, <1>3, <2>1, <2>5, <2>6 DEF Typed, TypeOK, mvars
    <2>8. OneThing'
      BY <1>2, <2>1 DEF IInv, OneThing
    <2>9. Serving'
      BY <1>2, <1>5, <2>1, <2>5 DEF IInv, Serving, Working, Transfers, Valid, mvars
    <2>10. SpinningUp'
      BY <1>2, <2>1 DEF IInv, SpinningUp, Kept, Timer, Now, mvars
    <2>11. InUse'
      BY <1>2, <2>1 DEF IInv, InUse, Holds, Timer, Now, mvars
    <2> QED BY <2>7, <2>8, <2>9, <2>10, <2>11 DEF IInv
  <1> QED BY <1>4, <1>5

\* What Ended does to the variables' types.
LEMMA EndedTypes ==
    ASSUME Typed, NEW q \in Seq(Requests), q # <<>>, Ended(q)
    PROVE  /\ queue' \in Seq(Requests) /\ (\A i \in DOMAIN queue' : queue'[i].errors \in 0 .. MAX_ERRORS)
           /\ lock' \in [Blocks -> BOOLEAN] /\ moff' \in [Drives -> {Long} \cup 0 .. RunOn]
  <1>1. queue' = Tail(q) /\ lock' = [lock EXCEPT ![q[1].bh] = FALSE] /\ moff' = [moff EXCEPT ![q[1].dev] = RunOn]
    BY DEF Ended
  <1>2. queue' \in Seq(Requests)
    BY <1>1
  <1>3. \A i \in DOMAIN queue' : queue'[i].errors \in 0 .. MAX_ERRORS
    BY <1>2, ErrorsBounded
  <1>4. lock \in [Blocks -> BOOLEAN] /\ moff \in [Drives -> {Long} \cup 0 .. RunOn]
    BY DEF Typed, TypeOK
  <1>5. RunOn \in 0 .. RunOn
    BY Delays
  <1> QED BY <1>1, <1>2, <1>3, <1>4, <1>5

\* do_fd_request in the middle of a recovery, without work or with a request
\* beyond the end of the diskette.  That one is never the one selected.
LEMMA RequestInv ==
    ASSUME IInv, ResetFloppy \/ RecalibrateFloppy \/ NoWork \/ Reject
    PROVE  IInv'
  <1>0. /\ Typed /\ timers = <<>> /\ ctl = Quiet /\ (selected => Valid) /\ InRequest
        /\ faults \in 0 .. MaxFaults /\ MaxFaults \in Nat
    BY Delays DEF IInv, OneThing, Serving, InRequest, ResetFloppy, RecalibrateFloppy, NoWork, Reject, Typed, TypeOK
  <1>1. CASE ResetFloppy
    <2>1. /\ reset' = FALSE /\ recalibrate' = TRUE /\ do_floppy' = "reset_interrupt"
          /\ ctl' = [cmd |-> "reset", track |-> 0, age |-> 0] /\ call' = "none"
          /\ UNCHANGED <<queue, lock, seek, seek_track, current_drive, current_track, selected, mvars, timers,
                         tick, change, faults, overtaken>>
      BY <1>1 DEF ResetFloppy
    <2>2. ctl' \in Commands /\ ctl'.cmd = "reset"
      BY <2>1, Delays DEF Commands
    <2>3. Typed'
      BY <1>0, <2>1, <2>2 DEF Typed, TypeOK, mvars
    <2>4. selected' => Valid'
      BY <1>0, <2>1 DEF Valid, CURRENT
    <2> QED BY <1>0, <2>1, <2>2, <2>3, <2>4, AtRest
  <1>2. CASE RecalibrateFloppy
    <2>1. /\ recalibrate' = FALSE /\ current_track' = 0 /\ do_floppy' = "recal_interrupt"
          /\ UNCHANGED <<queue, lock, seek_track, current_drive, selected, mvars, timers, tick, change, overtaken>>
          /\ \/ /\ ctl' = [cmd |-> "recalibrate", track |-> 0, age |-> 0] /\ call' = "none"
                /\ UNCHANGED <<reset, seek, faults>>
             \/ Refused /\ call' = "do_fd_request" /\ seek' = FALSE /\ ctl' = ctl
      BY <1>2 DEF RecalibrateFloppy, Command, Again
    <2>2. [cmd |-> "recalibrate", track |-> 0, age |-> 0] \in Commands
      BY Delays DEF Commands
    <2>21. ASSUME Refused PROVE faults' \in 0 .. MaxFaults /\ reset' \in BOOLEAN
      BY <1>0, <2>21 DEF Refused
    <2>22. ctl \in Commands /\ reset \in BOOLEAN
      BY <1>0 DEF Typed, TypeOK
    <2>3. ctl' \in Commands /\ faults' \in 0 .. MaxFaults /\ reset' \in BOOLEAN
      BY <1>0, <2>1, <2>2, <2>21, <2>22
    <2>4. Typed'
      BY <1>0, <2>1, <2>3 DEF Typed, TypeOK, mvars
    <2>5. selected' => Valid'
      BY <1>0, <2>1 DEF Valid, CURRENT
    <2> QED BY <1>0, <2>1, <2>4, <2>5, AtRest
  <1>3. CASE NoWork
    <2>1. /\ call' = "none" /\ queue = <<>>
          /\ UNCHANGED <<queue, lock, do_floppy, dvars, selected, mvars, timers, tick, ctl, change, faults, overtaken>>
      BY <1>3 DEF NoWork
    <2>2. Typed'
      BY <1>0, <2>1 DEF Typed, TypeOK, dvars, mvars
    <2> QED BY <1>0, <2>1, <2>2, AtRest DEF Valid, CURRENT
  <1>4. CASE Reject
    <2>1. /\ queue # <<>> /\ CURRENT.sector + 2 > Size /\ Ended(queue)
          /\ seek' = (seek \/ current_drive # CURRENT.dev) /\ current_drive' = CURRENT.dev
          /\ UNCHANGED <<call, do_floppy, reset, recalibrate, seek_track, current_track, selected, motor, dor,
                         mon, timers, tick, ctl, change, faults, overtaken>>
      BY <1>4 DEF Reject
    <2>2. CURRENT \in Requests /\ CURRENT.dev \in Drives /\ CURRENT.sector \in Nat
      BY <1>0, <2>1, FirstRequest DEF Requests
    <2>3. ~selected
      BY <1>0, <2>1, <2>2, Delays DEF Valid
    <2>4. /\ queue' \in Seq(Requests) /\ (\A i \in DOMAIN queue' : queue'[i].errors \in 0 .. MAX_ERRORS)
          /\ lock' \in [Blocks -> BOOLEAN] /\ moff' \in [Drives -> {Long} \cup 0 .. RunOn]
      BY <1>0, <2>1, EndedTypes DEF Typed
    <2>5. seek' \in BOOLEAN
      BY <2>1
    <2>6. Typed'
      BY <1>0, <2>1, <2>2, <2>4, <2>5 DEF Typed, TypeOK
    <2> QED BY <1>0, <2>1, <2>3, <2>6, AtRest DEF InRequest
  <1> QED BY <1>1, <1>2, <1>3, <1>4
-----------------------------------------------------------------------------
\* do_fd_request switches the motor on and sets the timer, or goes on at once.
LEMMA StartMotorInv ==
    ASSUME IInv, StartMotor
    PROVE  IInv'
  <1> DEFINE d == CURRENT.dev
  <1>0. Typed /\ timers = <<>> /\ ctl = Quiet /\ queue # <<>> /\ CURRENT.sector + 2 <= Size
    BY DEF IInv, OneThing, StartMotor, InRequest
  <1>1. /\ seek' = (seek \/ current_drive # d \/ Track(CURRENT) # current_track)
        /\ current_drive' = d /\ seek_track' = Track(CURRENT) /\ ticks_to_floppy_on(d)
        /\ UNCHANGED <<queue, lock, do_floppy, reset, recalibrate, current_track, selected, tick, ctl,
                       change, faults, overtaken>>
    BY DEF StartMotor
  <1>2. CURRENT' = CURRENT /\ d' = d /\ d \in Drives /\ Valid'
    BY <1>0, <1>1, FirstRequest DEF CURRENT, Valid
  <1> HIDE DEF d
  <1>3. /\ motor' \subseteq Drives /\ dor' \in Drives
        /\ mon' \in [Drives -> 0 .. SpinUp + 2] /\ moff' \in [Drives -> {Long} \cup 0 .. RunOn]
        /\ d \in motor' /\ moff'[d] = Long
    BY <1>0, <1>1, <1>2, MotorTypes
  <1>4. seek' \in BOOLEAN /\ seek_track' \in Nat
    BY <1>0, <1>1, FirstRequest, TrackIsNumber
  <1>5. mon'[d] \in Nat
    BY <1>2, <1>3, Delays
  <1>6. ASSUME timers' \in Seq(Timers), Len(timers') <= 1, call' \in {"none", "floppy_on_interrupt"}
        PROVE  Typed'
    BY <1>0, <1>1, <1>2, <1>3, <1>4, <1>6, SMTT(30) DEF Typed, TypeOK
  <1>7. Serving' /\ Kept'
    <2>1. Serving'
      BY <1>1, <1>2, <1>3 DEF Serving, d
    <2> QED BY <1>1, <1>3, <2>1 DEF Kept
  <1>8. CASE mon'[d] = 0
    <2>1. call' = "floppy_on_interrupt" /\ timers' = <<>>
      BY <1>0, <1>8 DEF StartMotor, d, add_timer
    <2>2. Typed'
      BY <1>6, <2>1
    <2>3. OneThing'
      BY <1>0, <1>1, <2>1 DEF OneThing
    <2>4. SpinningUp' /\ InUse'
      BY <1>0, <1>1, <1>7, <1>8, <2>1 DEF SpinningUp, InUse, Timer
    <2> QED BY <1>7, <2>2, <2>3, <2>4 DEF IInv
  <1>9. CASE mon'[d] # 0
    <2> DEFINE t == [jiffies |-> mon'[d], fn |-> "floppy_on_interrupt"]
    <2>00. Len(timers) # TIME_REQUESTS
      BY <1>0, RoomForTimer
    <2>0. call' = "none" /\ timers' = Added(<<>>, mon'[d], "floppy_on_interrupt")
      BY <1>0, <1>9, <2>00 DEF StartMotor, d, add_timer
    <2>1. ASSUME NEW j \in Nat PROVE Added(<<>>, j, "floppy_on_interrupt") = <<[jiffies |-> j, fn |-> "floppy_on_interrupt"]>>
      BY FirstTimer
    <2>2. timers' = <<t>>
      BY <1>5, <2>0, <2>1
    <2>3. t \in Timers /\ t.jiffies = mon'[d] /\ t.fn = "floppy_on_interrupt"
      BY <1>5 DEF Timers
    <2> HIDE DEF t
    <2>4. timers' \in Seq(Timers) /\ Len(timers') <= 1 /\ timers'[1] = t /\ timers' # <<>>
      BY <2>2, <2>3
    <2>5. Typed'
      BY <1>6, <2>0, <2>4
    <2>6. timers'[1].jiffies > 0
      BY <1>5, <1>9, <2>3, <2>4
    <2>7. OneThing'
      BY <1>0, <1>1, <2>0, <2>6 DEF OneThing
    <2>8. Now' \in {0, 1}
      BY DEF Now
    <2>9. /\ timers'[1].jiffies + Now' - 1 <= mon'[d]
          /\ mon'[d] <= timers'[1].jiffies + Now'
      BY <1>5, <2>3, <2>4, <2>8
    <2>10. SpinningUp' /\ InUse'
      <3>1. SpinningUp'
        BY <1>1, <1>7, <2>0, <2>9 DEF SpinningUp
      <3>2. ~Timer("transfer")'
        BY <2>3, <2>4 DEF Timer
      <3> QED BY <1>0, <1>1, <2>0, <3>1, <3>2 DEF InUse
    <2> QED BY <1>7, <2>5, <2>7, <2>10 DEF IInv
  <1> QED BY <1>8, <1>9

\* floppy_on_interrupt: the select is taken, and the motor runs on for long
\* enough even if floppy_change has meanwhile left it to its countdown.
LEMMA FloppyOnInv ==
    ASSUME IInv, FloppyOn
    PROVE  IInv'
  <1> DEFINE d == current_drive
  <1>0. /\ Typed /\ timers = <<>> /\ ctl = Quiet /\ Kept /\ mon[d] <= 2
        /\ Valid /\ d = CURRENT.dev /\ d \in motor /\ d \in Drives /\ moff[d] \in Int
    BY Delays DEF IInv, OneThing, SpinningUp, Serving, Working, FloppyOn, Typed, TypeOK, Long
  <1>1. /\ selected' = TRUE
        /\ UNCHANGED <<queue, lock, do_floppy, dvars, motor, mon, moff, tick, ctl, change, faults, overtaken>>
    BY DEF FloppyOn
  <1>2. Now \in {0, 1} /\ Now' = Now /\ d' = d
    BY <1>1 DEF Now, dvars
  <1>3. moff[d] = Long \/ moff[d] >= 2 + 2 * Latency + Now
    BY <1>0, <1>2, Delays DEF Kept
  <1>4. Serving'
    BY <1>0, <1>1 DEF Serving, Valid, CURRENT, dvars
  <1>5. CASE d # dor
    <2> DEFINE t == [jiffies |-> 2, fn |-> "transfer"]
    <2>0. Len(timers) # TIME_REQUESTS /\ 2 # 0
      BY <1>0, RoomForTimer
    <2>1. dor' = d /\ call' = "none" /\ timers' = Added(<<>>, 2, "transfer")
      BY <1>0, <1>5, <2>0 DEF FloppyOn, add_timer
    <2>2. timers' = <<t>>
      BY <2>1, FirstTimer
    <2>3. t \in Timers /\ t.jiffies = 2 /\ t.fn = "transfer"
      BY DEF Timers
    <2> HIDE DEF t
    <2>4. timers' \in Seq(Timers) /\ Len(timers') <= 1 /\ timers'[1] = t /\ timers' # <<>>
      BY <2>2, <2>3
    <2>5. Typed'
      BY <1>0, <1>1, <2>1, <2>4 DEF Typed, TypeOK, dvars
    <2>6. OneThing'
      BY <1>0, <1>1, <2>1, <2>3, <2>4 DEF OneThing
    <2>7. timers'[1].jiffies = 2 /\ timers'[1].fn = "transfer"
      BY <2>3, <2>4
    <2>8. SpinningUp'
      BY <2>1, <2>7 DEF SpinningUp, Timer
    <2>9. Holds(timers[1].jiffies + 2 * Latency + Now)'
      BY <1>0, <1>1, <1>2, <1>3, <2>1, <2>7 DEF Holds
    <2>10. InUse'
      BY <1>0, <1>1, <2>1, <2>7, <2>9 DEF InUse
    <2> QED BY <1>4, <2>5, <2>6, <2>8, <2>10 DEF IInv
  <1>6. CASE d = dor
    <2>1. dor' = dor /\ call' = "transfer" /\ timers' = timers
      BY <1>6 DEF FloppyOn
    <2>2. Typed'
      BY <1>0, <1>1, <2>1 DEF Typed, TypeOK, dvars
    <2>3. OneThing'
      BY <1>0, <1>1, <2>1 DEF OneThing
    <2>4. moff[d] = Long \/ moff[d] >= 2 * Latency + Now
      BY <1>0, <1>2, <1>3, Delays
    <2>5. Holds(2 * Latency + Now)'
      BY <1>0, <1>1, <1>2, <1>6, <2>1, <2>4 DEF Holds
    <2>6. SpinningUp' /\ InUse'
      BY <1>0, <1>1, <2>1, <2>5 DEF SpinningUp, InUse, Timer
    <2> QED BY <1>4, <2>2, <2>3, <2>6 DEF IInv
  <1> QED BY <1>5, <1>6

\* A command given for the first request, with the motor running on for the
\* time that it takes; or a byte of it that is not taken.
LEMMA CommandInv ==
    ASSUME IInv, NEW cmd \in {"seek", "recalibrate", "rw"}, NEW track \in Nat,
           NEW handler \in {"seek_interrupt", "rw_interrupt"},
           handler = "rw_interrupt" <=> cmd = "rw",
           call \in {"transfer", "setup_rw_floppy"},
           handler = "seek_interrupt" => Holds(2 * Latency + Now),
           handler = "rw_interrupt" => Holds(Latency + Now),
           Command(cmd, track, handler),
           UNCHANGED <<queue, lock, recalibrate, seek_track, current_drive, current_track, selected, mvars,
                       timers, tick, change, overtaken>>
    PROVE  IInv'
  <1> DEFINE d == current_drive  c == [cmd |-> cmd, track |-> track, age |-> 0]
  <1>0. /\ Typed /\ timers = <<>> /\ ctl = Quiet /\ (selected => Valid)
        /\ Valid /\ d = CURRENT.dev /\ d \in motor /\ faults \in 0 .. MaxFaults /\ MaxFaults \in Nat
    BY Delays DEF IInv, OneThing, Serving, Working, Typed, TypeOK
  <1>1. Valid' /\ Now' = Now /\ CURRENT' = CURRENT /\ timers' = <<>>
    BY <1>0 DEF Valid, CURRENT, Now
  <1>2. do_floppy' = handler
    BY DEF Command
  <1>3. CASE /\ ctl' = c /\ call' = "none"
             /\ UNCHANGED <<reset, seek, faults>>
    <2>1. c \in Commands /\ c.cmd = cmd /\ c.age = 0
      BY Delays DEF Commands
    <2> HIDE DEF c
    <2>2. ctl' # Quiet
      BY <1>3, <2>1 DEF Quiet
    <2>3. Typed'
      BY <1>0, <1>2, <1>3, <2>1 DEF Typed, TypeOK, mvars
    <2>4. OneThing'
      BY <1>1, <1>2, <1>3, <2>1, <2>2 DEF OneThing
    <2>5. Serving'
      BY <1>0, <1>1 DEF Serving, mvars
    <2>6. SpinningUp'
      BY <1>1, <1>3 DEF SpinningUp, Timer
    <2>7. CASE handler = "seek_interrupt"
      <3>1. 2 * Latency - ctl'.age + Now' = 2 * Latency + Now
        BY <1>1, <1>3, <2>1, Delays DEF Now
      <3>2. Holds(2 * Latency - ctl.age + Now)'
        BY <2>7, <3>1 DEF Holds, mvars
      <3>3. InUse'
        BY <1>1, <1>2, <1>3, <2>7, <3>2 DEF InUse, Timer
      <3> QED BY <2>3, <2>4, <2>5, <2>6, <3>3 DEF IInv
    <2>8. CASE handler = "rw_interrupt"
      <3>1. Latency - ctl'.age + Now' = Latency + Now
        BY <1>1, <1>3, <2>1, Delays DEF Now
      <3>2. Holds(Latency - ctl.age + Now)'
        BY <2>8, <3>1 DEF Holds, mvars
      <3>3. InUse'
        BY <1>1, <1>2, <1>3, <2>8, <3>2 DEF InUse, Timer
      <3> QED BY <2>3, <2>4, <2>5, <2>6, <3>3 DEF IInv
    <2> QED BY <2>7, <2>8
  <1>4. CASE Refused /\ call' = "do_fd_request" /\ seek' = FALSE /\ ctl' = ctl
    <2>1. faults' \in 0 .. MaxFaults /\ reset' = TRUE
      BY <1>0, <1>4 DEF Refused
    <2>2. Typed'
      BY <1>0, <1>2, <1>4, <2>1 DEF Typed, TypeOK, mvars
    <2> QED BY <1>0, <1>1, <1>4, <2>2, AtRest
  <1> QED BY <1>3, <1>4 DEF Command, Again

\* transfer: a seek, the transfer at once, or a byte that is not taken.
LEMMA TransferInv ==
    ASSUME IInv, Transfer
    PROVE  IInv'
  <1>0. /\ Typed /\ timers = <<>> /\ ctl = Quiet /\ call = "transfer" /\ Holds(2 * Latency + Now)
        /\ Valid /\ current_drive = CURRENT.dev /\ current_drive \in motor
        /\ faults \in 0 .. MaxFaults /\ MaxFaults \in Nat
    BY Delays DEF IInv, OneThing, Serving, Working, InUse, Transfer, Typed, TypeOK
  <1>1. UNCHANGED <<queue, lock, recalibrate, seek_track, current_drive, current_track, selected, mvars,
                    timers, tick, change, overtaken>>
    BY DEF Transfer
  <1>2. seek_track \in Nat
    BY <1>0 DEF Typed, TypeOK
  <1>3. CASE seek
    <2> DEFINE cmd == IF seek_track = 0 THEN "recalibrate" ELSE "seek"
               track == seek_track
    <2>1. Command(cmd, track, "seek_interrupt")
      BY <1>3 DEF Transfer
    <2>2. cmd \in {"seek", "recalibrate"} /\ track \in Nat
      BY <1>2
    <2> HIDE DEF cmd, track
    <2>3. ASSUME NEW c \in {"seek", "recalibrate"}, NEW t \in Nat, Command(c, t, "seek_interrupt") PROVE IInv'
      BY <1>0, <1>1, <2>3, CommandInv
    <2> QED BY <2>1, <2>2, <2>3
  <1>4. CASE ~seek
    <2>1. CASE /\ call' = "setup_rw_floppy" /\ UNCHANGED <<do_floppy, reset, seek, ctl, faults>>
      <3>1. Typed'
        BY <1>0, <1>1, <2>1 DEF Typed, TypeOK, mvars
      <3>2. OneThing'
        BY <1>0, <1>1, <2>1 DEF OneThing
      <3>3. Serving'
        BY <1>0, <1>1 DEF Serving, Valid, CURRENT, mvars
      <3>4. moff[current_drive] \in Int /\ Now \in {0, 1} /\ Now' = Now
        BY <1>0, <1>1, Delays DEF Typed, TypeOK, Now, Long
      <3>5. /\ selected /\ dor = current_drive /\ mon[current_drive] <= 2
            /\ moff[current_drive] = Long \/ moff[current_drive] >= 2 * Latency + Now
        BY <1>0 DEF Holds
      <3>6. moff[current_drive] = Long \/ moff[current_drive] >= Latency + Now
        BY <3>4, <3>5, Delays
      <3>7. Holds(Latency + Now)'
        BY <1>1, <3>4, <3>5, <3>6 DEF Holds, mvars
      <3>8. SpinningUp' /\ InUse'
        BY <1>0, <1>1, <2>1, <3>7 DEF SpinningUp, InUse, Timer
      <3> QED BY <3>1, <3>2, <3>3, <3>8 DEF IInv
    <2>2. CASE Refused /\ call' = "do_fd_request" /\ seek' = FALSE /\ do_floppy' = do_floppy /\ ctl' = ctl
      <3>1. faults' \in 0 .. MaxFaults /\ reset' = TRUE
        BY <1>0, <2>2 DEF Refused
      <3>2. Typed'
        BY <1>0, <1>1, <2>2, <3>1 DEF Typed, TypeOK, mvars
      <3>3. Valid'
        BY <1>0, <1>1 DEF Valid, CURRENT
      <3> QED BY <1>0, <1>1, <2>2, <3>2, <3>3, AtRest
    <2> QED BY <1>4, <2>1, <2>2 DEF Transfer, Again
  <1> QED BY <1>3, <1>4

\* setup_rw_floppy.
LEMMA SetupInv ==
    ASSUME IInv, SetupRwFloppy
    PROVE  IInv'
  <1>0. Typed /\ call = "setup_rw_floppy" /\ Holds(Latency + Now) /\ Valid
    BY DEF IInv, Serving, Working, InUse, SetupRwFloppy
  <1>1. UNCHANGED <<queue, lock, recalibrate, seek_track, current_drive, current_track, selected, mvars,
                    timers, tick, change, overtaken>>
    BY DEF SetupRwFloppy
  <1> DEFINE track == seek_track
  <1>2. track \in Nat
    BY <1>0 DEF Typed, TypeOK
  <1>3. Command("rw", track, "rw_interrupt")
    BY DEF SetupRwFloppy
  <1> HIDE DEF track
  <1>4. ASSUME NEW t \in Nat, Command("rw", t, "rw_interrupt") PROVE IInv'
    BY <1>0, <1>1, <1>4, CommandInv
  <1> QED BY <1>2, <1>3, <1>4

-----------------------------------------------------------------------------
\* A list whose first element is replaced.
LEMMA FirstReplaced ==
    ASSUME NEW S, NEW q \in Seq(S), q # <<>>, NEW x
    PROVE  LET c == [q EXCEPT ![1] = x] IN
           /\ c # <<>> /\ c[1] = x /\ Tail(c) = Tail(q)
           /\ x \in S => c \in Seq(S) /\ Head(c) = x
  <1> DEFINE c == [q EXCEPT ![1] = x]  T == S \cup {x}
  <1>1. q \in Seq(T) /\ x \in T /\ Len(q) \in Nat \ {0} /\ 1 \in 1 .. Len(q)
    <2>1. Len(q) \in Nat \ {0}
      BY EmptySeq
    <2>2. \A k \in 1 .. Len(q) : q[k] \in T
      BY ElementOfSeq
    <2>3. q \in Seq(T)
      BY <2>1, <2>2
    <2> QED BY <2>1, <2>3
  <1>2. c \in Seq(T) /\ Len(c) = Len(q) /\ c[1] = x /\ \A k \in 1 .. Len(q) : k # 1 => c[k] = q[k]
    <2>1. /\ c \in Seq(T) /\ Len(c) = Len(q)
          /\ \A k \in 1 .. Len(q) : c[k] = IF k = 1 THEN x ELSE q[k]
      BY <1>1, ExceptSeq
    <2> QED BY <1>1, <2>1
  <1> HIDE DEF c, T
  <1>3. c # <<>>
    BY <1>1, <1>2, EmptySeq
  <1>4. Tail(c) = Tail(q)
    <2>1. Tail(c) \in Seq(T) /\ Tail(q) \in Seq(T) /\ Len(Tail(c)) = Len(q) - 1 /\ Len(Tail(q)) = Len(q) - 1
      BY <1>1, <1>2, <1>3
    <2>2. \A k \in 1 .. Len(q) - 1 : Tail(c)[k] = Tail(q)[k]
      <3> TAKE k \in 1 .. Len(q) - 1
      <3>1. Tail(c)[k] = c[k + 1] /\ Tail(q)[k] = q[k + 1]
        BY <1>1, <1>2, <1>3
      <3>2. k + 1 \in 1 .. Len(q) /\ k + 1 # 1
        BY <1>1
      <3> QED BY <1>2, <3>1, <3>2
    <2> QED BY <2>1, <2>2, SeqEqual
  <1>5. ASSUME x \in S PROVE c \in Seq(S) /\ Head(c) = x
    <2>1. S = T
      BY <1>5 DEF T
    <2> QED BY <1>2, <1>3, <2>1
  <1> QED BY <1>2, <1>3, <1>4, <1>5 DEF c

\* The error counted changes nothing else of the request.
LEMMA CountedRequest ==
    ASSUME Typed, queue # <<>>
    PROVE  /\ Ended(Counted) => Ended(queue)
           /\ Counted[1].errors <= MAX_ERRORS =>
                 Counted \in Seq(Requests) /\ Counted # <<>> /\ Head(Counted).sector = CURRENT.sector
  <1> DEFINE x == [queue[1] EXCEPT !.errors = @ + 1]
  <1>0. queue \in Seq(Requests) /\ queue[1] \in Requests /\ CURRENT = queue[1]
    BY FirstRequest DEF Typed
  <1>1. /\ x.bh = queue[1].bh /\ x.dev = queue[1].dev /\ x.sector = queue[1].sector
        /\ x.errors \in Nat /\ (x.errors <= MAX_ERRORS => x \in Requests)
    <2> DEFINE r == queue[1]
    <2>1. /\ r.errors \in Nat /\ r.cmd \in {READ, WRITE} /\ r.dev \in Drives /\ r.sector \in Nat /\ r.bh \in Blocks
          /\ r = [cmd |-> r.cmd, dev |-> r.dev, sector |-> r.sector, errors |-> r.errors, bh |-> r.bh]
      BY <1>0, Delays DEF Requests
    <2> HIDE DEF r
    <2>2. x = [cmd |-> r.cmd, dev |-> r.dev, sector |-> r.sector, errors |-> r.errors + 1, bh |-> r.bh]
      BY <2>1 DEF r
    <2>3. /\ x.bh = r.bh /\ x.dev = r.dev /\ x.sector = r.sector /\ x.errors = r.errors + 1
          /\ r.errors + 1 \in Nat
      BY <2>1, <2>2
    <2>4. ASSUME r.errors + 1 <= MAX_ERRORS PROVE x \in Requests
      <3>1. r.errors + 1 \in 0 .. MAX_ERRORS
        BY <2>1, <2>4, Delays
      <3> QED BY <2>1, <2>2, <3>1 DEF Requests
    <2> QED BY <2>3, <2>4 DEF r
  <1>2. Counted = [queue EXCEPT ![1] = x]
    BY DEF Counted
  <1> HIDE DEF x
  <1>3. /\ Counted # <<>> /\ Counted[1] = x /\ Tail(Counted) = Tail(queue)
        /\ x \in Requests => Counted \in Seq(Requests) /\ Head(Counted) = x
    BY <1>0, <1>2, FirstReplaced
  <1>4. ASSUME Ended(Counted) PROVE Ended(queue)
    BY <1>1, <1>3, <1>4 DEF Ended
  <1> QED BY <1>0, <1>1, <1>3, <1>4

\* floppy_deselect leaves the process in floppy_change at one of its places.
LEMMA Deselected ==
    ASSUME Typed, floppy_deselect
    PROVE  selected' = FALSE /\ change' \in Changes
  <1>1. change \in Changes
    BY DEF Typed
  <1> QED BY <1>1 DEF floppy_deselect, Changes, Places

\* bad_flp_intr, after a seek or a transfer: the request is tried again with
\* the select kept, or given up and the select released.
LEMMA FailedInv ==
    ASSUME IInv, SeekFailed \/ RwFailed
    PROVE  IInv'
  <1>1. /\ call = "none" /\ ~tick /\ ctl # Quiet /\ do_floppy \in {"seek_interrupt", "rw_interrupt"}
        /\ do_floppy' = NULL /\ ctl' = Quiet /\ bad_flp_intr /\ call' = "do_fd_request" /\ seek' = FALSE
        /\ UNCHANGED <<seek_track, current_drive, current_track, motor, dor, mon, timers, tick, overtaken>>
    BY DEF SeekFailed, RwFailed, Handles, Again, IInv, Typed
  <1>2. Typed /\ Valid /\ timers = <<>> /\ faults \in 0 .. MaxFaults /\ MaxFaults \in Nat /\ queue # <<>>
    BY <1>1, Delays DEF IInv, OneThing, Serving, Working, Transfers, Typed, TypeOK, Valid
  <1>3. PICK late \in BOOLEAN : Worse(late)
    BY <1>1 DEF bad_flp_intr
  <1>4. faults' \in 0 .. MaxFaults
    BY <1>2, <1>3 DEF Worse
  <1>5. reset' \in BOOLEAN /\ recalibrate' \in BOOLEAN
    BY <1>3 DEF Worse
  <1>6. Quiet \in Commands
    BY Delays DEF Quiet, Commands
  <1>7. ASSUME queue' \in Seq(Requests), lock' \in [Blocks -> BOOLEAN], selected' \in BOOLEAN,
               moff' \in [Drives -> {Long} \cup 0 .. RunOn], selected' => Valid', change' \in Changes
        PROVE  IInv'
    <2>1. \A i \in DOMAIN queue' : queue'[i].errors \in 0 .. MAX_ERRORS
      BY <1>7, ErrorsBounded
    <2>11. change'.pc \in Places
      BY <1>7 DEF Changes
    <2>2. Typed'
      BY <1>1, <1>2, <1>4, <1>5, <1>6, <1>7, <2>1, <2>11 DEF Typed, TypeOK, Places
    <2> QED BY <1>1, <1>2, <1>7, <2>2, AtRest
  <1>8. CASE Counted[1].errors > MAX_ERRORS
    <2>0. Ended(Counted) /\ floppy_deselect
      BY <1>1, <1>8 DEF bad_flp_intr
    <2>1. Ended(Counted) /\ selected' = FALSE /\ change' \in Changes
      BY <1>2, <2>0, Deselected
    <2>2. Ended(queue)
      BY <1>2, <2>1, CountedRequest
    <2>3. /\ queue' \in Seq(Requests) /\ lock' \in [Blocks -> BOOLEAN]
          /\ moff' \in [Drives -> {Long} \cup 0 .. RunOn]
      BY <1>2, <2>2, EndedTypes DEF Typed
    <2> QED BY <1>7, <2>1, <2>3
  <1>9. CASE ~(Counted[1].errors > MAX_ERRORS)
    <2>1. queue' = Counted /\ UNCHANGED <<lock, moff, selected, change>>
      BY <1>1, <1>9 DEF bad_flp_intr
    <2>2. Counted[1].errors <= MAX_ERRORS
      <3>1. queue \in Seq(Requests) /\ queue[1] \in Requests
        BY <1>2, FirstRequest DEF Typed
      <3>2. Counted[1].errors \in Int
        <4> DEFINE x == [queue[1] EXCEPT !.errors = @ + 1]
        <4>1. x.errors \in Int
          BY <3>1, Delays DEF Requests
        <4>2. Counted = [queue EXCEPT ![1] = x]
          BY DEF Counted
        <4> HIDE DEF x
        <4>3. Counted[1] = x
          BY <1>2, <3>1, <4>2, FirstReplaced
        <4> QED BY <4>1, <4>3
      <3> QED BY <1>9, <3>2, Delays
    <2>3. Counted \in Seq(Requests) /\ Counted # <<>> /\ Head(Counted).sector = CURRENT.sector
      BY <1>2, <2>2, CountedRequest
    <2>4. Valid'
      BY <1>2, <2>1, <2>3 DEF Valid, CURRENT
    <2>5. /\ lock' \in [Blocks -> BOOLEAN] /\ selected' \in BOOLEAN /\ moff' \in [Drives -> {Long} \cup 0 .. RunOn]
          /\ change' \in Changes
      BY <1>2, <2>1 DEF Typed, TypeOK
    <2> QED BY <1>7, <2>1, <2>3, <2>4, <2>5
  <1> QED BY <1>8, <1>9

\* The interrupts after which do_fd_request looks for what to do next.
LEMMA InterruptInv ==
    ASSUME IInv, RwDone \/ RecalInterrupt \/ ResetInterrupt
    PROVE  IInv'
  <1>1. /\ call = "none" /\ ~tick /\ ctl # Quiet
        /\ do_floppy' = NULL /\ ctl' = Quiet /\ call' = "do_fd_request" /\ seek' = FALSE
        /\ UNCHANGED <<seek_track, current_drive, current_track, motor, dor, mon, timers, tick, overtaken>>
    BY DEF RwDone, RecalInterrupt, ResetInterrupt, Handles, Again, mvars, IInv, Typed
  <1>2. Typed /\ timers = <<>> /\ faults \in 0 .. MaxFaults /\ MaxFaults \in Nat /\ (selected => Valid)
    BY <1>1, Delays DEF IInv, OneThing, Serving, Typed, TypeOK
  <1>3. Quiet \in Commands
    BY Delays DEF Quiet, Commands
  <1>4. CASE RwDone
    <2>0. floppy_deselect
      BY <1>4 DEF RwDone
    <2>1. /\ selected' = FALSE /\ Ended(queue) /\ do_floppy = "rw_interrupt"
          /\ UNCHANGED <<reset, recalibrate, faults>> /\ change' \in Changes
      BY <1>2, <1>4, <2>0, Deselected DEF RwDone, Handles
    <2>11. change'.pc \in Places
      BY <2>1 DEF Changes
    <2>2. queue # <<>>
      BY <1>1, <2>1 DEF IInv, Serving, Working, Transfers, Valid
    <2>3. /\ queue' \in Seq(Requests) /\ (\A i \in DOMAIN queue' : queue'[i].errors \in 0 .. MAX_ERRORS)
          /\ lock' \in [Blocks -> BOOLEAN] /\ moff' \in [Drives -> {Long} \cup 0 .. RunOn]
      BY <1>2, <2>1, <2>2, EndedTypes DEF Typed
    <2>4. Typed'
      BY <1>1, <1>2, <1>3, <2>1, <2>11, <2>3 DEF Typed, TypeOK, Places
    <2> QED BY <1>1, <1>2, <2>1, <2>4, AtRest
  <1>5. CASE RecalInterrupt \/ ResetInterrupt
    <2>1. /\ UNCHANGED <<queue, lock, selected, mvars, change>>
          /\ recalibrate' = FALSE \/ recalibrate' = recalibrate
          /\ reset' = TRUE \/ reset' = reset
          /\ faults' = faults \/ (faults < MaxFaults /\ faults' = faults + 1)
      BY <1>5 DEF RecalInterrupt, ResetInterrupt, Refused
    <2>2. faults' \in 0 .. MaxFaults
      BY <1>2, <2>1
    <2>3. reset' \in BOOLEAN /\ recalibrate' \in BOOLEAN
      BY <1>2, <2>1 DEF Typed, TypeOK
    <2>4. Typed'
      BY <1>1, <1>2, <1>3, <2>1, <2>2, <2>3 DEF Typed, TypeOK, mvars
    <2>5. selected' => Valid'
      BY <1>2, <2>1 DEF Valid, CURRENT
    <2> QED BY <1>1, <1>2, <2>4, <2>5, AtRest
  <1> QED BY <1>4, <1>5

\* The seek is done, within its Latency: the transfer still has its own.
LEMMA SeekDoneInv ==
    ASSUME IInv, SeekDone
    PROVE  IInv'
  <1> DEFINE d == current_drive
  <1>1. /\ call = "none" /\ ~tick /\ ctl # Quiet /\ do_floppy = "seek_interrupt"
        /\ do_floppy' = NULL /\ ctl' = Quiet /\ call' = "setup_rw_floppy"
        /\ current_track' = seek_track
        /\ UNCHANGED <<queue, lock, reset, recalibrate, seek, seek_track, current_drive, selected, mvars,
                       timers, tick, change, faults, overtaken>>
    BY DEF SeekDone, Handles, IInv, Typed
  <1>2. /\ Typed /\ timers = <<>> /\ Valid /\ d = CURRENT.dev /\ d \in motor
        /\ Holds(2 * Latency - ctl.age + Now)
    BY <1>1 DEF IInv, OneThing, Serving, Working, Transfers, InUse
  <1>3. current_track' \in Nat
    BY <1>1, <1>2 DEF Typed, TypeOK
  <1>4. Quiet \in Commands
    BY Delays DEF Quiet, Commands
  <1>5. Typed'
    BY <1>1, <1>2, <1>3, <1>4 DEF Typed, TypeOK, mvars
  <1>6. OneThing'
    BY <1>1, <1>2 DEF OneThing
  <1>7. Serving'
    BY <1>1, <1>2 DEF Serving, Valid, CURRENT, mvars
  <1>8. moff[d] \in Int /\ Now = 0 /\ Now' = 0 /\ ctl.age \in 0 .. Latency /\ d' = d
    BY <1>1, <1>2, Delays DEF Typed, TypeOK, Now, Long, Commands
  <1>9. selected /\ dor = d /\ mon[d] <= 2 /\ (moff[d] = Long \/ moff[d] >= 2 * Latency - ctl.age + Now)
    BY <1>2 DEF Holds
  <1>10. moff[d] = Long \/ moff[d] >= Latency + Now
    BY <1>8, <1>9, Delays
  <1>11. Holds(Latency + Now)'
    BY <1>1, <1>8, <1>9, <1>10 DEF Holds, mvars
  <1>12. SpinningUp' /\ InUse'
    BY <1>1, <1>2, <1>11 DEF SpinningUp, InUse, Timer
  <1> QED BY <1>5, <1>6, <1>7, <1>12 DEF IInv

-----------------------------------------------------------------------------
\* Every step by which no recovery is overtaken keeps the invariant.
LEMMA NextInv == IInv /\ [Next]_vars /\ Ahead' => IInv'
  <1> SUFFICES ASSUME IInv, [Next]_vars, Ahead' PROVE IInv'
    OBVIOUS
  <1>1. ASSUME NEW b \in Blocks, Submit(b) PROVE IInv'
    BY <1>1, SubmitInv
  <1>2. CASE Driver
    <2>1. CASE ResetFloppy \/ RecalibrateFloppy \/ NoWork \/ Reject
      BY <2>1, RequestInv
    <2>2. CASE StartMotor
      BY <2>2, StartMotorInv
    <2>3. CASE FloppyOn
      BY <2>3, FloppyOnInv
    <2>4. CASE Transfer
      BY <2>4, TransferInv
    <2>5. CASE SetupRwFloppy
      BY <2>5, SetupInv
    <2>6. ~NoCurrent
      BY DEF NoCurrent, IInv, Serving, Working, Transfers, Valid
    <2> QED BY <1>2, <2>1, <2>2, <2>3, <2>4, <2>5, <2>6 DEF Driver
  <1>3. CASE Interrupt
    <2>1. CASE SeekDone
      BY <2>1, SeekDoneInv
    <2>2. CASE SeekFailed \/ RwFailed
      BY <2>2, FailedInv
    <2>3. CASE RwDone \/ RecalInterrupt \/ ResetInterrupt
      BY <2>3, InterruptInv
    <2>4. ~UnexpectedInterrupt
      BY FloppyConstants DEF UnexpectedInterrupt, Handles, IInv, OneThing
    <2> QED BY <1>3, <2>1, <2>2, <2>3, <2>4 DEF Interrupt
  <1>4. CASE Clock
    <2>1. CASE Tick
      BY <2>1, TickInv
    <2>2. CASE Fire
      BY <2>2, FireInv
    <2>3. CASE TickEnd
      BY <2>3, TickEndInv
    <2> QED BY <1>4, <2>1, <2>2, <2>3 DEF Clock
  <1>5. CASE (\E nr \in Drives : ChangeStart(nr)) \/ ChangeOn \/ ChangeSelected \/ ChangeSleep
    BY <1>5, ChangeInv
  <1>6. CASE UNCHANGED vars \/ Stuck
    <2>1. UNCHANGED vars /\ change \in Changes
      BY <1>6 DEF Stuck, IInv, Typed
    <2> QED BY <2>1, OnlyChange DEF vars
  <1> QED BY <1>1, <1>2, <1>3, <1>4, <1>5, <1>6 DEF Next

\* The requests that overtake are counted: what has happened has for good.
LEMMA StaysOvertaken ==
    ASSUME overtaken \in Nat, [Next]_vars
    PROVE  overtaken' \in Nat /\ overtaken' >= overtaken
  <1>1. ASSUME NEW b \in Blocks, Submit(b) PROVE overtaken' \in Nat /\ overtaken' >= overtaken
    BY <1>1 DEF Submit
  <1>2. CASE ~(\E b \in Blocks : Submit(b))
    <2>1. CASE Driver
      BY <2>1 DEF Driver, ResetFloppy, RecalibrateFloppy, NoWork, Reject, StartMotor, FloppyOn, Transfer,
                  SetupRwFloppy, NoCurrent
    <2>2. CASE Interrupt
      BY <2>2 DEF Interrupt, SeekDone, SeekFailed, RwDone, RwFailed, RecalInterrupt, ResetInterrupt,
                  UnexpectedInterrupt
    <2>3. CASE Clock
      BY <2>3 DEF Clock, Tick, Fire, TickEnd
    <2>4. CASE (\E nr \in Drives : ChangeStart(nr)) \/ ChangeOn \/ ChangeSelected \/ ChangeSleep
      BY <2>4 DEF ChangeStart, ChangeOn, ChangeSelected, ChangeSleep, InChange, rest
    <2>5. CASE UNCHANGED vars \/ Stuck
      BY <2>5 DEF Stuck, vars
    <2> QED BY <1>2, <2>1, <2>2, <2>3, <2>4, <2>5 DEF Next
  <1> QED BY <1>1, <1>2

\* The invariant, up to the first request that overtakes a recovery.
UInv == overtaken \in Nat /\ (overtaken > 0 \/ IInv)

\* It holds in every state of the driver.
LEMMA InvHolds == Spec => []UInv
  <1>1. Init => UInv
    BY InitInv DEF UInv, IInv, Typed
  <1>2. UInv /\ [Next]_vars => UInv'
    <2> SUFFICES ASSUME UInv, [Next]_vars PROVE UInv'
      OBVIOUS
    <2>1. overtaken \in Nat /\ overtaken' \in Nat /\ overtaken' >= overtaken
      BY StaysOvertaken DEF UInv
    <2>2. CASE overtaken > 0
      BY <2>1, <2>2 DEF UInv
    <2>3. CASE IInv /\ Ahead'
      BY <2>1, <2>3, NextInv DEF UInv
    <2>4. CASE ~Ahead'
      BY <2>1, <2>4 DEF UInv, Ahead
    <2> QED BY <2>2, <2>3, <2>4 DEF UInv
  <1> QED BY <1>1, <1>2, PTL DEF Spec

\* Until a request overtakes a recovery: whenever the controller seeks or
\* transfers for a request, the motor of its
\* drive is on and up to speed and the drive is selected: neither the countdown
\* of do_floppy_timer nor floppy_change, on this drive or another, comes in
\* between, for any delays with RunOn > 2 * Latency + 2.
THEOREM ReadyWhenUsed == Spec => []DriveReady
  <1>1. UInv => DriveReady
    <2> SUFFICES ASSUME IInv,
                        ctl.cmd \in {"seek", "rw"} \/ (ctl.cmd = "recalibrate" /\ do_floppy = "seek_interrupt")
                 PROVE  /\ queue # <<>> /\ current_drive = CURRENT.dev
                        /\ current_drive \in motor /\ dor = current_drive /\ selected
                        /\ mon[current_drive] <= 2
      BY DEF DriveReady, UInv
    <2>1. ctl # Quiet
      BY DEF Quiet
    <2>2. do_floppy \in {"seek_interrupt", "rw_interrupt"}
      BY <2>1 DEF IInv, OneThing
    <2>3. Transfers
      BY <2>1, <2>2 DEF Transfers
    <2>4. queue # <<>> /\ current_drive = CURRENT.dev /\ current_drive \in motor
      BY <2>3 DEF IInv, Serving, Working, Valid
    <2>5. selected /\ dor = current_drive /\ mon[current_drive] <= 2
      BY <2>1, <2>2 DEF IInv, InUse, Holds
    <2> QED BY <2>4, <2>5
  <1> QED BY <1>1, InvHolds, PTL

\* The driver at rest holds no drive select, however its requests ended: served,
\* given up after MAX_ERRORS or rejected, until a request overtakes a recovery.
\* Up to there one timer at most runs and CURRENT is never used without a
\* request.
THEOREM SelectIsReleased == Spec => []SelectReleased
  <1>1. UInv => SelectReleased
    BY DEF UInv, IInv, Typed, Serving, Valid, SelectReleased
  <1> QED BY <1>1, InvHolds, PTL
=============================================================================

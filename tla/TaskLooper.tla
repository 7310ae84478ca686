----------------------------- MODULE TaskLooper -----------------------------
(***************************************************************************)
(* One TaskLooper of the C++ clients and the loop that asks it whether its *)
(* work is due.  The clock of the hardware is an unsigned counter that     *)
(* wraps around; next_ts is the time after which check() answers true.     *)
(*                                                                         *)
(* The last four variables are history: what the looper was last asked to  *)
(* do, when, and how long ago.  They take no part in any guard.            *)
(***************************************************************************)
EXTENDS Integers

CONSTANTS
  Width,      \* values of the clock: 2^32
  Interval,   \* periods that set and its variants are called with
  NormPeriod, \* the period of set_norm, which begin calls
  MaxPause,   \* bound: time one round of the loop takes at most
  MaxAge      \* bound: ages above it are not told apart

ASSUME LooperAssumption ==
  /\ Width \in Nat \ {0, 1}
  /\ Interval \subseteq 0..(Width - 1)
  /\ NormPeriod \in Interval
  /\ MaxPause \in 1..(Width - 1)
  /\ MaxAge \in Nat
  /\ MaxAge >= 2 * Width

VARIABLES
  clock,        \* time_milis()
  remHw,        \* whether the pointer to the hardware is set
  next_ts,
  tl_interval,
  turn,         \* what the loop does next: "check" or "sleep"
  mode,         \* "armed" or "stopped" by the last call
  at,           \* clock at the call that armed it
  wait,         \* the time it was asked to wait
  age           \* time since that call

looper_vars == <<clock, remHw, next_ts, tl_interval, turn, mode, at, wait, age>>

Clock == 0..(Width - 1)
Stopped == Width - 1
\* A sum as an unsigned number.
Wrap(t) == IF t >= Width THEN t - Width ELSE t
Older(d) == IF age + d > MaxAge THEN MaxAge ELSE age + d

LooperInit ==
  /\ clock \in Clock
  /\ remHw = FALSE
  /\ next_ts = Stopped
  /\ tl_interval \in Interval
  /\ turn = "check"
  /\ mode = "stopped"
  /\ at = 0 /\ wait = 0 /\ age = 0

\* next_ts = time + delay, as an unsigned sum.
Arm(time, delay) ==
  /\ next_ts' = Wrap(time + delay)
  /\ mode' = "armed"
  /\ at' = time
  /\ wait' = delay
  /\ age' = 0

Disarm ==
  /\ next_ts' = Stopped
  /\ mode' = "stopped"
  /\ UNCHANGED <<at, wait, age>>

---------------------------------------------------------------------------
(* The calls of the owner.                                                 *)

\* Variant: the period is taken twice.
StartTwice(period) ==
  IF remHw THEN /\ next_ts' = Wrap(Wrap(clock + period) + period)
                /\ mode' = "armed" /\ at' = clock /\ wait' = period /\ age' = 0
           ELSE Disarm

start(period) == IF remHw THEN Arm(clock, period) ELSE Disarm

set(milis) ==
  /\ tl_interval' = milis
  /\ start(milis)
  /\ UNCHANGED <<clock, remHw, turn>>

begin ==
  /\ remHw' = TRUE
  /\ tl_interval' = NormPeriod
  /\ Arm(clock, NormPeriod)
  /\ UNCHANGED <<clock, turn>>

now ==
  /\ IF remHw THEN Arm(clock, 0) ELSE Disarm
  /\ UNCHANGED <<clock, remHw, tl_interval, turn>>

stop ==
  /\ Disarm
  /\ UNCHANGED <<clock, remHw, tl_interval, turn>>

---------------------------------------------------------------------------
(* The loop: check, then sleep.                                            *)

\* Variant: due at that millisecond only.
DueExactly == next_ts > 0 /\ remHw /\ clock = next_ts + 1

due == next_ts > 0 /\ remHw /\ clock > next_ts

\* check() answers true: time_milis() is read a second time for next_ts, the
\* clock may have moved by d.
Fire(d) ==
  /\ turn = "check"
  /\ due
  /\ clock' = Wrap(clock + d)
  /\ Arm(clock', tl_interval)
  /\ turn' = "sleep"
  /\ UNCHANGED <<remHw, tl_interval>>

\* check() answers false.
Quiet ==
  /\ turn = "check"
  /\ ~due
  /\ turn' = "sleep"
  /\ UNCHANGED <<clock, remHw, next_ts, tl_interval, mode, at, wait, age>>

\* The rest of the round takes the time d, at least a millisecond.
Sleep(d) ==
  /\ turn = "sleep"
  /\ clock' = Wrap(clock + d)
  /\ age' = Older(d)
  /\ turn' = "check"
  /\ UNCHANGED <<remHw, next_ts, tl_interval, mode, at, wait>>

Fires == \E d \in 0..MaxPause : Fire(d)

Loop == Fires \/ Quiet \/ \E d \in 1..MaxPause : Sleep(d)

LooperNext ==
  \/ Loop
  \/ begin
  \/ now
  \/ stop
  \/ \E milis \in Interval : set(milis)

\* The main loop of the program goes round for ever.
LooperSpec == LooperInit /\ [][LooperNext]_looper_vars /\ WF_looper_vars(Loop)

---------------------------------------------------------------------------
(* Properties.                                                             *)

LooperTypeOK ==
  /\ clock \in Clock
  /\ remHw \in BOOLEAN
  /\ next_ts \in Clock
  /\ tl_interval \in Interval
  /\ turn \in {"check", "sleep"}
  /\ mode \in {"armed", "stopped"}
  /\ at \in Clock
  /\ wait \in Clock
  /\ age \in 0..MaxAge

\* The sum at + wait wrapped around, so that the deadline looks long past.
DeadlineWrapped == at + wait >= Width

\* The clock wrapped around since the looper was armed.
ClockWrapped == at + age >= Width

\* A stopped looper never fires, although stopped is a time like any other
\* (next_ts = -1 in stop, an unsigned comparison in check).
StoppedNeverFires == [][Fires => mode = "armed"]_looper_vars

\* check() is not true before the period it was armed with has passed, but
\* for the period in which next_ts wraps around: then it may be true at once.
NotEarly == [][Fires => age > wait \/ DeadlineWrapped]_looper_vars

\* A check that comes after the period answers true: only when the clock wraps
\* around between the deadline and the check is the work left for the next
\* round of the clock, and a deadline of 0 is no deadline.
NotMissed ==
  [][(Quiet /\ mode = "armed") => age <= wait \/ ClockWrapped \/ next_ts = 0]_looper_vars

\* An armed looper fires or is called again, as long as its deadline is at
\* least one round of the loop away from the two ends of the clock: next_ts = 0
\* and next_ts = -1 are never due, and what is due only in the last
\* milliseconds before the wrap can be slept over every time.
FiresAgain ==
  (mode = "armed" /\ next_ts \in 1..(Width - 1 - MaxPause))
     ~> (age = 0 \/ mode = "stopped")
=============================================================================

---------------------------- MODULE TimerClock ----------------------------
(***************************************************************************)
(* The time base: TIM2 counts microseconds from 0 to its reload value and  *)
(* raises an interrupt when it wraps, the handler counts milliseconds, and *)
(* timer_get_time puts the two together while both move.                   *)
(*                                                                         *)
(* The counter ticks between any two steps.  With interrupts enabled the   *)
(* main program takes no step while the update flag is up: the handler has *)
(* the highest priority and runs first.  It may still be late, when another *)
(* handler is running: the main program then does not run either.          *)
(***************************************************************************)
EXTENDS Integers

CONSTANTS
    Reload,   \* TIM2->ARR: the last value before the counter wraps
    Window,   \* below it _get_timer_time looks at the flag
    Latency,  \* ticks that timer_get_time takes with interrupts disabled
    Pause,    \* u32 tm of time_delay_us, in ticks
    MaxNow,   \* bound: how far the clock runs
    Range64   \* 2^64: timer_time_t is unsigned

ASSUME ClockAssumption ==
    /\ {Reload, Window, Latency, Pause, MaxNow, Range64} \subseteq Nat
    /\ Latency < Window
    /\ Window + Latency <= Reload
    /\ MaxNow + Reload < Range64

VARIABLES
    cnt,       \* TIM2->CNT
    uif,       \* TIM2->SR & TIM_SR_UIF
    timer_ms,
    primask,   \* interrupts are disabled
    held,      \* ticks since timer_get_time has disabled them
    pc,        \* where timer_get_time or timer_get_time_irq is
    t,         \* its local variable
    answer,    \* what it has returned last
    called,    \* the time of its call (history)
    delay,     \* where time_delay_us is
    time,      \* its local variable
    begun      \* the time of its call (history)

vars == <<cnt, uif, timer_ms, primask, held, pc, t, answer, called, delay, time, begun>>

-----------------------------------------------------------------------------
(* The updates that have not been counted: the flag is up, or the handler that
   timer_get_time_irq calls is between its two statements.                 *)
Pending == (IF uif THEN 1 ELSE 0) + (IF pc = "counting" THEN 1 ELSE 0)

(* The time as the program counts it: a reload value per update, although the
   counter takes one tick more.                                            *)
Now == (timer_ms + Pending) * Reload + cnt

(* timer_init ends with an update event: the first interrupt follows at once. *)
Init ==
    /\ cnt = 0
    /\ uif = TRUE
    /\ timer_ms = 0
    /\ primask = FALSE
    /\ held = 0
    /\ pc = "idle"
    /\ t = 0
    /\ answer = 0
    /\ called = Reload
    /\ delay = "no"
    /\ time = 0
    /\ begun = 0

(* The reading proper: interrupts stay disabled, and for Latency ticks at most. *)
Reading == pc \in {"counting", "cnt", "sr", "sum"}

Tick ==
    /\ Now < MaxNow
    /\ Reading => held < Latency
    /\ held' = IF Reading THEN held + 1 ELSE held
    /\ \/ /\ cnt < Reload
          /\ cnt' = cnt + 1
          /\ UNCHANGED uif
       \/ /\ cnt = Reload
          /\ ~uif                   \* no handler takes a millisecond
          /\ cnt' = 0
          /\ uif' = TRUE
    /\ UNCHANGED <<timer_ms, primask, pc, t, answer, called, delay, time, begun>>

TIM2_IRQHandler ==
    /\ uif /\ ~primask
    /\ uif' = FALSE
    /\ timer_ms' = timer_ms + 1
    /\ UNCHANGED <<cnt, primask, held, pc, t, answer, called, delay, time, begun>>

-----------------------------------------------------------------------------
\* mutant: interrupts stay enabled
CallOpen ==
    /\ pc = "idle" /\ ~uif
    /\ pc' = "cnt"
    /\ held' = 0
    /\ called' = Now
    /\ UNCHANGED <<cnt, uif, timer_ms, primask, t, answer, delay, time, begun>>

(* timer_get_time: __disable_irq *)
Call ==
    /\ pc = "idle" /\ ~uif
    /\ primask' = TRUE
    /\ pc' = "cnt"
    /\ held' = 0
    /\ called' = Now
    /\ UNCHANGED <<cnt, uif, timer_ms, t, answer, delay, time, begun>>

(* timer_get_time_irq, in another handler, while the program does not wait *)
CallIrq ==
    /\ pc = "idle" /\ delay = "no"
    /\ primask' = TRUE
    /\ pc' = "handler"
    /\ called' = Now
    /\ UNCHANGED <<cnt, uif, timer_ms, held, t, answer, delay, time, begun>>

(* It calls TIM2_IRQHandler: the test and the flag ... *)
Flag ==
    /\ pc = "handler"
    /\ pc' = IF uif THEN "counting" ELSE "cnt"
    /\ uif' = FALSE
    /\ held' = 0
    /\ UNCHANGED <<cnt, timer_ms, primask, t, answer, called, delay, time, begun>>

(* ... and the count *)
Count ==
    /\ pc = "counting"
    /\ timer_ms' = timer_ms + 1
    /\ pc' = "cnt"
    /\ UNCHANGED <<cnt, uif, primask, held, t, answer, called, delay, time, begun>>

(* _get_timer_time reads the counter, *)
ReadCnt ==
    /\ pc = "cnt"
    /\ t' = cnt
    /\ pc' = "sr"
    /\ UNCHANGED <<cnt, uif, timer_ms, primask, held, answer, called, delay, time, begun>>

\* mutant: the flag is not looked at
ReadSrNever ==
    /\ pc = "sr"
    /\ pc' = "sum"
    /\ UNCHANGED <<cnt, uif, timer_ms, primask, held, t, answer, called, delay, time, begun>>

\* mutant: the flag counts whatever the counter was
ReadSrAlways ==
    /\ pc = "sr"
    /\ t' = IF uif THEN t + Reload ELSE t
    /\ pc' = "sum"
    /\ UNCHANGED <<cnt, uif, timer_ms, primask, held, answer, called, delay, time, begun>>

(* the flag if the counter has just wrapped, *)
ReadSr ==
    /\ pc = "sr"
    /\ t' = IF t < Window /\ uif THEN t + Reload ELSE t
    /\ pc' = "sum"
    /\ UNCHANGED <<cnt, uif, timer_ms, primask, held, answer, called, delay, time, begun>>

(* and the milliseconds; __enable_irq, or the handler that called it returns *)
Return ==
    /\ pc = "sum"
    /\ answer' = timer_ms * Reload + t
    /\ primask' = FALSE
    /\ pc' = "returned"
    /\ UNCHANGED <<cnt, uif, timer_ms, held, t, called, delay, time, begun>>

-----------------------------------------------------------------------------
(* time_delay_us: its first call, and the call of every turn of its loop *)
Delay ==
    /\ pc = "idle" /\ delay = "no" /\ ~uif
    /\ delay' = "first"
    /\ begun' = Now
    /\ UNCHANGED <<cnt, uif, timer_ms, primask, held, pc, t, answer, called, time>>

(* The caller takes the answer: a delay its beginning or a turn of its loop. *)
Taken ==
    /\ pc = "returned" /\ (uif => delay = "no")
    /\ pc' = "idle"
    /\ delay' = CASE delay = "first" -> "loop"
                  [] delay = "loop" /\ (answer - time) % Range64 >= Pause -> "no"
                  [] OTHER -> delay
    /\ time' = IF delay = "first" THEN answer ELSE time
    /\ UNCHANGED <<cnt, uif, timer_ms, primask, held, t, answer, called, begun>>

Next ==
    \/ Tick \/ TIM2_IRQHandler
    \/ Call \/ CallIrq \/ Flag \/ Count
    \/ ReadCnt \/ ReadSr \/ Return
    \/ Delay \/ Taken

Spec == Init /\ [][Next]_vars

-----------------------------------------------------------------------------
Places == {"idle", "handler", "counting", "cnt", "sr", "sum", "returned"}

(* The corrected count stays below one and a part of a period. *)
TypeOK ==
    /\ cnt \in 0 .. Reload
    /\ uif \in BOOLEAN
    /\ timer_ms \in Nat
    /\ primask \in BOOLEAN
    /\ held \in 0 .. Latency
    /\ pc \in Places
    /\ t \in 0 .. Reload + Window
    /\ answer \in Nat /\ called \in Nat
    /\ delay \in {"no", "first", "loop"}
    /\ time \in Nat /\ begun \in Nat

Busy == pc \notin {"idle", "returned"}

(* timer_get_time is a clock: whatever happens between its reads of the counter,
   the flag and the milliseconds, the answer is a time between its call and its
   return (time.c:46-75).                                                  *)
Clock == INSTANCE MonotonicClock
            WITH now <- Now, busy <- Busy, called <- called, answer <- answer

ReadsTheClock == Clock!Spec

(* Answers never go back (time.c:59-68). *)
NeverBack == [][answer' >= answer]_answer

(* A delay lasts as long as was asked: no two readings make it end early, as an
   answer before the first one would, for the difference is unsigned (time.c:86). *)
DelayLongEnough ==
    [][delay = "loop" /\ delay' = "no" => Now - begun >= Pause]_vars
=============================================================================

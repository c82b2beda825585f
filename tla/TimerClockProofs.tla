------------------------- MODULE TimerClockProofs -------------------------
(***************************************************************************)
(* timer_get_time is a clock, for every reload value, window and latency   *)
(* that satisfy ClockAssumption.  The invariant says, for each place of    *)
(* the reading, what the program has in its hand is a time since its call. *)
(***************************************************************************)
EXTENDS TimerClock, TLAPS

(* What _get_timer_time would return if it read the flag now. *)
Corrected ==
    timer_ms * Reload + t + (IF t < Window /\ uif THEN Reload ELSE 0)

ReadingInv ==
    /\ Busy => primask
    /\ Reading /\ uif => cnt <= held
    /\ Busy => called <= Now
    /\ pc = "sr" => /\ called <= Corrected /\ Corrected <= Now
                    /\ t < Window /\ ~uif => cnt <= t + held
                    /\ t <= Reload
    /\ pc = "sum" => called <= timer_ms * Reload + t /\ timer_ms * Reload + t <= Now

TimeInv == TypeOK /\ ReadingInv

-----------------------------------------------------------------------------
(* The constants, one by one. *)
LEMMA ConstantFacts ==
    /\ Reload \in Nat /\ Window \in Nat /\ Latency \in Nat
    /\ Latency < Window /\ Window + Latency <= Reload
  BY ClockAssumption

(* A millisecond more is a period more. *)
LEMMA Period ==
    ASSUME NEW n \in Nat
    PROVE  /\ n * Reload \in Nat
           /\ (n + 1) * Reload = n * Reload + Reload
           /\ (n + 2) * Reload = n * Reload + Reload + Reload
  BY ConstantFacts

(* The time by cases, with one product in it. *)
NowFacts ==
    /\ Now \in Nat
    /\ ~uif /\ pc # "counting" => Now = timer_ms * Reload + cnt
    /\ uif /\ pc # "counting" => Now = timer_ms * Reload + Reload + cnt
    /\ ~uif /\ pc = "counting" => Now = timer_ms * Reload + Reload + cnt
    /\ uif /\ pc = "counting" => Now = timer_ms * Reload + Reload + Reload + cnt

(* The time by the counter, the pending interrupt and the count of periods. *)
LEMMA NowCases == TypeOK => NowFacts
<1> SUFFICES ASSUME TypeOK PROVE NowFacts
  OBVIOUS
<1>1. timer_ms \in Nat /\ cnt \in Nat
  BY ConstantFacts DEF TypeOK
<1>2. CASE ~uif /\ pc # "counting"
  BY <1>1, <1>2, Period, ConstantFacts DEF Now, Pending, NowFacts
<1>3. CASE uif /\ pc # "counting"
  BY <1>1, <1>3, Period, ConstantFacts DEF Now, Pending, NowFacts
<1>4. CASE ~uif /\ pc = "counting"
  BY <1>1, <1>4, Period, ConstantFacts DEF Now, Pending, NowFacts
<1>5. CASE uif /\ pc = "counting"
  BY <1>1, <1>5, Period, ConstantFacts DEF Now, Pending, NowFacts
<1> QED
  BY <1>2, <1>3, <1>4, <1>5

(* And after a step. *)
LEMMA NowCasesNext == TypeOK' => NowFacts'
  BY NowCases, PTL

(* The initial state satisfies the invariant. *)
LEMMA InitTimeInv == Init => TimeInv
<1> SUFFICES ASSUME Init PROVE TimeInv
  OBVIOUS
<1>1. uif \in BOOLEAN /\ primask \in BOOLEAN
  BY Zenon DEF Init
<1>2. /\ cnt = 0 /\ timer_ms = 0 /\ held = 0 /\ t = 0 /\ answer = 0
      /\ called = Reload /\ time = 0 /\ begun = 0
      /\ pc = "idle" /\ delay = "no"
  BY DEF Init
<1>3. TypeOK
  BY <1>1, <1>2, ConstantFacts DEF TypeOK, Places
<1> QED
  BY <1>2, <1>3 DEF TimeInv, ReadingInv, Busy, Reading

(* Every step keeps the types. *)
LEMMA NextTypeOK == TimeInv /\ [Next]_vars => TypeOK'
<1> SUFFICES ASSUME TimeInv, [Next]_vars PROVE TypeOK'
  OBVIOUS
<1> USE ConstantFacts
<1>0. TypeOK /\ ReadingInv
  BY DEF TimeInv
<1>1. CASE Tick
  <2>1. uif' \in BOOLEAN
    BY <1>0, <1>1, Zenon DEF TypeOK, Tick
  <2>2. held' \in 0 .. Latency
    BY <1>0, <1>1 DEF TypeOK, Tick
  <2>3. cnt' \in 0 .. Reload
    BY <1>0, <1>1 DEF TypeOK, Tick
  <2> QED
    BY <1>0, <1>1, <2>1, <2>2, <2>3 DEF TypeOK, Tick
<1>2. CASE TIM2_IRQHandler
  <2>1. uif' \in BOOLEAN
    BY <1>2, Zenon DEF TIM2_IRQHandler
  <2> QED
    BY <1>0, <1>2, <2>1 DEF TypeOK, TIM2_IRQHandler
<1>3. CASE Call \/ CallIrq
  <2>1. primask' \in BOOLEAN
    BY <1>3, Zenon DEF Call, CallIrq
  <2>2. /\ pc' \in {"cnt", "handler"} /\ held' \in {0, held} /\ called' = Now
        /\ UNCHANGED <<cnt, uif, timer_ms, t, answer, delay, time, begun>>
    BY <1>3 DEF Call, CallIrq
  <2> QED
    BY <1>0, <2>1, <2>2, NowCases DEF NowFacts, TypeOK, Places
<1>5. CASE Flag
  <2>1. uif' \in BOOLEAN
    BY <1>5, Zenon DEF Flag
  <2>2. pc' \in Places
    BY <1>5 DEF Flag, Places
  <2>3. /\ held' = 0
        /\ UNCHANGED <<cnt, timer_ms, primask, t, answer, called, delay, time, begun>>
    BY <1>5, Zenon DEF Flag
  <2> QED
    BY <1>0, <2>1, <2>2, <2>3 DEF TypeOK
<1>6. CASE Count
  BY <1>0, <1>6 DEF TypeOK, Count, Places
<1>7. CASE ReadCnt
  BY <1>0, <1>7 DEF TypeOK, ReadCnt, Places
<1>8. CASE ReadSr
  BY <1>0, <1>8 DEF TypeOK, ReadSr, Places
<1>9. CASE Return
  <2>1. timer_ms * Reload + t \in Nat
    BY <1>0, Period DEF TypeOK
  <2> QED
    BY <1>0, <1>9, <2>1 DEF TypeOK, Return, Places
<1>10. CASE Delay
  BY <1>0, <1>10, NowCases DEF NowFacts, TypeOK, Delay, Places
<1>11. CASE Taken
  <2>1. delay' \in {"no", "first", "loop"} /\ time' \in Nat /\ pc' = "idle"
    BY <1>0, <1>11 DEF TypeOK, Taken
  <2> QED
    BY <1>0, <1>11, <2>1 DEF TypeOK, Taken, Places
<1>12. CASE UNCHANGED vars
  BY <1>0, <1>12 DEF TypeOK, vars
<1> QED
  BY <1>1, <1>2, <1>3, <1>5, <1>6, <1>7, <1>8, <1>9, <1>10, <1>11, <1>12 DEF Next

-----------------------------------------------------------------------------
(* Every step keeps what the reading has in its hand a time since the call. *)
LEMMA NextReadingInv == TimeInv /\ [Next]_vars => ReadingInv'
<1> SUFFICES ASSUME TimeInv, [Next]_vars PROVE ReadingInv'
  OBVIOUS
<1> USE ConstantFacts
<1>0. TypeOK /\ ReadingInv
  BY DEF TimeInv
<1>t. TypeOK'
  BY NextTypeOK
<1>p. timer_ms * Reload \in Nat
  BY <1>0, Period DEF TypeOK
<1>1. CASE Tick
  <2>1. Now' >= Now
    <3>1. /\ timer_ms' = timer_ms /\ pc' = pc
          /\ \/ cnt' = cnt + 1 /\ uif' = uif
             \/ cnt = Reload /\ cnt' = 0 /\ ~uif /\ uif'
      BY <1>1 DEF Tick
    <3>2. timer_ms' * Reload = timer_ms * Reload
      BY <3>1
    <3> QED
      BY <1>0, <1>t, <1>p, <3>1, <3>2, NowCases, NowCasesNext DEF NowFacts, TypeOK
  <2>2. Now \in Nat /\ Now' \in Nat
    BY <1>0, <1>t, NowCases, NowCasesNext DEF NowFacts
  <2>3. Busy' => primask'
    BY <1>0, <1>1 DEF Tick, ReadingInv, Busy
  <2>4. Reading' /\ uif' => cnt' <= held'
    <3>1. CASE cnt' = cnt + 1 /\ uif' = uif
      BY <1>0, <1>1, <3>1 DEF Tick, ReadingInv, Reading, TypeOK
    <3>2. CASE cnt' = 0
      BY <1>t, <3>2 DEF TypeOK
    <3> QED
      BY <1>1, <3>1, <3>2 DEF Tick
  <2>5. Busy' => called' <= Now'
    BY <1>0, <1>1, <2>1, <2>2 DEF Tick, ReadingInv, Busy, TypeOK
  <2>6. ASSUME pc' = "sr"
        PROVE  /\ Corrected' = Corrected
               /\ t' < Window /\ ~uif' => cnt' <= t' + held'
               /\ t' <= Reload
    <3>1. /\ pc = "sr" /\ t' = t /\ timer_ms' = timer_ms
          /\ held < Latency /\ held' = held + 1
          /\ \/ cnt' = cnt + 1 /\ uif' = uif
             \/ cnt = Reload /\ cnt' = 0 /\ ~uif /\ uif'
      BY <1>1, <2>6 DEF Tick, Reading
    <3>2. t < Window /\ ~uif => cnt <= t + held
      BY <1>0, <3>1 DEF ReadingInv
    <3>3. ~(t < Window /\ ~uif /\ cnt = Reload)
      BY <1>0, <3>1, <3>2 DEF TypeOK
    <3>4. t < Window => (uif' <=> uif)
      BY <3>1, <3>3
    <3>5. Corrected' = Corrected
      BY <3>1, <3>4 DEF Corrected
    <3> QED
      BY <1>0, <3>1, <3>2, <3>3, <3>5 DEF TypeOK, ReadingInv
  <2>7. pc' = "sr" => called' <= Corrected' /\ Corrected' <= Now'
    <3>1. Corrected \in Nat
      BY <1>0, <1>p DEF Corrected, TypeOK
    <3> QED
      BY <1>0, <1>1, <2>1, <2>2, <2>6, <3>1 DEF Tick, ReadingInv, TypeOK
  <2>8. pc' = "sum" => called' <= timer_ms' * Reload + t' /\ timer_ms' * Reload + t' <= Now'
    BY <1>0, <1>1, <1>p, <2>1, <2>2 DEF Tick, ReadingInv, TypeOK
  <2> QED
    BY <2>3, <2>4, <2>5, <2>6, <2>7, <2>8 DEF ReadingInv
<1>2. CASE TIM2_IRQHandler
  <2>1. pc' = pc /\ ~Busy
    BY <1>0, <1>2 DEF TIM2_IRQHandler, ReadingInv
  <2> QED
    BY <2>1 DEF ReadingInv, Busy, Reading
<1>3. CASE Call
  <2>1. pc' = "cnt" /\ primask' /\ ~uif' /\ called' = Now /\ Now' = Now
    BY <1>3 DEF Call, Now, Pending
  <2> QED
    BY <1>0, <2>1, NowCases DEF NowFacts, ReadingInv, Busy, Reading
<1>4. CASE CallIrq
  <2>1. pc' = "handler" /\ primask' /\ called' = Now /\ Now' = Now
    BY <1>4 DEF CallIrq, Now, Pending
  <2> QED
    BY <1>0, <2>1, NowCases DEF NowFacts, ReadingInv, Busy, Reading
<1>5. CASE Flag
  <2>1. /\ pc = "handler" /\ pc' = IF uif THEN "counting" ELSE "cnt"
        /\ primask' = primask /\ called' = called
        /\ timer_ms' = timer_ms /\ cnt' = cnt
    BY <1>5, Zenon DEF Flag
  <2>2. ~uif'
    BY <1>5, Zenon DEF Flag
  <2>3. Now' = Now
    BY <1>0, <1>t, <1>p, <2>1, <2>2, NowCases, NowCasesNext DEF NowFacts, TypeOK
  <2> QED
    BY <1>0, <2>1, <2>2, <2>3 DEF ReadingInv, Busy, Reading
<1>6. CASE Count
  <2>1. /\ pc = "counting" /\ pc' = "cnt" /\ timer_ms' = timer_ms + 1
        /\ cnt' = cnt /\ uif' = uif /\ held' = held
        /\ primask' = primask /\ called' = called
    BY <1>6 DEF Count
  <2>2. timer_ms' * Reload = timer_ms * Reload + Reload
    BY <1>0, <2>1, Period DEF TypeOK
  <2>3. Now' = Now
    BY <1>0, <1>t, <1>p, <2>1, <2>2, NowCases, NowCasesNext DEF NowFacts, TypeOK
  <2> QED
    BY <1>0, <2>1, <2>3 DEF ReadingInv, Busy, Reading
<1>7. CASE ReadCnt
  <2>1. /\ pc = "cnt" /\ pc' = "sr" /\ t' = cnt
        /\ cnt' = cnt /\ uif' = uif /\ held' = held /\ timer_ms' = timer_ms
        /\ primask' = primask /\ called' = called
    BY <1>7 DEF ReadCnt
  <2>2. Now' = Now
    BY <2>1 DEF Now, Pending
  <2>3. uif => cnt <= held /\ cnt < Window
    BY <1>0, <2>1 DEF ReadingInv, Reading, TypeOK
  <2>4. Corrected' = Now
    BY <1>0, <1>p, <2>1, <2>3, NowCases DEF NowFacts, Corrected, TypeOK
  <2>5. Now \in Nat /\ called <= Now
    BY <1>0, <2>1, NowCases DEF NowFacts, ReadingInv, Busy
  <2> QED
    BY <1>0, <2>1, <2>2, <2>3, <2>4, <2>5 DEF ReadingInv, Busy, Reading, TypeOK
<1>8. CASE ReadSr
  <2>1. /\ pc = "sr" /\ pc' = "sum"
        /\ t' = IF t < Window /\ uif THEN t + Reload ELSE t
        /\ cnt' = cnt /\ uif' = uif /\ held' = held /\ timer_ms' = timer_ms
        /\ primask' = primask /\ called' = called
    BY <1>8 DEF ReadSr
  <2>2. Now' = Now
    BY <2>1 DEF Now, Pending
  <2>3. timer_ms' * Reload + t' = Corrected
    BY <1>0, <1>p, <2>1 DEF Corrected, TypeOK
  <2> QED
    BY <1>0, <2>1, <2>2, <2>3 DEF ReadingInv, Busy, Reading
<1>9. CASE Return
  BY <1>9 DEF Return, ReadingInv, Busy, Reading
<1>10. CASE Delay
  BY <1>10 DEF Delay, ReadingInv, Busy, Reading
<1>11. CASE Taken
  BY <1>11 DEF Taken, ReadingInv, Busy, Reading
<1>12. CASE UNCHANGED vars
  BY <1>0, <1>12 DEF vars, ReadingInv, Busy, Reading, Corrected, Now, Pending
<1> QED
  BY <1>1, <1>2, <1>3, <1>4, <1>5, <1>6, <1>7, <1>8, <1>9, <1>10, <1>11, <1>12 DEF Next

(* The invariant holds throughout. *)
LEMMA Invariance == Spec => []TimeInv
<1>1. TimeInv /\ [Next]_vars => TimeInv'
  BY NextTypeOK, NextReadingInv DEF TimeInv
<1> QED
  BY InitTimeInv, <1>1, PTL DEF Spec

(* The variables keep their types: in particular what timer_get_time adds up does
   not exceed a period and the window (time.c:46-57).                      *)
THEOREM TypeCorrect == Spec => []TypeOK
<1>1. TimeInv => TypeOK
  BY DEF TimeInv
<1> QED
  BY Invariance, <1>1, PTL

-----------------------------------------------------------------------------
(* The clock begins at the time of its first update, and no call is under way. *)
LEMMA InitMaps == Init => Clock!Init
<1> SUFFICES ASSUME Init PROVE Clock!Init
  OBVIOUS
<1>1. TypeOK
  BY InitTimeInv DEF TimeInv
<1>2. /\ cnt = 0 /\ timer_ms = 0 /\ pc = "idle" /\ answer = 0 /\ called = Reload
  BY DEF Init
<1>3. uif
  BY Zenon DEF Init
<1>4. Now = Reload /\ Now \in Nat
  BY <1>1, <1>2, <1>3, NowCases, ConstantFacts DEF NowFacts
<1>5. Busy = FALSE
  BY <1>2, Zenon DEF Busy
<1> QED
  BY <1>2, <1>4, <1>5 DEF Clock!Init

(* A tick of the counter is a tick of the clock or, when the counter wraps, none. *)
LEMMA TickMaps == TimeInv /\ TimeInv' /\ Tick => [Clock!Next]_Clock!vars
<1> SUFFICES ASSUME TimeInv, TimeInv', Tick PROVE [Clock!Next]_Clock!vars
  OBVIOUS
<1>1. /\ timer_ms' = timer_ms /\ pc' = pc
      /\ called' = called /\ answer' = answer
      /\ \/ cnt' = cnt + 1 /\ uif' = uif
         \/ cnt = Reload /\ cnt' = 0 /\ ~uif /\ uif'
  BY DEF Tick
<1>2. timer_ms' * Reload = timer_ms * Reload /\ timer_ms * Reload \in Nat
  BY <1>1, Period DEF TimeInv, TypeOK
<1>3. Now' = Now + 1 \/ Now' = Now
  BY <1>1, <1>2, ConstantFacts, NowCases, NowCasesNext DEF NowFacts, TimeInv, TypeOK
<1>4. Busy' = Busy
  BY <1>1, Zenon DEF Busy
<1> QED
  BY <1>1, <1>3, <1>4, Zenon DEF Clock!Next, Clock!Tick, Clock!vars

(* A step that leaves the time and the call as they are is none of the clock's. *)
LEMMA Stutters ==
    ASSUME Now' = Now, called' = called, answer' = answer, Busy' = Busy
    PROVE  [Clock!Next]_Clock!vars
  BY Zenon DEF Clock!vars

(* Every step is a step of the clock or none. *)
LEMMA NextMaps == TimeInv /\ TimeInv' /\ [Next]_vars => [Clock!Next]_Clock!vars
<1> SUFFICES ASSUME TimeInv, TimeInv', [Next]_vars PROVE [Clock!Next]_Clock!vars
  OBVIOUS
<1>0. TypeOK /\ ReadingInv /\ TypeOK'
  BY DEF TimeInv
<1>p. timer_ms * Reload \in Nat
  BY <1>0, Period DEF TypeOK
<1>1. CASE Tick
  BY <1>1, TickMaps
<1>2. CASE TIM2_IRQHandler
  <2>1. /\ pc' = pc /\ called' = called /\ answer' = answer /\ cnt' = cnt
        /\ timer_ms' = timer_ms + 1 /\ uif /\ ~primask
    BY <1>2 DEF TIM2_IRQHandler
  <2>2. ~uif'
    BY <1>2, Zenon DEF TIM2_IRQHandler
  <2>3. timer_ms' * Reload = timer_ms * Reload + Reload
    BY <1>0, <2>1, Period DEF TypeOK
  <2>4. pc # "counting"
    BY <1>0, <2>1 DEF ReadingInv, Busy
  <2>5. Now' = Now
    BY <1>0, <1>p, <2>1, <2>2, <2>3, <2>4, ConstantFacts, NowCases, NowCasesNext
    DEF NowFacts, TypeOK
  <2>6. Busy' = Busy
    BY <2>1, Zenon DEF Busy
  <2> QED
    BY <2>1, <2>5, <2>6, Stutters
<1>3. ASSUME Call \/ CallIrq PROVE Clock!Call
  <2>1. /\ pc = "idle" /\ pc' \in {"cnt", "handler"} /\ called' = Now
        /\ answer' = answer /\ timer_ms' = timer_ms /\ cnt' = cnt /\ uif' = uif
    BY <1>3 DEF Call, CallIrq
  <2>2. Now' = Now
    BY <2>1 DEF Now, Pending
  <2>3. ~Busy /\ Busy' = TRUE
    BY <2>1, Zenon DEF Busy
  <2> QED
    BY <2>1, <2>2, <2>3, Zenon DEF Clock!Call
<1>4. CASE Flag
  <2>1. /\ pc = "handler" /\ pc' = IF uif THEN "counting" ELSE "cnt"
        /\ called' = called /\ answer' = answer
        /\ timer_ms' = timer_ms /\ cnt' = cnt
    BY <1>4, Zenon DEF Flag
  <2>2. ~uif'
    BY <1>4, Zenon DEF Flag
  <2>3. Now' = Now
    BY <1>0, <1>p, <2>1, <2>2, ConstantFacts, NowCases, NowCasesNext DEF NowFacts, TypeOK
  <2>4. Busy' = Busy
    BY <2>1 DEF Busy
  <2> QED
    BY <2>1, <2>3, <2>4, Stutters
<1>5. CASE Count
  <2>1. /\ pc = "counting" /\ pc' = "cnt" /\ timer_ms' = timer_ms + 1
        /\ called' = called /\ answer' = answer /\ cnt' = cnt /\ uif' = uif
    BY <1>5 DEF Count
  <2>2. timer_ms' * Reload = timer_ms * Reload + Reload
    BY <1>0, <2>1, Period DEF TypeOK
  <2>3. Now' = Now
    BY <1>0, <1>p, <2>1, <2>2, ConstantFacts, NowCases, NowCasesNext DEF NowFacts, TypeOK
  <2>4. Busy' = Busy
    BY <2>1, Zenon DEF Busy
  <2> QED
    BY <2>1, <2>3, <2>4, Stutters
<1>6. CASE ReadCnt \/ ReadSr
  <2>1. /\ pc \in {"cnt", "sr"} /\ pc' \in {"sr", "sum"}
        /\ called' = called /\ answer' = answer
        /\ timer_ms' = timer_ms /\ cnt' = cnt /\ uif' = uif
    BY <1>6 DEF ReadCnt, ReadSr
  <2>2. Now' = Now
    BY <2>1 DEF Now, Pending
  <2>3. Busy' = Busy
    BY <2>1, Zenon DEF Busy
  <2> QED
    BY <2>1, <2>2, <2>3, Stutters
<1>7. ASSUME Return PROVE Clock!Return
  <2>1. /\ pc = "sum" /\ pc' = "returned" /\ answer' = timer_ms * Reload + t
        /\ called' = called /\ timer_ms' = timer_ms /\ cnt' = cnt /\ uif' = uif
    BY <1>7 DEF Return
  <2>2. Now' = Now
    BY <2>1 DEF Now, Pending
  <2>3. Busy /\ Busy' = FALSE
    BY <2>1, Zenon DEF Busy
  <2>4. answer' \in called .. Now
    BY <1>0, <1>p, <2>1, NowCases DEF NowFacts, ReadingInv, TypeOK
  <2> QED
    BY <2>1, <2>2, <2>3, <2>4, Zenon DEF Clock!Return
<1>8. CASE Delay \/ Taken
  <2>1. /\ pc \in {"idle", "returned"} /\ pc' = "idle"
        /\ called' = called /\ answer' = answer
        /\ timer_ms' = timer_ms /\ cnt' = cnt /\ uif' = uif
    BY <1>8 DEF Delay, Taken
  <2>2. Now' = Now
    BY <2>1 DEF Now, Pending
  <2>3. Busy' = Busy
    BY <2>1, Zenon DEF Busy
  <2> QED
    BY <2>1, <2>2, <2>3, Stutters
<1>9. CASE UNCHANGED vars
  BY <1>9, Stutters DEF vars, Now, Pending, Busy
<1> QED
  BY <1>1, <1>2, <1>3, <1>4, <1>5, <1>6, <1>7, <1>8, <1>9 DEF Next, Clock!Next

(* The reading of TIM2 is a clock: an answer of timer_get_time is a time between
   its call and its return, wherever the counter wraps (time.c:46-75).     *)
THEOREM Implements == Spec => ReadsTheClock
<1>1. TimeInv /\ [Next]_vars => TimeInv'
  BY NextTypeOK, NextReadingInv DEF TimeInv
<1> QED
  BY InitMaps, NextMaps, Invariance, <1>1, PTL DEF Spec, ReadsTheClock, Clock!Spec

-----------------------------------------------------------------------------
(* What a caller has in its hand: the answers follow one another, and a delay has
   its first one after its beginning.                                      *)
CallerInv ==
    /\ answer <= Now /\ begun <= Now
    /\ Busy => answer <= called
    /\ delay = "first" => /\ Busy => begun <= called
                          /\ pc = "returned" => begun <= answer
    /\ delay = "loop" => begun <= time /\ time <= answer

FullInv == TimeInv /\ CallerInv

(* A remainder is no larger than the number. *)
LEMMA Remainder ==
    ASSUME NEW a \in Nat, NEW r \in Nat, r > 0
    PROVE  a % r <= a
  OBVIOUS

(* A step takes the clock one tick further at most, and never back. *)
LEMMA NowSteps == TimeInv /\ TimeInv' /\ [Next]_vars => Now' = Now \/ Now' = Now + 1
  BY NextMaps DEF Clock!Next, Clock!Tick, Clock!Call, Clock!Return, Clock!vars

(* The initial state. *)
LEMMA InitFullInv == Init => FullInv
<1> SUFFICES ASSUME Init PROVE FullInv
  OBVIOUS
<1>1. TimeInv /\ TypeOK
  BY InitTimeInv DEF TimeInv
<1>2. pc = "idle" /\ answer = 0 /\ begun = 0 /\ delay = "no"
  BY DEF Init
<1> QED
  BY <1>1, <1>2, NowCases DEF NowFacts, FullInv, CallerInv, Busy

(* Every step keeps what the callers have. *)
LEMMA NextFullInv == FullInv /\ [Next]_vars => FullInv'
<1> SUFFICES ASSUME FullInv, [Next]_vars PROVE FullInv'
  OBVIOUS
<1>0. TimeInv /\ CallerInv /\ TypeOK /\ ReadingInv
  BY DEF FullInv, TimeInv
<1>1. TimeInv' /\ TypeOK' /\ ReadingInv'
  BY <1>0, NextTypeOK, NextReadingInv DEF TimeInv
<1>2. Now \in Nat /\ Now' \in Nat /\ Now <= Now'
  BY <1>0, <1>1, NowSteps, NowCases, NowCasesNext DEF NowFacts
<1>3. /\ answer \in Nat /\ called \in Nat /\ begun \in Nat /\ time \in Nat
      /\ answer' \in Nat /\ called' \in Nat /\ begun' \in Nat /\ time' \in Nat
  BY <1>0, <1>1 DEF TypeOK
<1>4. ASSUME Tick \/ TIM2_IRQHandler \/ Flag \/ Count \/ ReadCnt \/ ReadSr \/ UNCHANGED vars
      PROVE  CallerInv'
  <2>1. /\ answer' = answer /\ begun' = begun /\ called' = called
        /\ delay' = delay /\ time' = time
    BY <1>4 DEF Tick, TIM2_IRQHandler, Flag, Count, ReadCnt, ReadSr, vars
  <2>2. (Busy' <=> Busy) /\ (pc' = "returned" <=> pc = "returned")
    BY <1>4 DEF Tick, TIM2_IRQHandler, Flag, Count, ReadCnt, ReadSr, vars, Busy
  <2> QED
    BY <1>0, <1>2, <1>3, <2>1, <2>2 DEF CallerInv
<1>5. ASSUME Call \/ CallIrq PROVE CallerInv'
  <2>1. /\ pc = "idle" /\ pc' # "returned" /\ called' = Now
        /\ answer' = answer /\ begun' = begun /\ delay' = delay /\ time' = time
    BY <1>5 DEF Call, CallIrq
  <2> QED
    BY <1>0, <1>2, <1>3, <2>1 DEF CallerInv
<1>6. ASSUME Return PROVE CallerInv'
  <2>1. /\ called' = called /\ called <= answer' /\ answer' <= Now
        /\ pc = "sum" /\ pc' = "returned"
        /\ begun' = begun /\ delay' = delay /\ time' = time
    BY <1>0, <1>6 DEF Return, ReadingInv
  <2> QED
    BY <1>0, <1>2, <1>3, <2>1 DEF CallerInv, Busy
<1>7. ASSUME Delay PROVE CallerInv'
  <2>1. /\ pc = "idle" /\ pc' = "idle" /\ begun' = Now
        /\ answer' = answer /\ delay' = "first" /\ called' = called
    BY <1>7 DEF Delay
  <2> QED
    BY <1>0, <1>2, <1>3, <2>1 DEF CallerInv, Busy
<1>8. ASSUME Taken PROVE CallerInv'
  <2>1. /\ pc = "returned" /\ pc' = "idle" /\ answer' = answer
        /\ begun' = begun /\ called' = called
        /\ delay = "first" => delay' = "loop" /\ time' = answer
        /\ delay # "first" => delay' \in {"no", delay} /\ time' = time
    BY <1>8 DEF Taken
  <2> QED
    BY <1>0, <1>2, <1>3, <2>1 DEF CallerInv, Busy
<1> QED
  BY <1>1, <1>4, <1>5, <1>6, <1>7, <1>8 DEF Next, FullInv

(* It holds throughout. *)
LEMMA FullInvariance == Spec => []FullInv
  BY InitFullInv, NextFullInv, PTL DEF Spec

(* No answer of timer_get_time is before the one it gave last (time.c:59-68). *)
THEOREM Monotone == Spec => NeverBack
<1>1. ASSUME FullInv, [Next]_vars, answer' # answer PROVE answer' >= answer
  <2>1. TypeOK /\ ReadingInv /\ CallerInv /\ TypeOK'
    BY <1>1, NextFullInv DEF FullInv, TimeInv
  <2>2. Return
    BY <1>1 DEF Next, Tick, TIM2_IRQHandler, Call, CallIrq, Flag, Count, ReadCnt, ReadSr,
                Delay, Taken, vars
  <2>3. called <= answer' /\ answer <= called
    BY <2>1, <2>2 DEF Return, ReadingInv, CallerInv, Busy
  <2> QED
    BY <2>1, <2>3 DEF TypeOK
<1>2. FullInv /\ [Next]_vars => [answer' >= answer]_answer
  BY <1>1
<1> QED
  BY <1>2, FullInvariance, PTL DEF Spec, NeverBack

(* time_delay_us and time_delay_ms last as long as was asked, whatever the counter
   does under the two readings they compare (time.c:78-96).                *)
THEOREM Lasts == Spec => DelayLongEnough
<1>1. ASSUME FullInv, Next, delay = "loop", delay' = "no" PROVE Now - begun >= Pause
  <2>1. TypeOK /\ CallerInv /\ Now \in Nat
    BY <1>1, NowCases DEF FullInv, TimeInv, NowFacts
  <2>2. Taken
    BY <1>1 DEF Next, Tick, TIM2_IRQHandler, Call, CallIrq, Flag, Count, ReadCnt, ReadSr,
                Return, Delay
  <2>3. (answer - time) % Range64 >= Pause
    BY <1>1, <2>2 DEF Taken
  <2>4. /\ answer <= Now /\ begun <= time /\ time <= answer
        /\ answer \in Nat /\ time \in Nat /\ begun \in Nat
    BY <1>1, <2>1 DEF CallerInv, TypeOK
  <2>5. Range64 \in Nat /\ Range64 > 0 /\ Pause \in Nat
    BY ClockAssumption
  <2>6. answer - time \in Nat /\ (answer - time) % Range64 \in Nat
    BY <2>4, <2>5
  <2>7. (answer - time) % Range64 <= answer - time
    BY <2>5, <2>6, Remainder
  <2> QED
    BY <2>1, <2>3, <2>4, <2>5, <2>6, <2>7
<1>2. FullInv /\ [Next]_vars =>
        [delay = "loop" /\ delay' = "no" => Now - begun >= Pause]_vars
  BY <1>1
<1> QED
  BY <1>2, FullInvariance, PTL DEF Spec, DelayLongEnough
=============================================================================

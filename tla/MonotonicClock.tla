-------------------------- MODULE MonotonicClock --------------------------
(***************************************************************************)
(* What the callers of timer_get_time may rely on: an answer is a time     *)
(* between the call and the return.  Answers of calls that follow one      *)
(* another therefore never go back.                                        *)
(***************************************************************************)
EXTENDS Naturals

VARIABLES
    now,     \* the time
    busy,    \* a call is under way
    called,  \* the time when it began
    answer   \* the last answer

vars == <<now, busy, called, answer>>

Init ==
    /\ now \in Nat
    /\ busy = FALSE
    /\ called = now
    /\ answer = 0

Tick ==
    /\ now' = now + 1
    /\ UNCHANGED <<busy, called, answer>>

Call ==
    /\ ~busy
    /\ busy' = TRUE
    /\ called' = now
    /\ UNCHANGED <<now, answer>>

Return ==
    /\ busy
    /\ busy' = FALSE
    /\ answer' \in called .. now
    /\ UNCHANGED <<now, called>>

Next == Tick \/ Call \/ Return

Spec == Init /\ [][Next]_vars
=============================================================================

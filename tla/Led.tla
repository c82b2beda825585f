-------------------------------- MODULE Led --------------------------------
(***************************************************************************)
(* The lamp: led.c, and _usb_update_state that chooses what it shows.      *)
(*                                                                         *)
(* A sequence is a mask of bits, one for each tick: here the set of ticks  *)
(* whose bit is one.  led_tick shifts a copy of it out and takes a new     *)
(* copy when the copy has run out.  A new sequence does not touch the copy *)
(* that is running.                                                        *)
(***************************************************************************)
EXTENDS Integers, Sequences

CONSTANTS
    Length,    \* ticks of a sequence (4)
    Idle,      \* mask shown without a connection (0x01: the first tick)
    Ready      \* mask shown with one (0x0F: the first four)

VARIABLES
    connected,    \* usb_device_connected: not the lamp's own
    prev_state,   \* the connection _usb_update_state has seen last
    mask, mask_run, length, count,
    lit,          \* what the last ticks have shown, latest first
    settled       \* ticks since the lamp was last told something else

vars == <<prev_state, mask, mask_run, length, count, lit, settled>>

-----------------------------------------------------------------------------
(* The mask of a connection, or of none: _LED_MODE_READY and _LED_MODE_IDLE. *)
Mode(there) == IF there THEN Ready ELSE Idle

(* mask >>= 1 *)
Shifted(m) == {k - 1 : k \in m \ {0}}

(* led_init and the first sequence *)
Init ==
    /\ prev_state = FALSE
    /\ mask = Idle /\ mask_run = {}
    /\ length = Length - 1 /\ count = 0
    /\ lit = <<>>
    /\ settled = -1

\* mutant: the length is not made a count
CyclicSequenceLong(m) == [mask |-> m, length |-> Length, count |-> 0]

(* led_cyclic_sequence: the sequence begins after the next tick. *)
CyclicSequence(m) == [mask |-> m, length |-> Length - 1, count |-> 0]

(* The same in a step: the memory it is in is initialised again. *)
Restarted ==
    /\ prev_state' = FALSE
    /\ mask' = Idle /\ mask_run' = {}
    /\ length' = Length - 1 /\ count' = 0
    /\ lit' = <<>>
    /\ settled' = -1

(* The 100 ms block: _usb_update_state, then led_tick. *)
Block ==
    LET changed == connected # prev_state
        now == IF changed THEN CyclicSequence(Mode(connected))
               ELSE [mask |-> mask, length |-> length, count |-> count]
        reload == now.count = 0
    IN  /\ prev_state' = connected
        /\ mask' = now.mask /\ length' = now.length
        /\ lit' = SubSeq(<<IF 0 \in mask_run THEN 1 ELSE 0>> \o lit, 1,
                         IF Len(lit) < Length THEN Len(lit) + 1 ELSE Length)
        /\ mask_run' = IF reload THEN now.mask ELSE Shifted(mask_run)
        /\ count' = IF reload THEN now.length ELSE now.count - 1
        /\ settled' = IF changed THEN 0
                      ELSE IF settled < Length THEN settled + 1 ELSE Length
        /\ UNCHANGED connected

-----------------------------------------------------------------------------
TypeOK ==
    /\ prev_state \in BOOLEAN
    /\ mask \in SUBSET (0 .. 31) /\ mask_run \in SUBSET (0 .. 31)
    /\ length \in 0 .. Length - 1 /\ count \in 0 .. Length - 1
    /\ lit \in Seq({0, 1}) /\ Len(lit) <= Length
    /\ settled \in -1 .. Length

(* One period after the lamp was last told something else, whatever it was then in
   the middle of, any period of ticks shows the connection's sequence, begun
   somewhere: a period on is a connection, one tick on in a period is none. *)
ShowsConnection ==
    settled = Length =>
        \E first \in 0 .. Length - 1 :
            \A k \in 1 .. Length :
                lit[k] = 1 <=>
                    (first - k) % Length \in Mode(prev_state)
=============================================================================

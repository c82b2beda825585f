---------------------------- MODULE PacketSlot ----------------------------
(***************************************************************************)
(* What the packet handler may count on: a place for one packet between    *)
(* the host and it.  A packet is taken in when the place is free, and then *)
(* handed on whole, once, or lost.                                         *)
(***************************************************************************)
EXTENDS Naturals, Sequences

CONSTANTS
    Lens,      \* lengths a packet may have
    Sessions   \* connections over which it may come

VARIABLES
    held,      \* the packet in between: a set of at most one
    taken,     \* packets taken in so far
    handed     \* packets handed on, in order

vars == <<held, taken, handed>>

Init == held = {} /\ taken = 0 /\ handed = <<>>

TakeIn ==
    /\ held = {}
    /\ taken' = taken + 1
    /\ \E n \in Lens, s \in Sessions : held' = {[num |-> taken', len |-> n, session |-> s]}
    /\ UNCHANGED handed

HandOn ==
    /\ \E p \in held : handed' = Append(handed, p)
    /\ held' = {}
    /\ UNCHANGED taken

(* A reset, or a packet without contents. *)
Lose ==
    /\ held # {} /\ held' = {}
    /\ UNCHANGED <<taken, handed>>

Next == TakeIn \/ HandOn \/ Lose

Spec == Init /\ [][Next]_vars
===========================================================================

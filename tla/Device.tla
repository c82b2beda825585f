------------------------------- MODULE Device -------------------------------
(***************************************************************************)
(* The device from reset to reset: the start-up of Boot, and what its main *)
(* loop runs of the lamp and of the seed of a TLS session.                 *)
(*                                                                         *)
(* The lamp looks at the connection that the USB stack reports and ticks   *)
(* in the loop's 100 ms block.  A seed is drawn inside a TLS command, and  *)
(* the block waits until it is done.  A reset may come in the middle of    *)
(* either, and what is in RAM starts anew.                                 *)
(***************************************************************************)
EXTENDS Boot, Seed, Sequences

CONSTANTS Length, Idle, Ready   \* as in Led

ASSUME LampAssumption ==
    /\ Length \in 1 .. 32
    /\ {Idle, Ready} \subseteq SUBSET (0 .. 31)   \* a mask is a u32
    /\ Idle # Ready

VARIABLES prev_state, mask, mask_run, length, count, lit, settled   \* as in Led

Lamp == INSTANCE Led

lamp_vars == <<prev_state, mask, mask_run, length, count, lit, settled>>
device_vars == <<vars, seed_vars, lamp_vars>>

-----------------------------------------------------------------------------
DeviceInit == Init /\ SeedInit /\ Lamp!Init

(* custom_wc_GenerateSeed is under way: the main loop is inside a TLS command. *)
Seeding == ret = "none" /\ i > 0

(* The next call finds what the last one was given, and nothing done. *)
Forgotten ==
    /\ mem' = [a \in Addresses |-> "old"] /\ i' = 0 /\ ret' = "none"
    /\ UNCHANGED <<output, sz>>

(* A step of main() before the loop, of the RESET command, or a reset. *)
StartStep ==
    /\ Next
    /\ pc' = "request" => ~Seeding
    /\ IF pc' = "clock"   \* a reset: nothing else leads there
       THEN Forgotten /\ Lamp!Restarted
       ELSE UNCHANGED <<seed_vars, lamp_vars>>

(* The 100 ms block. *)
LampStep ==
    /\ pc = "loop" /\ ~Seeding
    /\ Lamp!Block
    /\ UNCHANGED <<vars, seed_vars>>

SeedStep ==
    /\ pc = "loop"
    /\ SeedNext
    /\ UNCHANGED <<vars, lamp_vars>>

DeviceNext == StartStep \/ LampStep \/ SeedStep

(* The fairness of Boot. *)
DeviceSpec ==
    /\ DeviceInit /\ [][DeviceNext]_device_vars
    /\ WF_vars(Boots) /\ WF_vars(Bite)

-----------------------------------------------------------------------------
(* The lamp and the seed have their types. *)
DeviceTypeOK == SeedTypeOK /\ Lamp!TypeOK

(* The lamp tells whether there is a connection, through resets and connections
   that come and go in the middle of its sequence (led.c:33, main.c:235-249):
   see Led.                                                                *)
LampShows == Lamp!ShowsConnection
=============================================================================

------------------------------ MODULE CdcRead ------------------------------
(***************************************************************************)
(* How a packet gets from the OUT endpoint to the packet handler.          *)
(*                                                                         *)
(* Each pass of usb_device_task steps the read state machine of the USBX   *)
(* class once.  Short packets end a read at once; a full one leaves it in  *)
(* START, to be handed on by the next pass.  The state machine and the     *)
(* application's buffer survive a bus reset, the endpoint does not.        *)
(* UsbRx takes a pass for at most one delivery; this module shows what of  *)
(* that is true when the bus resets between any two steps.                 *)
(*                                                                         *)
(* A packet is its number, its length and the session that received it.    *)
(***************************************************************************)
EXTENDS Naturals, Sequences

CONSTANTS
    PacketLen,   \* wMaxPacketSize, and the length asked for (64 in the build)
    MaxPackets,  \* bound: packets the host sends
    MaxSessions  \* bound: times the host configures the device

ASSUME CdcReadAssumption ==
    /\ PacketLen \in Nat \ {0}
    /\ MaxPackets \in Nat
    /\ MaxSessions \in Nat

VARIABLES
    dev,         \* ux_slave_device_state
    session,     \* times the device was configured
    pc,          \* where usb_device_task is
    read_state,  \* ux_device_class_cdc_acm_read_state
    actual,      \* ux_device_class_cdc_acm_read_actual_length
    ed,          \* TRANSFER and DONE bits of the OUT endpoint's status word
    armed,       \* the controller accepts a packet
    ebuf,        \* buffer of the OUT endpoint's transfer request
    rx_buffer,   \* acm_rx_buffer
    sent,        \* packets the controller has received
    given        \* what the packet handler was called with, in order

vars == <<dev, session, pc, read_state, actual, ed, armed, ebuf, rx_buffer, sent, given>>

reader == <<read_state, actual, rx_buffer, given>>

-----------------------------------------------------------------------------
Lens      == 0 .. PacketLen
Packet    == [num : 0 .. MaxPackets, len : Lens, session : 0 .. MaxSessions]
Delivery  == [packet : Packet, len : Lens, session : 0 .. MaxSessions]
Status    == [transfer : BOOLEAN, done : BOOLEAN]
Idle      == [transfer |-> FALSE, done |-> FALSE]
NoPacket  == [num |-> 0, len |-> 0, session |-> 0]
Connected == dev = "CONFIGURED"

Init ==
    /\ dev = "RESET" /\ session = 0 /\ pc = "idle"
    /\ read_state = "RESET" /\ actual = 0
    /\ ed = Idle /\ armed = FALSE
    /\ ebuf = NoPacket /\ rx_buffer = NoPacket
    /\ sent = 0 /\ given = <<>>

(* usb_device_task, the stack's tasks: the last of them is SET_CONFIGURATION, which
   opens the endpoint anew and leaves its status word and the class as they are. *)
DeviceTasks ==
    /\ pc = "idle"
    /\ pc' = "task"
    /\ \/ /\ dev = "ATTACHED" /\ session < MaxSessions
          /\ dev' = "CONFIGURED"
          /\ session' = session + 1
       \/ UNCHANGED <<dev, session>>
    /\ UNCHANGED <<reader, ed, armed, ebuf, sent>>

(* ux_device_cdc_acm_task: no read without a configured device. *)
CdcAcmTask ==
    /\ pc = "task"
    /\ pc' = IF Connected THEN "run" ELSE "idle"
    /\ UNCHANGED <<dev, session, reader, ed, armed, ebuf, sent>>

(* read_run, when a bus reset came in between. *)
ReadRunDown ==
    /\ pc = "run" /\ ~Connected
    /\ read_state' = "RESET"
    /\ pc' = "idle"
    /\ UNCHANGED <<dev, session, actual, rx_buffer, given, ed, armed, ebuf, sent>>

(* The packet handler; ux_device_cdc_acm_task keeps empty packets from it. *)
Deliver(packet, n) ==
    given' = IF n = 0 THEN given
             ELSE Append(given, [packet |-> packet, len |-> n, session |-> session])

DoneKept == "START"   \* mutant: the read is not over when it is handed on

(* The state in which a delivered read leaves the state machine. *)
DoneState == "RESET"

(* read_run in START with nothing left to read: NEXT. *)
ReadRunDone ==
    /\ pc = "run" /\ Connected
    /\ read_state = "START" /\ actual = PacketLen
    /\ Deliver(rx_buffer, actual)
    /\ read_state' = DoneState
    /\ pc' = "idle"
    /\ UNCHANGED <<dev, session, actual, rx_buffer, ed, armed, ebuf, sent>>

\* mutant: the length read so far is not reset
ReadRunStartAdds ==
    /\ pc = "run" /\ Connected
    /\ read_state = "RESET"
    /\ read_state' = "WAIT"
    /\ pc' = "hw"
    /\ UNCHANGED <<dev, session, actual, rx_buffer, given, ed, armed, ebuf, sent>>

(* read_run in RESET: a new read, and on to the driver. *)
ReadRunStart ==
    /\ pc = "run" /\ Connected
    /\ read_state = "RESET"
    /\ actual' = 0
    /\ read_state' = "WAIT"
    /\ pc' = "hw"
    /\ UNCHANGED <<dev, session, rx_buffer, given, ed, armed, ebuf, sent>>

(* read_run in WAIT: on to the driver. *)
ReadRunWait ==
    /\ pc = "run" /\ Connected
    /\ read_state = "WAIT"
    /\ pc' = "hw"
    /\ UNCHANGED <<dev, session, reader, ed, armed, ebuf, sent>>

-----------------------------------------------------------------------------
(* The driver, with interrupts off, when the device is gone. *)
TransferRefused ==
    /\ dev = "RESET"
    /\ read_state' = "RESET"
    /\ pc' = "idle"
    /\ UNCHANGED <<actual, rx_buffer, given, ed, armed>>

TransferStart ==
    /\ dev # "RESET" /\ ~ed.transfer
    /\ ed' = [ed EXCEPT !.transfer = TRUE]
    /\ armed' = Connected
    /\ pc' = "idle"
    /\ UNCHANGED reader

TransferWait ==
    /\ dev # "RESET" /\ ed.transfer /\ ~ed.done
    /\ pc' = "idle"
    /\ UNCHANGED <<reader, ed, armed>>

\* mutant: the next packet is accepted before this one is copied
TransferDoneArmed ==
    /\ dev # "RESET" /\ ed.transfer /\ ed.done
    /\ ed' = [transfer |-> TRUE, done |-> FALSE]
    /\ armed' = Connected
    /\ pc' = "copy"
    /\ UNCHANGED reader

\* mutant: the driver clears the status word and returns WAIT
TransferDoneLost ==
    /\ dev # "RESET" /\ ed.transfer /\ ed.done
    /\ ed' = Idle
    /\ pc' = "idle"
    /\ UNCHANGED <<reader, armed>>

(* A packet has come: the status word is cleared, interrupts go on again. *)
TransferDone ==
    /\ dev # "RESET" /\ ed.transfer /\ ed.done
    /\ ed' = Idle
    /\ pc' = "copy"
    /\ UNCHANGED <<reader, armed>>

TransferRun ==
    /\ pc = "hw"
    /\ TransferRefused \/ TransferStart \/ TransferWait \/ TransferDone
    /\ UNCHANGED <<dev, session, ebuf, sent>>

(* read_run after the driver's NEXT: copy; a packet shorter than what was asked for
   ends the read and is handed on.                                         *)
ReadRunCopy ==
    /\ pc = "copy"
    /\ rx_buffer' = ebuf
    /\ actual' = actual + ebuf.len
    /\ \/ /\ ebuf.len < PacketLen
          /\ Deliver(ebuf, actual')
          /\ read_state' = "RESET"
       \/ /\ ebuf.len = PacketLen
          /\ read_state' = "START"
          /\ UNCHANGED given
    /\ pc' = "idle"
    /\ UNCHANGED <<dev, session, ed, armed, ebuf, sent>>

-----------------------------------------------------------------------------
(* HAL_PCD_DataOutStageCallback: a packet from the host has arrived. *)
DataOutStage(n) ==
    /\ armed
    /\ sent < MaxPackets
    /\ armed' = FALSE
    /\ sent' = sent + 1
    /\ ebuf' = [num |-> sent + 1, len |-> n, session |-> session]
    /\ ed' = [ed EXCEPT !.done = TRUE]
    /\ UNCHANGED <<dev, session, pc, reader>>

\* mutant: the status word survives the endpoint
StackDisconnectHalf ==
    /\ ed' = ed
    /\ armed' = FALSE

(* _ux_device_stack_disconnect: the endpoints of a configured device are destroyed. *)
StackDisconnect ==
    /\ ed' = IF Connected THEN Idle ELSE ed
    /\ armed' = FALSE

(* HAL_PCD_ResetCallback *)
UsbReset ==
    /\ StackDisconnect
    /\ dev' = "ATTACHED"
    /\ UNCHANGED <<session, pc, reader, ebuf, sent>>

(* HAL_PCD_DisconnectCallback *)
UsbDisconnect ==
    /\ dev # "RESET"
    /\ StackDisconnect
    /\ dev' = "RESET"
    /\ UNCHANGED <<session, pc, reader, ebuf, sent>>

-----------------------------------------------------------------------------
MainStep ==
    \/ DeviceTasks \/ CdcAcmTask
    \/ ReadRunDown \/ ReadRunDone \/ ReadRunStart \/ ReadRunWait
    \/ TransferRun \/ ReadRunCopy

Interrupt == (\E n \in Lens : DataOutStage(n)) \/ UsbReset \/ UsbDisconnect

Next == MainStep \/ Interrupt

Spec == Init /\ [][Next]_vars

(* The main loop makes its passes. *)
RunningSpec == Spec /\ WF_vars(MainStep)

-----------------------------------------------------------------------------
TypeOK ==
    /\ dev \in {"RESET", "ATTACHED", "CONFIGURED"}
    /\ session \in 0 .. MaxSessions
    /\ pc \in {"idle", "task", "run", "hw", "copy"}
    /\ read_state \in {"RESET", "START", "WAIT"}
    /\ actual \in Lens
    /\ ed \in Status /\ armed \in BOOLEAN
    /\ ebuf \in Packet /\ rx_buffer \in Packet
    /\ sent \in 0 .. MaxPackets
    /\ given \in Seq(Delivery)

(* The handler gets each packet at most once, whole, and in the order in which the
   controller received them.                                               *)
WholeAndInOrder ==
    \A k \in DOMAIN given :
        /\ given[k].len = given[k].packet.len
        /\ k > 1 => given[k - 1].packet.num < given[k].packet.num

(* A packet that was received before a reset and is handed on in a later session is
   one of full size, the first of that session, and the only one: the read it ended
   waited in START.                                                        *)
LateOnlyFull ==
    \A k \in DOMAIN given :
        given[k].session # given[k].packet.session =>
            /\ given[k].len = PacketLen
            /\ \A j \in DOMAIN given :
                   given[j].session = given[k].session => j >= k

(* What the controller has received and the handler has not: in the endpoint's
   buffer, or in the application's.                                        *)
InEndpoint == ed.done \/ pc = "copy"
InBuffer   == read_state = "START"

Slot == INSTANCE PacketSlot WITH
    Sessions <- 0 .. MaxSessions,
    held   <- (IF InEndpoint THEN {ebuf} ELSE {}) \cup (IF InBuffer THEN {rx_buffer} ELSE {}),
    taken  <- sent,
    handed <- [k \in DOMAIN given |-> given[k].packet]

(* The endpoint, the two buffers and the state machine are together a place for one
   packet: none is taken in before the last was handed on or lost, which is what
   UsbRx has of this path.                                                 *)
OnePlace == Slot!Spec

(* A packet that the controller has received is handed on, or the connection it
   came over is gone.                                                      *)
Received == \A n \in 1 .. MaxPackets :
    (sent = n /\ ebuf.len > 0 /\ Connected /\ InEndpoint)
        ~> (~Connected \/ \E k \in DOMAIN given : given[k].packet.num = n)

(* API.md answers every command, so a configured device listens: in the end the
   endpoint accepts a packet, however many resets there were before.       *)
Listens == (Connected /\ sent < MaxPackets) ~> (~Connected \/ armed \/ sent = MaxPackets)
=============================================================================

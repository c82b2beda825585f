------------------------------- MODULE CdcTx -------------------------------
(***************************************************************************)
(* The transmit path from the firmware to the USB host.                    *)
(*                                                                         *)
(* Two clients share one CDC-ACM IN endpoint: the console (stdout flushed  *)
(* through _write into _usb_send_data) and the TLS task (EmbedSend).  Both *)
(* call usb_cdc_tx, which steps the write state machine of the USBX class  *)
(* once.  The state machine remembers the buffer and the length of the     *)
(* call that found it in RESET; a later call by anybody continues that     *)
(* transfer and looks only at the total in the end.  Interrupts complete   *)
(* packets, reset the bus and unplug the cable between any two steps.      *)
(*                                                                         *)
(* A message is its index in msgs; its bytes are units <<id, offset>>.     *)
(***************************************************************************)
EXTENDS Naturals, Sequences

CONSTANTS
    MaxLen,       \* longest message, in units
    BufSize,      \* capacity of the endpoint buffer (512 bytes in the build)
    RetryNum,     \* USB_RETRY_NUM: attempts of _usb_send_data
    EnumPolls,    \* polls of the USB stack that one enumeration takes at least
    Lengths,      \* bound: lengths the messages of a behaviour have
    MaxMsgs,      \* bound: messages sent in a behaviour
    MaxSessions   \* bound: times the host configures the device

ASSUME CdcTxAssumption ==
    /\ MaxLen \in Nat \ {0}
    /\ BufSize \in Nat \ {0}
    /\ RetryNum \in Nat \ {0}
    /\ EnumPolls \in Nat \ {0}
    /\ Lengths \subseteq 1 .. MaxLen
    /\ MaxMsgs \in Nat
    /\ MaxSessions \in Nat

VARIABLES
    dev,          \* ux_slave_device_state
    enum,         \* control transfers still to be processed before CONFIGURED
    write_state,  \* ux_device_class_cdc_acm_write_state
    wr,           \* what the state machine captured, and how far it got
    ed,           \* TRANSFER and DONE bits of the IN endpoint's status word
    armed,        \* the controller holds a packet the host will collect
    ebuf,         \* data buffer of the IN endpoint's transfer request
    mem,          \* the callers' buffers: whose bytes each offset holds now
    pc,           \* where the main loop is
    cur,          \* the message usb_cdc_tx is called with (0: none)
    limit,        \* the retry counter of _usb_send_data
    tls,          \* the record wolfSSL has still to hand over (0: none)
    msgs,         \* every message sent so far, with what its sender learnt
    host          \* per session, the units the host received, in order

vars == <<dev, enum, write_state, wr, ed, armed, ebuf, mem, pc, cur, limit,
          tls, msgs, host>>

bus    == <<dev, enum, host>>
class  == <<write_state, wr, ebuf>>
client == <<pc, cur, limit, tls, msgs>>

-----------------------------------------------------------------------------
Lens     == 1 .. MaxLen
Ids      == 1 .. MaxMsgs
Areas    == {"stdio", "tls"}
Kinds    == {"console", "record", "write"}
Outcomes == {"open", "skipped", "ok", "gaveup", "reset"}
Units    == (0 .. MaxMsgs) \X Lens
Message  == [kind : Kinds, len : Lens, outcome : Outcomes]
Transfer == [area : Areas, req : 0 .. MaxLen, act : 0 .. MaxLen,
             xfer : 0 .. MaxLen]
Status   == [transfer : BOOLEAN, done : BOOLEAN]

(* usb_device_connected(): the class pointer is set and the device state is
   CONFIGURED; the two change together, in the stack's connect/disconnect. *)
Connected == dev = "CONFIGURED"

Kind(m) == msgs[m].kind
Len_(m) == msgs[m].len
Area(m) == IF Kind(m) = "console" THEN "stdio" ELSE "tls"

(* The caller's buffer overwritten by a new message: stdio and wolfSSL both
   reuse theirs; bytes beyond the new message keep their old contents.     *)
Filled(area, id, n) ==
    [mem EXCEPT ![area] = [o \in Lens |-> IF o <= n THEN id ELSE @[o]]]

Init ==
    /\ dev = "RESET"
    /\ enum = 0
    /\ write_state = "RESET"
    /\ wr = [area |-> "stdio", req |-> 0, act |-> 0, xfer |-> 0]
    /\ ed = [transfer |-> FALSE, done |-> FALSE]
    /\ armed = FALSE
    /\ ebuf = <<>>
    /\ mem = [a \in Areas |-> [o \in Lens |-> 0]]
    /\ pc = "idle"
    /\ cur = 0
    /\ limit = 0
    /\ tls = 0
    /\ msgs = <<>>
    /\ host = <<>>

-----------------------------------------------------------------------------
(* usb_device_task(): one pass of the USBX stack.  A pending SETUP packet is
   answered here, in the main loop; the last one is SET_CONFIGURATION.  A
   host that has not sent its next request leaves the pass without effect. *)
DeviceTask ==
    \/ /\ dev = "ATTACHED" /\ enum > 1
       /\ enum' = enum - 1
       /\ UNCHANGED <<dev, host>>
    \/ /\ dev = "ATTACHED" /\ enum <= 1
       /\ dev' = "CONFIGURED"
       /\ enum' = 0
       /\ host' = Append(host, <<>>)
    \/ UNCHANGED bus

(* The main loop polls the stack while it has nothing to send. *)
Poll ==
    /\ pc = "idle"
    /\ DeviceTask
    /\ UNCHANGED <<class, ed, armed, mem, client>>

(* _usb_send_data: called for every flush of stdout, from the main loop or
   from debug_printf while a TLS record is pending.                        *)
SendData(n) ==
    /\ pc \in {"idle", "tlswait"}
    /\ Len(msgs) < MaxMsgs
    /\ n \in Lengths
    /\ LET m == Len(msgs) + 1
           rec(o) == [kind |-> "console", len |-> n, outcome |-> o]
       IN  /\ mem' = Filled("stdio", m, n)
           /\ IF Connected
              THEN /\ msgs' = Append(msgs, rec("open"))
                   /\ cur' = m
                   /\ limit' = RetryNum
                   /\ pc' = "enter"
              ELSE /\ msgs' = Append(msgs, rec("skipped"))
                   /\ UNCHANGED <<cur, limit, pc>>
    /\ UNCHANGED <<bus, class, ed, armed, tls>>

(* wolfSSL has built an output record: of the handshake (kind "record", which
   wolfSSL_connect retries until EmbedSend takes it) or of the single calls of
   wolfSSL_write and wolfSSL_shutdown (kind "write", short, never retried). *)
StartRecord(k, n) ==
    /\ pc = "idle"
    /\ Len(msgs) < MaxMsgs
    /\ n \in Lengths
    /\ k = "write" => n <= BufSize
    /\ LET m == Len(msgs) + 1
       IN  /\ mem' = Filled("tls", m, n)
           /\ msgs' = Append(msgs, [kind |-> k, len |-> n, outcome |-> "open"])
           /\ cur' = m
           /\ tls' = m
    /\ pc' = "embed"
    /\ UNCHANGED <<bus, class, ed, armed, limit>>

EmbedSendUnchecked ==   \* mutant: no test of the connection
    /\ pc = "embed"
    /\ pc' = "embedpoll"
    /\ UNCHANGED <<bus, class, ed, armed, mem, limit, msgs, cur, tls>>

(* EmbedSend, its first lines: without a connection the record is refused with
   CONN_RST and the session is over.                                       *)
EmbedSend ==
    /\ pc = "embed"
    /\ IF Connected
       THEN /\ pc' = "embedpoll"
            /\ UNCHANGED <<msgs, cur, tls>>
       ELSE /\ pc' = "idle"
            /\ msgs' = [msgs EXCEPT ![cur].outcome = "reset"]
            /\ cur' = 0
            /\ tls' = 0
    /\ UNCHANGED <<bus, class, ed, armed, mem, limit>>

(* EmbedSend polls the stack before it transmits. *)
EmbedPoll ==
    /\ pc = "embedpoll"
    /\ DeviceTask
    /\ pc' = "enter"
    /\ UNCHANGED <<class, ed, armed, mem, cur, limit, tls, msgs>>

(* The handshake loop after WANT_WRITE: a poll, then wolfSSL_connect again. *)
TlsPoll ==
    /\ pc = "tlswait"
    /\ DeviceTask
    /\ pc' = "embed"
    /\ UNCHANGED <<class, ed, armed, mem, cur, limit, tls, msgs>>

(* cleanup_tls_resources: wolfSSL's buffers go back to the heap. *)
WolfFree ==
    /\ pc = "idle"
    /\ mem' = [mem EXCEPT !["tls"] = [o \in Lens |-> 0]]
    /\ UNCHANGED <<bus, class, ed, armed, client>>

-----------------------------------------------------------------------------
(* The client learns what became of the call it made for cur. *)
Settle(outcome) ==
    /\ msgs' = [msgs EXCEPT ![cur].outcome = outcome]
    /\ IF Kind(cur) = "console" /\ tls # 0
       THEN /\ pc' = "tlswait"
            /\ cur' = tls
            /\ UNCHANGED tls
       ELSE /\ pc' = "idle"
            /\ cur' = 0
            /\ tls' = 0
    /\ limit' = 0

BusyUnbounded ==   \* mutant: the retry counter is never tested
    IF Kind(cur) = "console"
    THEN /\ limit' = limit - 1
         /\ pc' = "enter"
         /\ UNCHANGED <<cur, tls, msgs>>
    ELSE Settle("gaveup")

BusyUncounted ==   \* mutant: the retry counter is never decremented
    CASE Kind(cur) = "console" ->
            /\ pc' = "enter"
            /\ UNCHANGED <<limit, cur, tls, msgs>>
      [] Kind(cur) = "record" ->
            /\ pc' = "tlswait"
            /\ UNCHANGED <<cur, limit, tls, msgs>>
      [] OTHER -> Settle("gaveup")

BusyIsError ==   \* mutant: EmbedSend reports a busy endpoint as an error
    IF Kind(cur) = "console" /\ limit > 1
    THEN /\ limit' = limit - 1
         /\ pc' = "enter"
         /\ UNCHANGED <<cur, tls, msgs>>
    ELSE Settle("gaveup")

(* usb_cdc_tx returned USB_RESULT_BUSY. *)
Busy ==
    CASE Kind(cur) = "console" /\ limit > 1 ->
            /\ limit' = limit - 1
            /\ pc' = "enter"
            /\ UNCHANGED <<cur, tls, msgs>>
      [] Kind(cur) = "record" ->
            /\ pc' = "tlswait"
            /\ UNCHANGED <<cur, limit, tls, msgs>>
      [] OTHER -> Settle("gaveup")

(* ux_device_cdc_acm_tx: no class instance, no transmission. *)
CdcAcmTx ==
    /\ pc = "enter"
    /\ IF Connected
       THEN /\ pc' = "run"
            /\ UNCHANGED <<cur, limit, tls, msgs>>
       ELSE Busy
    /\ UNCHANGED <<bus, class, ed, armed, mem>>

(* What the state machine works on: the arguments of this call, if it is in
   RESET, and what it captured from an earlier call otherwise.             *)
Captured ==
    IF write_state = "RESET"
    THEN [area |-> Area(cur), req |-> Len_(cur), act |-> 0, xfer |-> 0]
    ELSE wr

ChunkUnclamped(w) ==   \* mutant: whole buffers are sent, whatever remains
    IF MaxLen - w.act > BufSize THEN BufSize ELSE MaxLen - w.act

Chunk(w) == IF w.req - w.act > BufSize THEN BufSize ELSE w.req - w.act

(* The bytes memcpy finds at the captured pointer now. *)
Copied(w) == [k \in 1 .. Chunk(w) |-> <<mem[w.area][w.act + k], w.act + k>>]

(* write_run, when a bus reset came between ux_device_cdc_acm_tx and here. *)
WriteRunDown ==
    /\ pc = "run" /\ ~Connected
    /\ write_state' = "RESET"
    /\ Busy
    /\ UNCHANGED <<bus, wr, ebuf, ed, armed, mem>>

WriteRunDoneUncompared ==   \* mutant: the length is not compared
    /\ pc = "run" /\ Connected
    /\ write_state = "START" /\ wr.act = wr.req
    /\ write_state' = "RESET"
    /\ Settle("ok")
    /\ UNCHANGED <<bus, wr, ebuf, ed, armed, mem>>

(* write_run in START with nothing left to send: NEXT, with the total of what
   was captured; ux_device_cdc_acm_tx compares it with this call's length. *)
WriteRunDone ==
    /\ pc = "run" /\ Connected
    /\ write_state = "START" /\ wr.act = wr.req
    /\ write_state' = "RESET"
    /\ IF wr.act = Len_(cur) THEN Settle("ok") ELSE Busy
    /\ UNCHANGED <<bus, wr, ebuf, ed, armed, mem>>

(* write_run in RESET or START with bytes left: copy the next chunk. *)
WriteRunCopy ==
    /\ pc = "run" /\ Connected
    /\ write_state # "WAIT"
    /\ Captured.act < Captured.req
    /\ ebuf' = Copied(Captured)
    /\ wr' = [Captured EXCEPT !.xfer = Chunk(Captured)]
    /\ write_state' = "WAIT"
    /\ pc' = "hw"
    /\ UNCHANGED <<bus, ed, armed, mem, cur, limit, tls, msgs>>

(* write_run in WAIT: on to the transfer that is already prepared. *)
WriteRunWait ==
    /\ pc = "run" /\ Connected
    /\ write_state = "WAIT"
    /\ pc' = "hw"
    /\ UNCHANGED <<bus, class, ed, armed, mem, cur, limit, tls, msgs>>

AfterChunkForgotten == "RESET"   \* mutant: progress is lost after a chunk

(* The state in which a finished chunk leaves the state machine. *)
AfterChunk == "START"

TransferDoneAssumed == TRUE   \* mutant: the DONE bit is not tested

(* The driver's test of the DONE bit. *)
TransferDone == ed.done

(* The controller driver, with interrupts off: start the transfer, or collect
   its result.  No outcome of it lets this call return NEXT: a finished chunk
   leaves the state machine in START for the next call to look at.         *)
TransferRun ==
    /\ pc = "hw"
    /\ \/ /\ dev = "RESET"
          /\ write_state' = "RESET"
          /\ UNCHANGED <<wr, ed, armed>>
       \/ /\ dev # "RESET" /\ ed.transfer /\ TransferDone
          /\ ed' = [transfer |-> FALSE, done |-> FALSE]
          /\ wr' = [wr EXCEPT !.act = @ + wr.xfer]
          /\ write_state' = AfterChunk
          /\ UNCHANGED armed
       \/ /\ dev # "RESET" /\ ed.transfer /\ ~TransferDone
          /\ UNCHANGED <<write_state, wr, ed, armed>>
       \/ /\ dev # "RESET" /\ ~ed.transfer
          /\ ed' = [ed EXCEPT !.transfer = TRUE]
          /\ armed' = Connected
          /\ UNCHANGED <<write_state, wr>>
    /\ Busy
    /\ UNCHANGED <<bus, ebuf, mem>>

-----------------------------------------------------------------------------
(* HAL_PCD_DataInStageCallback: the host has collected the packet. *)
DataInStage ==
    /\ armed
    /\ armed' = FALSE
    /\ host' = [host EXCEPT ![Len(host)] = @ \o ebuf]
    /\ ed' = [ed EXCEPT !.done = TRUE]
    /\ UNCHANGED <<dev, enum, class, mem, client>>

(* _ux_device_stack_disconnect: only a configured device has endpoints to
   destroy; their status words are cleared, the class state is kept.       *)
StackDisconnect ==
    /\ ed' = IF Connected THEN [transfer |-> FALSE, done |-> FALSE] ELSE ed
    /\ armed' = FALSE

(* HAL_PCD_ResetCallback: the host resets the bus and will enumerate. *)
UsbReset ==
    /\ Len(host) < MaxSessions
    /\ StackDisconnect
    /\ dev' = "ATTACHED"
    /\ enum' = EnumPolls
    /\ UNCHANGED <<class, mem, client, host>>

(* HAL_PCD_DisconnectCallback: the cable is unplugged. *)
UsbDisconnect ==
    /\ dev # "RESET"
    /\ StackDisconnect
    /\ dev' = "RESET"
    /\ enum' = 0
    /\ UNCHANGED <<class, mem, client, host>>

-----------------------------------------------------------------------------
MainStep ==
    \/ Poll \/ EmbedSend \/ EmbedPoll \/ TlsPoll \/ WolfFree
    \/ \E n \in Lens : SendData(n)
    \/ \E k \in {"record", "write"}, n \in Lens : StartRecord(k, n)
    \/ CdcAcmTx
    \/ WriteRunDown \/ WriteRunDone \/ WriteRunCopy \/ WriteRunWait
    \/ TransferRun

Interrupt == DataInStage \/ UsbReset \/ UsbDisconnect

Next == MainStep \/ Interrupt

Spec == Init /\ [][Next]_vars

(* The processor runs: some step of the main loop is always taken in the end. *)
RunningSpec == Spec /\ WF_vars(MainStep)

-----------------------------------------------------------------------------
TypeOK ==
    /\ dev \in {"RESET", "ATTACHED", "CONFIGURED"}
    /\ enum \in 0 .. EnumPolls
    /\ write_state \in {"RESET", "START", "WAIT"}
    /\ wr \in Transfer
    /\ ed \in Status
    /\ armed \in BOOLEAN
    /\ ebuf \in Seq(Units)
    /\ mem \in [Areas -> [Lens -> 0 .. MaxMsgs]]
    /\ pc \in {"idle", "enter", "run", "hw", "tlswait", "embed", "embedpoll"}
    /\ cur \in 0 .. Len(msgs)
    /\ pc # "idle" => cur # 0
    /\ limit \in 0 .. RetryNum
    /\ tls \in 0 .. Len(msgs)
    /\ msgs \in Seq(Message)
    /\ Len(msgs) <= MaxMsgs
    /\ host \in Seq(Seq(Units))

(* Session s holds all of message m in one piece, from position p on. *)
WholeAt(m, s, p) ==
    /\ p + Len_(m) - 1 <= Len(host[s])
    /\ \A k \in 1 .. Len_(m) : host[s][p + k - 1] = <<m, k>>

Delivered(m) ==
    \E s \in DOMAIN host : \E p \in DOMAIN host[s] : WholeAt(m, s, p)

(* Positions in session s where message m begins. *)
Beginnings(m, s) == {p \in DOMAIN host[s] : host[s][p] = <<m, 1>>}

(* Another message of m's length was left in the state machine: given up or
   cut by a reset, or a record that waited when m was sent.                *)
LeftBehind(m) ==
    \E j \in DOMAIN msgs \ {m} :
        /\ Len_(j) = Len_(m)
        /\ \/ msgs[j].outcome \in {"gaveup", "reset"}
           \/ Kind(j) = "record" /\ Kind(m) = "console" /\ j < m

(* A sender is told OK for a message the host did not get in one piece only
   when a message of the same length was left behind in the state machine
   before: the length is all that ux_device_cdc_acm_tx compares.           *)
ReportedIsDelivered ==
    \A m \in DOMAIN msgs :
        msgs[m].outcome = "ok" => LeftBehind(m) \/ Delivered(m)

(* A console message begins at most once in a session, whatever its sender was
   told: the retries of _usb_send_data resume the transfer, they do not start it
   again.                                                                  *)
ConsoleOnce ==
    \A m \in DOMAIN msgs : \A s \in DOMAIN host :
        Kind(m) = "console" => \A p, q \in Beginnings(m, s) : p = q

(* A TLS record reaches the host twice in a session only if a console message
   was sent through the state machine while the record was waiting: nothing
   else makes the retry of EmbedSend find the state machine in RESET.      *)
RecordTwiceNeedsConsole ==
    \A m \in DOMAIN msgs : \A s \in DOMAIN host :
        /\ Kind(m) = "record"
        /\ \E p, q \in Beginnings(m, s) : p # q
        => \E j \in m + 1 .. Len(msgs) :
               Kind(j) = "console" /\ msgs[j].outcome # "skipped"

(* Within a session the console goes back to an earlier message only for the tail
   of one that was given up, or printed with nobody connected: a transfer left in
   the state machine is resumed by the next message from the same stdio buffer,
   and shows the old text wherever the new one was too short to replace it.  *)
ConsoleInOrder ==
    LET console(u) == u[1] # 0 /\ Kind(u[1]) = "console"
    IN  \A s \in DOMAIN host : \A q \in DOMAIN host[s] : \A p \in 1 .. q - 1 :
            LET a == host[s][p]  b == host[s][q]
            IN  console(a) /\ console(b) /\ b[1] < a[1] =>
                    /\ b[2] > Len_(a[1])
                    /\ msgs[b[1]].outcome \in {"gaveup", "skipped"}

(* The state machine may hold a pointer into a buffer wolfSSL has freed, but
   only for a record that a reset cut: the host's first session never shows
   bytes of freed memory.                                                  *)
FreedOnlyAfterReconnect ==
    \A s \in DOMAIN host : \A p \in DOMAIN host[s] :
        host[s][p][1] = 0 => s > 1

(* While the controller holds a packet, its transfer is the one the state
   machine waits for: nothing is started over a packet in flight.          *)
BufferOwned ==
    /\ armed => /\ dev = "CONFIGURED"
                /\ ed = [transfer |-> TRUE, done |-> FALSE]
                /\ write_state = "WAIT"
    /\ pc = "hw" => write_state = "WAIT"
    /\ ed.done => ed.transfer

(* The state machine's account of its transfer: what it sent and what it is
   sending never exceed what it was asked for.                             *)
TransferBounded ==
    /\ wr.act <= wr.req
    /\ write_state = "WAIT" => wr.act + wr.xfer <= wr.req

(* The inductive invariant: neither BufferOwned nor the type of wr is inductive
   alone; the chunk that is added to wr.act when the driver reports it done is the
   one that TransferBounded bounded when it was copied (write_run.c:218-319).  *)
IInv == TypeOK /\ BufferOwned /\ TransferBounded

(* The endpoint buffer is never rewritten while the host may still fetch it. *)
NoOverwriteInFlight == [][ebuf' # ebuf => ~armed]_vars

(* A call of the main loop for the console always comes back, with whatever
   host, or none: 100 attempts bound it.                                   *)
ConsoleReturns ==
    \A m \in Ids :
        (cur = m /\ Kind(m) = "console") ~> (cur # m)

(* A record that wolfSSL_connect retries is taken or refused in the end, if the
   host collects the packets it is offered and configures the device once.  *)
RecordSettles ==
    (WF_vars(DataInStage) /\ [](Len(host) <= 1)) =>
        \A m \in Ids :
            (m \in DOMAIN msgs /\ msgs[m].outcome = "open")
                ~> (m \in DOMAIN msgs /\ msgs[m].outcome # "open")

-----------------------------------------------------------------------------
(* What the documents promise and the code does not keep. *)

(* API.md: every command is finished with its answer.  An answer that
   usb_cdc_tx reported as sent has reached the host.                       *)
AnswerArrives ==
    \A m \in DOMAIN msgs :
        Kind(m) = "console" /\ msgs[m].outcome = "ok" => Delivered(m)

(* ux_dcd_stm32_transfer_run.c takes the TRANSFER bit for a transfer in
   progress: then the controller holds its packet, or has finished it.     *)
TransferMeansInProgress ==
    Connected /\ ed.transfer => armed \/ ed.done
=============================================================================

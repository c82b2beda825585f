---------------------------- MODULE CdcTxProofs ----------------------------
(***************************************************************************)
(* Safety of the transmit path, for every number and length of messages,   *)
(* every endpoint buffer, and any number of resets and reconnections.      *)
(***************************************************************************)
EXTENDS CdcTx, TLAPS

(* One element of a sequence replaced, if the sequence has it at all. *)
LEMMA UpdateType ==
    ASSUME NEW S, NEW q \in Seq(S), NEW i, NEW v, i \in DOMAIN q => v \in S
    PROVE  [q EXCEPT ![i] = v] \in Seq(S)
<1> DEFINE r == [q EXCEPT ![i] = v]
<1>1. Len(q) \in Nat /\ DOMAIN q = 1 .. Len(q) /\ \A j \in 1 .. Len(q) : q[j] \in S
  OBVIOUS
<1>2. r = [j \in 1 .. Len(q) |-> IF j = i THEN v ELSE q[j]]
  BY <1>1
<1>3. \A j \in 1 .. Len(q) : (IF j = i THEN v ELSE q[j]) \in S
  BY <1>1
<1>4. r \in [1 .. Len(q) -> S]
  BY <1>2, <1>3
<1> HIDE DEF r
<1>5. r \in Seq(S)
  BY <1>1, <1>4
<1>6. QED
  BY <1>5 DEF r

(* The transmit path starts with nothing captured and nothing in the controller. *)
LEMMA InitIInv == Init => IInv
<1> SUFFICES ASSUME Init PROVE IInv
  OBVIOUS
<1> USE CdcTxAssumption DEF Init
<1>1. mem \in [Areas -> [Lens -> 0 .. MaxMsgs]]
  <2>1. 0 \in 0 .. MaxMsgs
    OBVIOUS
  <2>2. [o \in Lens |-> 0] \in [Lens -> 0 .. MaxMsgs]
    BY <2>1
  <2>3. QED
    BY <2>2
<1>2. /\ ebuf \in Seq(Units)
      /\ msgs \in Seq(Message)
      /\ host \in Seq(Seq(Units))
      /\ Len(msgs) = 0
  OBVIOUS
<1>3. wr \in Transfer /\ ed \in Status
  BY DEF Transfer, Areas, Status
<1>4. TypeOK
  <2>1. /\ dev \in {"RESET", "ATTACHED", "CONFIGURED"}
        /\ write_state \in {"RESET", "START", "WAIT"}
        /\ pc \in {"idle", "enter", "run", "hw", "tlswait", "embed", "embedpoll"}
        /\ pc # "idle" => cur # 0
        /\ armed \in BOOLEAN
    OBVIOUS
  <2>2. /\ enum \in 0 .. EnumPolls /\ limit \in 0 .. RetryNum
        /\ cur \in 0 .. Len(msgs) /\ tls \in 0 .. Len(msgs)
        /\ Len(msgs) <= MaxMsgs
    BY <1>2
  <2>3. QED
    BY <1>1, <1>2, <1>3, <2>1, <2>2, Zenon DEF TypeOK
<1>5. BufferOwned /\ TransferBounded
  BY DEF BufferOwned, TransferBounded
<1>6. QED
  BY <1>4, <1>5 DEF IInv

-----------------------------------------------------------------------------
(* What an action that only moves the client's variables must show. *)
ClientOK ==
    /\ msgs \in Seq(Message)
    /\ Len(msgs) <= MaxMsgs
    /\ cur \in 0 .. Len(msgs)
    /\ tls \in 0 .. Len(msgs)
    /\ pc \in {"idle", "enter", "run", "hw", "tlswait", "embed", "embedpoll"}
    /\ pc # "idle" => cur # 0
    /\ limit \in 0 .. RetryNum

(* Telling a client the outcome of its call keeps the client well-formed. *)
LEMMA SettleType ==
    ASSUME ClientOK, cur # 0, NEW o \in Outcomes, Settle(o)
    PROVE  ClientOK' /\ pc' # "hw"
<1>1. cur \in DOMAIN msgs
  BY DEF ClientOK
<1>2. msgs[cur] \in Message
  BY <1>1 DEF ClientOK
<1>3. [msgs[cur] EXCEPT !.outcome = o] \in Message
  BY <1>2 DEF Message
<1>4. msgs' \in Seq(Message) /\ Len(msgs') = Len(msgs)
  BY <1>1, <1>3 DEF ClientOK, Settle
<1>5. QED
  BY <1>4, CdcTxAssumption DEF ClientOK, Settle

(* So does a busy endpoint: a retry, a wait, or giving up. *)
LEMMA BusyType ==
    ASSUME ClientOK, cur # 0, Busy
    PROVE  ClientOK' /\ pc' # "hw"
<1>1. CASE Kind(cur) = "console" /\ limit > 1
  BY <1>1, CdcTxAssumption DEF Busy, ClientOK
<1>2. CASE Kind(cur) = "record"
  BY <1>2 DEF Busy, ClientOK
<1>3. CASE ~(Kind(cur) = "console" /\ limit > 1) /\ Kind(cur) # "record"
  <2>1. Settle("gaveup")
    BY <1>3 DEF Busy
  <2>2. QED
    BY <2>1, SettleType DEF Outcomes
<1>4. QED
  BY <1>1, <1>2, <1>3

(* The other half of the type invariant: the class, the driver, the bus. *)
DeviceOK ==
    /\ dev \in {"RESET", "ATTACHED", "CONFIGURED"}
    /\ enum \in 0 .. EnumPolls
    /\ write_state \in {"RESET", "START", "WAIT"}
    /\ wr \in Transfer
    /\ ed \in Status
    /\ armed \in BOOLEAN
    /\ ebuf \in Seq(Units)
    /\ mem \in [Areas -> [Lens -> 0 .. MaxMsgs]]
    /\ host \in Seq(Seq(Units))

(* The types of the device's side and of the callers'. *)
LEMMA Halves == TypeOK <=> DeviceOK /\ ClientOK
BY Zenon DEF TypeOK, DeviceOK, ClientOK

(* A pass of the USB stack may configure the device, which starts a session;
   it never takes a configured device anywhere.                            *)
LEMMA DeviceTaskType ==
    ASSUME DeviceOK, DeviceTask
    PROVE  /\ dev' \in {"RESET", "ATTACHED", "CONFIGURED"}
           /\ enum' \in 0 .. EnumPolls
           /\ host' \in Seq(Seq(Units))
           /\ dev = "CONFIGURED" => dev' = "CONFIGURED"
<1>1. <<>> \in Seq(Units)
  OBVIOUS
<1>2. Append(host, <<>>) \in Seq(Seq(Units))
  BY <1>1 DEF DeviceOK
<1>3. CASE dev = "ATTACHED" /\ enum > 1 /\ enum' = enum - 1 /\ UNCHANGED <<dev, host>>
  BY <1>3, CdcTxAssumption DEF DeviceOK
<1>4. CASE dev = "ATTACHED" /\ dev' = "CONFIGURED" /\ enum' = 0
           /\ host' = Append(host, <<>>)
  BY <1>2, <1>4, CdcTxAssumption DEF DeviceOK
<1>5. CASE UNCHANGED bus
  BY <1>5 DEF DeviceOK, bus
<1>6. QED
  BY <1>3, <1>4, <1>5 DEF DeviceTask

(* The caller's buffer of a new message is again a buffer of known bytes. *)
LEMMA FilledType ==
    ASSUME DeviceOK, NEW a \in Areas, NEW m \in 0 .. MaxMsgs, NEW n \in Lens
    PROVE  Filled(a, m, n) \in [Areas -> [Lens -> 0 .. MaxMsgs]]
<1>1. mem[a] \in [Lens -> 0 .. MaxMsgs]
  BY DEF DeviceOK
<1>2. [o \in Lens |-> IF o <= n THEN m ELSE mem[a][o]] \in [Lens -> 0 .. MaxMsgs]
  BY <1>1
<1>3. QED
  BY <1>2 DEF Filled, DeviceOK

(* The transfer a call works on is one a caller asked for, and fits it. *)
LEMMA CapturedType ==
    ASSUME IInv, pc = "run", write_state # "WAIT"
    PROVE  Captured \in Transfer /\ Captured.act <= Captured.req
<1>1. CASE write_state = "RESET"
  <2>1. cur \in DOMAIN msgs
    BY DEF IInv, TypeOK
  <2>2. msgs[cur] \in Message
    BY <2>1 DEF IInv, TypeOK
  <2>3. Len_(cur) \in 0 .. MaxLen /\ Area(cur) \in Areas
    BY <2>2 DEF Message, Lens, Len_, Area, Areas
  <2>4. QED
    BY <1>1, <2>3, CdcTxAssumption DEF Captured, Transfer
<1>2. CASE write_state # "RESET"
  BY <1>2 DEF Captured, IInv, TypeOK, TransferBounded
<1>3. QED
  BY <1>1, <1>2

(* A chunk is never empty when something remains, never exceeds the endpoint
   buffer and never runs past the end of the message.                      *)
LEMMA ChunkFits ==
    ASSUME NEW w \in Transfer, w.act < w.req
    PROVE  /\ Chunk(w) \in 1 .. BufSize
           /\ Chunk(w) \in 0 .. MaxLen
           /\ w.act + Chunk(w) <= w.req
           /\ w.act + Chunk(w) <= MaxLen
BY CdcTxAssumption DEF Transfer, Chunk

(* What write_run copies into the endpoint buffer is a packet. *)
LEMMA CopiedType ==
    ASSUME DeviceOK, NEW w \in Transfer, w.act < w.req
    PROVE  Copied(w) \in Seq(Units)
<1>1. Chunk(w) \in Nat
  BY ChunkFits, CdcTxAssumption
<1>2. \A k \in 1 .. Chunk(w) : w.act + k \in Lens
  BY ChunkFits, CdcTxAssumption DEF Transfer, Lens
<1>3. mem[w.area] \in [Lens -> 0 .. MaxMsgs]
  BY DEF DeviceOK, Transfer
<1>4. \A k \in 1 .. Chunk(w) : <<mem[w.area][w.act + k], w.act + k>> \in Units
  BY <1>2, <1>3 DEF Units
<1>5. QED
  BY <1>1, <1>4 DEF Copied

-----------------------------------------------------------------------------
(* Every step of the program, the driver and the interrupts keeps it. *)
LEMMA NextIInv == IInv /\ [Next]_vars => IInv'
<1> SUFFICES ASSUME IInv, [Next]_vars PROVE IInv'
  OBVIOUS
<1>0. DeviceOK /\ ClientOK /\ BufferOwned /\ TransferBounded
  BY Halves DEF IInv
<1>q. ASSUME DeviceOK', ClientOK', BufferOwned', TransferBounded'
      PROVE  IInv'
  BY <1>q DEF IInv, TypeOK, DeviceOK, ClientOK
<1>1. CASE Poll
  BY <1>0, <1>1, <1>q, DeviceTaskType
  DEF Poll, DeviceOK, ClientOK, BufferOwned, TransferBounded, client, class
<1>2. CASE EmbedSend
  <2>1. ClientOK'
    <3>1. CASE Connected
      BY <1>0, <1>2, <3>1 DEF EmbedSend, ClientOK
    <3>2. CASE ~Connected
      <4>1. cur \in DOMAIN msgs /\ msgs[cur] \in Message
        BY <1>0, <1>2 DEF ClientOK, EmbedSend
      <4>2. [msgs[cur] EXCEPT !.outcome = "reset"] \in Message
        BY <4>1 DEF Message, Outcomes
      <4>3. QED
        BY <1>0, <1>2, <3>2, <4>1, <4>2 DEF EmbedSend, ClientOK
    <3>3. QED
      BY <3>1, <3>2
  <2>2. pc' # "hw"
    BY <1>2 DEF EmbedSend
  <2>3. QED
    BY <1>0, <1>2, <1>q, <2>1, <2>2
    DEF EmbedSend, DeviceOK, BufferOwned, TransferBounded, bus, class
<1>3. CASE EmbedPoll
  BY <1>0, <1>3, <1>q, DeviceTaskType
  DEF EmbedPoll, DeviceOK, ClientOK, BufferOwned, TransferBounded, class
<1>4. CASE TlsPoll
  BY <1>0, <1>4, <1>q, DeviceTaskType
  DEF TlsPoll, DeviceOK, ClientOK, BufferOwned, TransferBounded, class
<1>5. CASE WolfFree
  <2>1. [o \in Lens |-> 0] \in [Lens -> 0 .. MaxMsgs]
    BY CdcTxAssumption
  <2>2. mem' \in [Areas -> [Lens -> 0 .. MaxMsgs]]
    BY <1>0, <1>5, <2>1 DEF WolfFree, DeviceOK
  <2>3. QED
    BY <1>0, <1>5, <1>q, <2>2
    DEF WolfFree, DeviceOK, ClientOK, BufferOwned, TransferBounded, bus, class,
        client
<1>6. ASSUME NEW n \in Lens, SendData(n) PROVE IInv'
  <2> DEFINE m == Len(msgs) + 1
             rec(o) == [kind |-> "console", len |-> n, outcome |-> o]
  <2>1. m \in 0 .. MaxMsgs
    BY <1>0, <1>6, CdcTxAssumption DEF SendData, ClientOK
  <2>2. mem' \in [Areas -> [Lens -> 0 .. MaxMsgs]]
    BY <1>0, <1>6, <2>1, FilledType DEF SendData, Areas
  <2>3. rec("open") \in Message /\ rec("skipped") \in Message
    BY DEF Message, Kinds, Outcomes
  <2>4. ClientOK' /\ pc' # "hw"
    <3>1. CASE Connected
      <4>1. msgs' = Append(msgs, rec("open")) /\ cur' = m /\ limit' = RetryNum
            /\ pc' = "enter" /\ tls' = tls
        BY <1>6, <3>1 DEF SendData
      <4>2. msgs' \in Seq(Message) /\ Len(msgs') = m
        BY <1>0, <2>3, <4>1 DEF ClientOK
      <4>3. QED
        BY <1>0, <2>1, <4>1, <4>2, CdcTxAssumption DEF ClientOK
    <3>2. CASE ~Connected
      BY <1>0, <1>6, <2>1, <2>3, <3>2, SMTT(30) DEF SendData, ClientOK
    <3>3. QED
      BY <3>1, <3>2
  <2>5. QED
    BY <1>0, <1>6, <1>q, <2>2, <2>4
    DEF SendData, DeviceOK, BufferOwned, TransferBounded, bus, class
<1>7. ASSUME NEW k \in {"record", "write"}, NEW n \in Lens, StartRecord(k, n)
      PROVE  IInv'
  <2> DEFINE m == Len(msgs) + 1
  <2>1. m \in 0 .. MaxMsgs
    BY <1>0, <1>7, CdcTxAssumption DEF StartRecord, ClientOK
  <2>2. mem' \in [Areas -> [Lens -> 0 .. MaxMsgs]]
    BY <1>0, <1>7, <2>1, FilledType DEF StartRecord, Areas
  <2>3. [kind |-> k, len |-> n, outcome |-> "open"] \in Message
    BY DEF Message, Kinds, Outcomes
  <2>4. ClientOK' /\ pc' # "hw"
    BY <1>0, <1>7, <2>1, <2>3 DEF StartRecord, ClientOK
  <2>5. QED
    BY <1>0, <1>7, <1>q, <2>2, <2>4
    DEF StartRecord, DeviceOK, BufferOwned, TransferBounded, bus, class
<1>8. CASE CdcAcmTx
  <2>1. ClientOK' /\ pc' # "hw"
    <3>1. CASE Connected
      BY <1>0, <1>8, <3>1 DEF CdcAcmTx, ClientOK
    <3>2. CASE ~Connected
      BY <1>0, <1>8, <3>2, BusyType DEF CdcAcmTx, ClientOK
    <3>3. QED
      BY <3>1, <3>2
  <2>2. QED
    BY <1>0, <1>8, <1>q, <2>1
    DEF CdcAcmTx, DeviceOK, BufferOwned, TransferBounded, bus, class
<1>9. CASE WriteRunDown
  <2>1. ClientOK' /\ pc' # "hw"
    BY <1>0, <1>9, BusyType DEF WriteRunDown, ClientOK
  <2>2. ~armed
    BY <1>0, <1>9 DEF WriteRunDown, BufferOwned, Connected
  <2>3. QED
    BY <1>0, <1>9, <1>q, <2>1, <2>2
    DEF WriteRunDown, DeviceOK, BufferOwned, TransferBounded, bus
<1>10. CASE WriteRunDone
  <2>1. ClientOK' /\ pc' # "hw"
    <3>1. CASE wr.act = Len_(cur)
      BY <1>0, <1>10, <3>1, SettleType DEF WriteRunDone, ClientOK, Outcomes
    <3>2. CASE wr.act # Len_(cur)
      BY <1>0, <1>10, <3>2, BusyType DEF WriteRunDone, ClientOK
    <3>3. QED
      BY <3>1, <3>2
  <2>2. ~armed
    BY <1>0, <1>10 DEF WriteRunDone, BufferOwned
  <2>3. QED
    BY <1>0, <1>10, <1>q, <2>1, <2>2
    DEF WriteRunDone, DeviceOK, BufferOwned, TransferBounded, bus
<1>11. CASE WriteRunCopy
  <2>1. /\ Captured \in Transfer
        /\ Captured.act < Captured.req
    BY <1>11, CapturedType DEF WriteRunCopy
  <2>2. ebuf' \in Seq(Units)
    BY <1>0, <1>11, <2>1, CopiedType DEF WriteRunCopy
  <2>3. /\ wr' \in Transfer
        /\ wr'.act <= wr'.req
        /\ wr'.act + wr'.xfer <= wr'.req
    <3>1. /\ Chunk(Captured) \in 0 .. MaxLen
          /\ Captured.act + Chunk(Captured) <= Captured.req
      BY <2>1, ChunkFits
    <3>2. wr' = [Captured EXCEPT !.xfer = Chunk(Captured)]
      BY <1>11 DEF WriteRunCopy
    <3>3. QED
      BY <2>1, <3>1, <3>2 DEF Transfer
  <2>4. ~armed
    BY <1>0, <1>11 DEF WriteRunCopy, BufferOwned
  <2>5. QED
    BY <1>0, <1>11, <1>q, <2>2, <2>3, <2>4
    DEF WriteRunCopy, DeviceOK, ClientOK, BufferOwned, TransferBounded, bus
<1>12. CASE WriteRunWait
  BY <1>0, <1>12, <1>q
  DEF WriteRunWait, DeviceOK, ClientOK, BufferOwned, TransferBounded, bus, class
<1>13. CASE TransferRun
  <2>1. ClientOK' /\ pc' # "hw"
    BY <1>0, <1>13, BusyType DEF TransferRun, ClientOK
  <2>2. write_state = "WAIT"
    BY <1>0, <1>13 DEF TransferRun, BufferOwned
  <2>3. CASE /\ dev = "RESET"
             /\ write_state' = "RESET"
             /\ UNCHANGED <<wr, ed, armed>>
    BY <1>0, <1>13, <1>q, <2>1, <2>3
    DEF TransferRun, DeviceOK, BufferOwned, TransferBounded, bus
  <2>4. CASE /\ dev # "RESET" /\ ed.transfer /\ TransferDone
             /\ ed' = [transfer |-> FALSE, done |-> FALSE]
             /\ wr' = [wr EXCEPT !.act = @ + wr.xfer]
             /\ write_state' = AfterChunk
             /\ UNCHANGED armed
    <3>1. wr' \in Transfer /\ wr'.act <= wr'.req
      <4>1. wr.act + wr.xfer <= wr.req
        BY <1>0, <2>2 DEF TransferBounded
      <4>2. wr.act + wr.xfer \in 0 .. MaxLen
        BY <1>0, <4>1, CdcTxAssumption DEF DeviceOK, Transfer
      <4>3. QED
        BY <1>0, <2>4, <4>1, <4>2 DEF DeviceOK, Transfer
    <3>2. ~armed
      BY <1>0, <2>4 DEF BufferOwned, TransferDone
    <3>3. ed' \in Status /\ ~ed'.done
      BY <2>4 DEF Status
    <3>4. QED
      BY <1>0, <1>13, <1>q, <2>1, <2>4, <3>1, <3>2, <3>3
      DEF TransferRun, DeviceOK, BufferOwned, TransferBounded, bus, AfterChunk
  <2>5. CASE UNCHANGED <<write_state, wr, ed, armed>>
    BY <1>0, <1>13, <1>q, <2>1, <2>5
    DEF TransferRun, DeviceOK, BufferOwned, TransferBounded, bus
  <2>6. CASE /\ dev # "RESET" /\ ~ed.transfer
             /\ ed' = [ed EXCEPT !.transfer = TRUE]
             /\ armed' = Connected
             /\ UNCHANGED <<write_state, wr>>
    <3>1. ed' \in Status /\ ed'.transfer /\ ~ed'.done
      BY <1>0, <2>6 DEF DeviceOK, BufferOwned, Status
    <3>2. ed' = [transfer |-> TRUE, done |-> FALSE]
      BY <3>1 DEF Status
    <3>3. armed' \in BOOLEAN /\ (armed' => dev = "CONFIGURED")
      BY <2>6 DEF Connected
    <3>4. QED
      BY <1>0, <1>13, <1>q, <2>1, <2>2, <2>6, <3>1, <3>2, <3>3
      DEF TransferRun, DeviceOK, BufferOwned, TransferBounded, bus
  <2>7. QED
    BY <1>13, <2>3, <2>4, <2>5, <2>6 DEF TransferRun
<1>14. CASE DataInStage
  <2>1. host' \in Seq(Seq(Units))
    <3>1. host \in Seq(Seq(Units)) /\ ebuf \in Seq(Units)
      BY <1>0 DEF DeviceOK
    <3>2. Len(host) \in DOMAIN host => host[Len(host)] \in Seq(Units)
      BY <3>1
    <3>3. Len(host) \in DOMAIN host => host[Len(host)] \o ebuf \in Seq(Units)
      BY <3>1, <3>2
    <3>4. host' = [host EXCEPT ![Len(host)] = host[Len(host)] \o ebuf]
      BY <1>14 DEF DataInStage
    <3>5. QED
      BY <3>1, <3>3, <3>4, UpdateType
  <2>2. ed' \in Status /\ ed'.done /\ ed'.transfer
    <3>1. ed = [transfer |-> TRUE, done |-> FALSE] /\ ed' = [ed EXCEPT !.done = TRUE]
      BY <1>0, <1>14 DEF DataInStage, BufferOwned
    <3>2. ed' = [transfer |-> TRUE, done |-> TRUE]
      BY <3>1
    <3>3. QED
      BY <3>2 DEF Status
  <2>3. QED
    BY <1>0, <1>14, <1>q, <2>1, <2>2
    DEF DataInStage, DeviceOK, ClientOK, BufferOwned, TransferBounded, class,
        client
<1>15. ASSUME StackDisconnect
       PROVE  ed' \in Status /\ armed' = FALSE /\ (ed'.done => ed'.transfer)
  BY <1>0, <1>15 DEF StackDisconnect, DeviceOK, BufferOwned, Status
<1>16. CASE UsbReset
  BY <1>0, <1>15, <1>16, <1>q, CdcTxAssumption
  DEF UsbReset, DeviceOK, ClientOK, BufferOwned, TransferBounded, class, client
<1>17. CASE UsbDisconnect
  BY <1>0, <1>15, <1>17, <1>q, CdcTxAssumption
  DEF UsbDisconnect, DeviceOK, ClientOK, BufferOwned, TransferBounded, class,
      client
<1>18. CASE UNCHANGED vars
  BY <1>0, <1>18, <1>q
  DEF vars, DeviceOK, ClientOK, BufferOwned, TransferBounded
<1>19. QED
  BY <1>1, <1>2, <1>3, <1>4, <1>5, <1>6, <1>7, <1>8, <1>9, <1>10, <1>11,
     <1>12, <1>13, <1>14, <1>16, <1>17, <1>18
  DEF Next, MainStep, Interrupt

(* The types, who owns the packet in the controller, and the bounds of a transfer. *)
THEOREM Invariance == Spec => []IInv
BY InitIInv, NextIInv, PTL DEF Spec

(* The type invariant of the transmit path. *)
THEOREM TypeCorrect == Spec => []TypeOK
<1>1. IInv => TypeOK
  BY DEF IInv
<1>2. QED
  BY Invariance, <1>1, PTL

(* A packet in flight belongs to the transfer the state machine waits for,
   through every retry, nested caller, reset and reconnection.             *)
THEOREM PacketOwned == Spec => []BufferOwned
<1>1. IInv => BufferOwned
  BY DEF IInv
<1>2. QED
  BY Invariance, <1>1, PTL

(* The state machine never sends past the end of what it captured. *)
THEOREM NeverOverrun == Spec => []TransferBounded
<1>1. IInv => TransferBounded
  BY DEF IInv
<1>2. QED
  BY Invariance, <1>1, PTL

(* No step rewrites the endpoint buffer while the controller holds it. *)
THEOREM InFlightUntouched == Spec => NoOverwriteInFlight
<1>1. IInv /\ [Next]_vars => [ebuf' # ebuf => ~armed]_vars
  <2> SUFFICES ASSUME IInv, Next, ebuf' # ebuf PROVE ~armed
    BY DEF vars
  <2>1. WriteRunCopy
    BY DEF Next, MainStep, Interrupt, Poll, EmbedSend, EmbedPoll, TlsPoll,
           WolfFree, SendData, StartRecord, CdcAcmTx, WriteRunDown,
           WriteRunDone, WriteRunWait, TransferRun, DataInStage, UsbReset,
           UsbDisconnect, class
  <2>2. QED
    BY <2>1 DEF WriteRunCopy, IInv, BufferOwned
<1>2. QED
  BY Invariance, <1>1, PTL DEF Spec, NoOverwriteInFlight

-----------------------------------------------------------------------------
(* Histories.  Who is being served: a message is open exactly while it is the
   one usb_cdc_tx is called with, or the record wolfSSL waits to send; a console
   call may come between the retries of a record, and of a record only.     *)
CallersInv ==
    /\ pc = "idle" => cur = 0 /\ tls = 0
    /\ pc \in {"tlswait", "embed", "embedpoll"} => cur = tls
    /\ pc = "tlswait" => Kind(tls) = "record"
    /\ cur \in {0, tls} \/ (Kind(cur) = "console" /\ cur = Len(msgs))
    /\ tls # 0 => Kind(tls) # "console"
    /\ tls # 0 /\ cur # tls => Kind(tls) = "record"
    /\ \A m \in DOMAIN msgs : msgs[m].outcome = "open" <=> m \in {cur, tls}
    /\ \A m \in DOMAIN msgs : Kind(m) = "console" => msgs[m].outcome # "reset"
    /\ \A m \in DOMAIN msgs : Kind(m) = "write" => Len_(m) <= BufSize

(* What the callers' buffers hold: stdio's the latest console message long enough
   for the place, wolfSSL's the record that waits, or anything of its own.  *)
BuffersInv ==
    /\ \A o \in Lens : mem["stdio"][o] # 0 =>
           mem["stdio"][o] <= Len(msgs) /\ Kind(mem["stdio"][o]) = "console"
    /\ \A o \in Lens : mem["tls"][o] # 0 =>
           mem["tls"][o] <= Len(msgs) /\ Kind(mem["tls"][o]) # "console"
    /\ \A m \in DOMAIN msgs : Kind(m) = "console" =>
           \A o \in 1 .. Len_(m) : mem["stdio"][o] >= m
    /\ tls # 0 => \A o \in 1 .. Len_(tls) : mem["tls"][o] = tls

(* The shape of a transfer: the endpoint buffer is the chunk at wr.act, and a
   transfer that is under way has made progress.                            *)
ShapeInv ==
    /\ write_state = "START" => wr.act >= 1
    /\ write_state = "WAIT" =>
           /\ Len(ebuf) = wr.xfer
           /\ wr.xfer >= 1
           /\ \A k \in 1 .. wr.xfer : ebuf[k][2] = wr.act + k
    /\ ed.done => Connected /\ write_state = "WAIT"
    /\ Connected \/ write_state # "RESET" => Len(host) >= 1
    /\ \A k \in DOMAIN ebuf : ebuf[k][1] <= Len(msgs)
    /\ \A s \in DOMAIN host : \A p \in DOMAIN host[s] : host[s][p][1] <= Len(msgs)

HistoryInv == CallersInv /\ BuffersInv /\ ShapeInv

-----------------------------------------------------------------------------
(* What a step does for the callers: it leaves them where they are, with another
   place in their loops; it begins a message; or it tells the outcome of one. *)
Stays ==
    /\ UNCHANGED <<msgs, cur, tls>>
    /\ pc' = "idle" <=> pc = "idle"
    /\ pc' \in {"tlswait", "embed", "embedpoll"} =>
           pc \in {"tlswait", "embed", "embedpoll"} \/ Kind(cur) = "record"
    /\ pc' = "tlswait" => pc = "tlswait" \/ Kind(cur) = "record"

Prints(n) ==
    /\ pc \in {"idle", "tlswait"}
    /\ mem' = Filled("stdio", Len(msgs) + 1, n)
    /\ tls' = tls
    /\ \/ /\ msgs' = Append(msgs, [kind |-> "console", len |-> n, outcome |-> "open"])
          /\ cur' = Len(msgs) + 1
          /\ pc' = "enter"
       \/ /\ msgs' = Append(msgs, [kind |-> "console", len |-> n, outcome |-> "skipped"])
          /\ cur' = cur
          /\ pc' = pc

Ends(o) ==
    /\ cur # 0
    /\ msgs' = [msgs EXCEPT ![cur].outcome = o]
    /\ o \in {"ok", "gaveup", "reset"}
    /\ o = "ok" => WriteRunDone /\ wr.act = Len_(cur)
    /\ o = "gaveup" => Kind(cur) # "record"
    /\ o = "reset" => pc = "embed" /\ ~Connected
    /\ \/ /\ Kind(cur) = "console" /\ tls # 0
          /\ pc' = "tlswait" /\ cur' = tls /\ tls' = tls
       \/ /\ ~(Kind(cur) = "console" /\ tls # 0)
          /\ pc' = "idle" /\ cur' = 0 /\ tls' = 0

(* usb_cdc_tx ends a message when it has settled it, *)
LEMMA SettleMoves ==
    ASSUME cur # 0, NEW o \in {"ok", "gaveup"}, Settle(o),
           o = "ok" => WriteRunDone /\ wr.act = Len_(cur),
           o = "gaveup" => Kind(cur) # "record"
    PROVE  Ends(o)
BY Zenon DEF Settle, Ends

(* and otherwise keeps it, or gives it up when the attempts are used up. *)
LEMMA BusyMoves ==
    ASSUME ClientOK, pc \in {"enter", "run", "hw"}, Busy
    PROVE  Stays \/ Ends("gaveup")
<1>0. cur # 0
  BY DEF ClientOK
<1>1. CASE Kind(cur) = "console" /\ limit > 1
  BY <1>1 DEF Busy, Stays
<1>2. CASE Kind(cur) = "record"
  BY <1>2 DEF Busy, Stays
<1>3. CASE ~(Kind(cur) = "console" /\ limit > 1) /\ Kind(cur) # "record"
  <2>1. Settle("gaveup")
    BY <1>3 DEF Busy
  <2>2. QED
    BY <1>0, <1>3, <2>1, SettleMoves
<1>4. QED
  BY <1>1, <1>2, <1>3

(* Every step is one of these for the callers; their buffers change when a message
   begins, and when cleanup frees wolfSSL's.                                *)
LEMMA CallerMoves ==
    ASSUME IInv, CallersInv, [Next]_vars
    PROVE  \/ Stays /\ mem' = mem
           \/ Stays /\ WolfFree
           \/ \E n \in Lens : Prints(n)
           \/ \E k \in {"record", "write"}, n \in Lens : StartRecord(k, n)
           \/ \E o \in {"ok", "gaveup", "reset"} : Ends(o) /\ mem' = mem
<1>0. ClientOK /\ (pc # "idle" => cur # 0)
  BY Halves DEF IInv, ClientOK
<1>1. CASE Poll \/ EmbedPoll \/ TlsPoll \/ WriteRunCopy \/ WriteRunWait
  BY <1>1 DEF Poll, EmbedPoll, TlsPoll, WriteRunCopy, WriteRunWait, Stays, client
<1>2. CASE EmbedSend
  <2>1. ~(Kind(cur) = "console" /\ tls # 0)
    BY <1>2 DEF EmbedSend, CallersInv
  <2>2. CASE Connected
    BY <1>2, <2>2 DEF EmbedSend, Stays
  <2>3. CASE ~Connected
    BY <1>0, <1>2, <2>1, <2>3 DEF EmbedSend, Ends
  <2>4. QED
    BY <2>2, <2>3
<1>3. CASE WolfFree
  BY <1>3 DEF WolfFree, Stays, client
<1>4. ASSUME NEW n \in Lens, SendData(n) PROVE Prints(n)
  BY <1>4 DEF SendData, Prints
<1>5. CASE CdcAcmTx
  <2>1. CASE Connected
    BY <1>5, <2>1 DEF CdcAcmTx, Stays
  <2>2. CASE ~Connected
    BY <1>0, <1>5, <2>2, BusyMoves DEF CdcAcmTx
  <2>3. QED
    BY <2>1, <2>2
<1>6. CASE WriteRunDown
  BY <1>0, <1>6, BusyMoves DEF WriteRunDown
<1>7. CASE WriteRunDone
  <2>1. CASE wr.act = Len_(cur)
    <3>1. Settle("ok") /\ cur # 0 /\ mem' = mem
      BY <1>0, <1>7, <2>1 DEF WriteRunDone
    <3>2. QED
      BY <1>7, <2>1, <3>1, SettleMoves
  <2>2. CASE wr.act # Len_(cur)
    BY <1>0, <1>7, <2>2, BusyMoves DEF WriteRunDone
  <2>3. QED
    BY <2>1, <2>2
<1>8. CASE TransferRun
  BY <1>0, <1>8, BusyMoves DEF TransferRun
<1>9. CASE DataInStage \/ UsbReset \/ UsbDisconnect \/ UNCHANGED vars
  BY <1>9 DEF DataInStage, UsbReset, UsbDisconnect, vars, client, Stays
<1>10. QED
  BY <1>1, <1>2, <1>3, <1>4, <1>5, <1>6, <1>7, <1>8, <1>9
  DEF Next, MainStep, Interrupt

(* A message that ends gets its outcome, and the others keep theirs. *)
LEMMA EndsMsgs ==
    ASSUME ClientOK, NEW o, Ends(o)
    PROVE  /\ cur \in DOMAIN msgs
           /\ DOMAIN msgs' = DOMAIN msgs
           /\ Len(msgs') = Len(msgs)
           /\ \A m \in DOMAIN msgs :
                  /\ msgs'[m].kind = msgs[m].kind
                  /\ msgs'[m].len = msgs[m].len
                  /\ msgs'[m].outcome = IF m = cur THEN o ELSE msgs[m].outcome
<1>1. /\ cur \in DOMAIN msgs
      /\ \A m \in DOMAIN msgs : msgs[m] \in Message
  BY DEF ClientOK, Ends
<1>2. msgs' = [msgs EXCEPT ![cur] = [msgs[cur] EXCEPT !.outcome = o]]
  BY DEF Ends
<1>3. DOMAIN msgs' = DOMAIN msgs /\ Len(msgs') = Len(msgs)
  BY <1>2 DEF ClientOK
<1>4. \A m \in DOMAIN msgs :
          msgs'[m] = IF m = cur THEN [msgs[cur] EXCEPT !.outcome = o] ELSE msgs[m]
  BY <1>1, <1>2
<1>5. ASSUME NEW r \in Message
      PROVE  /\ [r EXCEPT !.outcome = o].kind = r.kind
             /\ [r EXCEPT !.outcome = o].len = r.len
             /\ [r EXCEPT !.outcome = o].outcome = o
  BY DEF Message
<1>6. QED
  BY <1>1, <1>3, <1>4, <1>5, ZenonT(30)

(* A new message is behind those there have been. *)
LEMMA AppendMsgs ==
    ASSUME ClientOK, NEW r, msgs' = Append(msgs, r)
    PROVE  /\ Len(msgs) \in Nat
           /\ Len(msgs') = Len(msgs) + 1
           /\ DOMAIN msgs = 1 .. Len(msgs)
           /\ DOMAIN msgs' = 1 .. Len(msgs) + 1
           /\ \A m \in DOMAIN msgs : msgs'[m] = msgs[m]
           /\ msgs'[Len(msgs) + 1] = r
BY DEF ClientOK

(* No step changes what a message is, or what its sender has been told. *)
LEMMA MsgsGrow ==
    ASSUME IInv, CallersInv, [Next]_vars
    PROVE  /\ Len(msgs) \in Nat /\ Len(msgs') \in Nat
           /\ Len(msgs) <= Len(msgs')
           /\ DOMAIN msgs = 1 .. Len(msgs) /\ DOMAIN msgs' = 1 .. Len(msgs')
           /\ \A m \in DOMAIN msgs :
                  /\ msgs'[m].kind = msgs[m].kind
                  /\ msgs'[m].len = msgs[m].len
                  /\ \/ msgs'[m].outcome = msgs[m].outcome
                     \/ /\ m = cur /\ cur # 0
                        /\ msgs[m].outcome = "open"
                        /\ \/ msgs'[m].outcome \in {"ok", "gaveup"}
                           \/ msgs'[m].outcome = "reset" /\ cur = tls
<1>0. ClientOK
  BY Halves DEF IInv
<1>1. Len(msgs) \in Nat /\ DOMAIN msgs = 1 .. Len(msgs)
  BY <1>0 DEF ClientOK
<1>2. CASE Stays
  BY <1>1, <1>2 DEF Stays
<1>3. ASSUME NEW n \in Lens, Prints(n)
      PROVE  \E r : msgs' = Append(msgs, r)
  BY <1>3 DEF Prints
<1>4. ASSUME NEW k, NEW n \in Lens, StartRecord(k, n)
      PROVE  \E r : msgs' = Append(msgs, r)
  BY <1>4 DEF StartRecord
<1>5. ASSUME NEW r, msgs' = Append(msgs, r)
      PROVE  /\ Len(msgs') = Len(msgs) + 1 /\ DOMAIN msgs' = 1 .. Len(msgs')
             /\ \A m \in DOMAIN msgs : msgs'[m] = msgs[m]
  BY <1>0, <1>5, AppendMsgs
<1>6. ASSUME NEW o \in {"ok", "gaveup", "reset"}, Ends(o)
      PROVE  /\ Len(msgs') = Len(msgs) /\ DOMAIN msgs' = DOMAIN msgs
             /\ cur # 0 /\ msgs[cur].outcome = "open"
             /\ o = "reset" => cur = tls
             /\ \A m \in DOMAIN msgs :
                    /\ msgs'[m].kind = msgs[m].kind
                    /\ msgs'[m].len = msgs[m].len
                    /\ msgs'[m].outcome = IF m = cur THEN o ELSE msgs[m].outcome
  BY <1>0, <1>6, EndsMsgs DEF Ends, CallersInv
<1>7. QED
  BY <1>1, <1>2, <1>3, <1>4, <1>5, <1>6, CallerMoves

(* Every step keeps who is being served. *)
LEMMA NextCallers ==
    ASSUME IInv, CallersInv, [Next]_vars
    PROVE  CallersInv'
<1>0. ClientOK /\ IInv'
  BY Halves, NextIInv DEF IInv
<1>1. CASE Stays
  <2>1. /\ msgs' = msgs /\ cur' = cur /\ tls' = tls
        /\ Kind(cur) = "record" /\ cur # 0 => cur = tls
    BY <1>1 DEF Stays, CallersInv
  <2>2. /\ pc' = "idle" => cur' = 0 /\ tls' = 0
        /\ pc' \in {"tlswait", "embed", "embedpoll"} => cur' = tls'
        /\ pc' = "tlswait" => Kind(tls)' = "record"
    BY <1>0, <1>1, <2>1 DEF Stays, CallersInv, Kind, ClientOK
  <2>3. QED
    BY <2>1, <2>2 DEF CallersInv, Kind, Len_
<1>2. ASSUME NEW n \in Lens, Prints(n) PROVE CallersInv'
  <2>1. PICK o \in {"open", "skipped"} :
          /\ msgs' = Append(msgs, [kind |-> "console", len |-> n, outcome |-> o])
          /\ \/ o = "open" /\ cur' = Len(msgs) + 1 /\ pc' = "enter"
             \/ o = "skipped" /\ cur' = cur /\ pc' = pc
    BY <1>2 DEF Prints
  <2>2. /\ Len(msgs) \in Nat /\ Len(msgs') = Len(msgs) + 1
        /\ DOMAIN msgs = 1 .. Len(msgs) /\ DOMAIN msgs' = 1 .. Len(msgs) + 1
        /\ \A m \in DOMAIN msgs : msgs'[m] = msgs[m]
        /\ msgs'[Len(msgs) + 1].kind = "console"
        /\ msgs'[Len(msgs) + 1].outcome = o
    BY <1>0, <2>1, AppendMsgs
  <2>3. /\ tls' = tls /\ tls \in 0 .. Len(msgs)
        /\ cur = tls
        /\ pc = "idle" \/ (pc = "tlswait" /\ Kind(tls) = "record" /\ tls # 0)
        /\ tls # 0 => msgs'[tls].kind = "record" /\ pc = "tlswait"
    <3>1. tls' = tls /\ tls \in 0 .. Len(msgs) /\ pc \in {"idle", "tlswait"}
      BY <1>0, <1>2 DEF Prints, ClientOK
    <3>2. CASE pc = "idle"
      BY <3>1, <3>2 DEF CallersInv
    <3>3. CASE pc = "tlswait"
      <4>1. cur = tls /\ Kind(tls) = "record" /\ tls # 0
        BY <1>0, <3>3 DEF CallersInv, ClientOK
      <4>2. tls \in DOMAIN msgs
        BY <2>2, <3>1, <4>1
      <4>3. QED
        BY <2>2, <3>1, <3>3, <4>1, <4>2 DEF Kind
    <3>4. QED
      BY <3>1, <3>2, <3>3
  <2>4. \A m \in DOMAIN msgs' : msgs'[m].outcome = "open" <=> m \in {cur', tls'}
    BY <1>0, <2>1, <2>2, <2>3 DEF CallersInv, ClientOK
  <2>5. \A m \in DOMAIN msgs' :
          /\ msgs'[m].kind = "console" => msgs'[m].outcome # "reset"
          /\ msgs'[m].kind = "write" => msgs'[m].len <= BufSize
    BY <2>1, <2>2 DEF CallersInv, Kind, Len_
  <2>6. /\ pc' = "idle" => cur' = 0 /\ tls' = 0
        /\ pc' \in {"tlswait", "embed", "embedpoll"} => cur' = tls'
        /\ pc' = "tlswait" => msgs'[tls'].kind = "record"
        /\ cur' \in {0, tls'} \/ (msgs'[cur'].kind = "console" /\ cur' = Len(msgs'))
        /\ tls' # 0 => msgs'[tls'].kind = "record"
    BY <2>1, <2>2, <2>3 DEF CallersInv
  <2>7. QED
    BY <2>4, <2>5, <2>6 DEF CallersInv, Kind, Len_
<1>3. ASSUME NEW k \in {"record", "write"}, NEW n \in Lens, StartRecord(k, n)
      PROVE  CallersInv'
  <2>1. /\ pc = "idle" /\ cur = 0 /\ tls = 0
        /\ k = "write" => n <= BufSize
        /\ msgs' = Append(msgs, [kind |-> k, len |-> n, outcome |-> "open"])
        /\ cur' = Len(msgs) + 1 /\ tls' = Len(msgs) + 1 /\ pc' = "embed"
    BY <1>3 DEF StartRecord, CallersInv
  <2>2. /\ Len(msgs) \in Nat /\ Len(msgs') = Len(msgs) + 1
        /\ DOMAIN msgs = 1 .. Len(msgs) /\ DOMAIN msgs' = 1 .. Len(msgs) + 1
        /\ \A m \in DOMAIN msgs : msgs'[m] = msgs[m]
        /\ msgs'[Len(msgs) + 1].kind = k
        /\ msgs'[Len(msgs) + 1].len = n
        /\ msgs'[Len(msgs) + 1].outcome = "open"
    BY <1>0, <2>1, AppendMsgs
  <2>3. \A m \in DOMAIN msgs' :
          /\ msgs'[m].outcome = "open" <=> m \in {cur', tls'}
          /\ msgs'[m].kind = "console" => msgs'[m].outcome # "reset"
          /\ msgs'[m].kind = "write" => msgs'[m].len <= BufSize
    BY <2>1, <2>2 DEF CallersInv, Kind, Len_
  <2>4. QED
    BY <2>1, <2>2, <2>3 DEF CallersInv, Kind, Len_
<1>4. ASSUME NEW o \in {"ok", "gaveup", "reset"}, Ends(o)
      PROVE  CallersInv'
  <2>1. /\ cur \in DOMAIN msgs /\ DOMAIN msgs' = DOMAIN msgs
        /\ DOMAIN msgs = 1 .. Len(msgs)
        /\ Len(msgs') = Len(msgs)
        /\ \A m \in DOMAIN msgs :
               /\ msgs'[m].kind = msgs[m].kind
               /\ msgs'[m].len = msgs[m].len
               /\ msgs'[m].outcome = IF m = cur THEN o ELSE msgs[m].outcome
    BY <1>0, <1>4, EndsMsgs DEF ClientOK
  <2>2. \/ /\ Kind(cur) = "console" /\ tls # 0 /\ tls # cur
           /\ pc' = "tlswait" /\ cur' = tls /\ tls' = tls
           /\ tls \in DOMAIN msgs /\ msgs[tls].kind = "record"
        \/ /\ pc' = "idle" /\ cur' = 0 /\ tls' = 0
           /\ tls \in {0, cur}
    <3>1. CASE Kind(cur) = "console" /\ tls # 0
      BY <1>0, <1>4, <2>1, <3>1 DEF Ends, CallersInv, ClientOK, Kind
    <3>2. CASE ~(Kind(cur) = "console" /\ tls # 0)
      BY <1>4, <3>2 DEF Ends, CallersInv, ClientOK
    <3>3. QED
      BY <3>1, <3>2
  <2>3. o = "reset" => Kind(cur) # "console"
    BY <1>4 DEF Ends, CallersInv
  <2>4. \A m \in DOMAIN msgs' :
          /\ msgs'[m].outcome = "open" <=> m \in {cur', tls'}
          /\ msgs'[m].kind = "console" => msgs'[m].outcome # "reset"
          /\ msgs'[m].kind = "write" => msgs'[m].len <= BufSize
    BY <2>1, <2>2, <2>3 DEF CallersInv, Kind, Len_
  <2>5. QED
    BY <2>1, <2>2, <2>4 DEF CallersInv, Kind, Len_
<1>5. QED
  BY <1>1, <1>2, <1>3, <1>4, CallerMoves

(* A caller that fills its buffer changes its own, from the beginning on. *)
LEMMA FilledAt ==
    ASSUME DeviceOK, NEW a \in Areas, NEW m, NEW n \in Lens
    PROVE  \A b \in Areas, o \in Lens :
               Filled(a, m, n)[b][o] = IF b = a /\ o <= n THEN m ELSE mem[b][o]
<1>1. mem \in [Areas -> [Lens -> 0 .. MaxMsgs]]
  BY DEF DeviceOK
<1> DEFINE f == [o \in Lens |-> IF o <= n THEN m ELSE mem[a][o]]
<1>2. Filled(a, m, n) = [mem EXCEPT ![a] = f]
  BY DEF Filled
<1>3. \A b \in Areas : Filled(a, m, n)[b] = IF b = a THEN f ELSE mem[b]
  BY <1>1, <1>2
<1>4. QED
  BY <1>3

(* Every step keeps what the callers' buffers hold. *)
LEMMA NextBuffers ==
    ASSUME IInv, CallersInv, BuffersInv, [Next]_vars
    PROVE  BuffersInv'
<1>0. /\ ClientOK /\ DeviceOK /\ MaxLen \in Nat
      /\ "stdio" \in Areas /\ "tls" \in Areas
      /\ \A o \in Lens : mem["stdio"][o] \in Nat /\ mem["tls"][o] \in Nat
      /\ \A m \in DOMAIN msgs : msgs[m].len \in Lens
  <2>1. ClientOK /\ DeviceOK /\ MaxLen \in Nat
    BY Halves, CdcTxAssumption DEF IInv
  <2>2. "stdio" \in Areas /\ "tls" \in Areas
    BY DEF Areas
  <2>3. \A a \in Areas, o \in Lens : mem[a][o] \in Nat
    BY <2>1, CdcTxAssumption DEF DeviceOK
  <2>4. \A m \in DOMAIN msgs : msgs[m] \in Message
    BY <2>1 DEF ClientOK
  <2>5. QED
    BY <2>1, <2>2, <2>3, <2>4 DEF Message
<1>1. /\ Len(msgs) \in Nat /\ Len(msgs') \in Nat
      /\ Len(msgs) <= Len(msgs')
      /\ DOMAIN msgs = 1 .. Len(msgs) /\ DOMAIN msgs' = 1 .. Len(msgs')
      /\ \A m \in DOMAIN msgs : msgs'[m].kind = msgs[m].kind /\ msgs'[m].len = msgs[m].len
  BY MsgsGrow
<1>2. CASE mem' = mem /\ DOMAIN msgs' = DOMAIN msgs /\ tls' \in {0, tls}
  <2>1. \A o \in Lens : mem["stdio"][o] # 0 => mem["stdio"][o] \in DOMAIN msgs
    BY <1>0, <1>1 DEF BuffersInv
  <2>2. \A o \in Lens : mem["tls"][o] # 0 => mem["tls"][o] \in DOMAIN msgs
    BY <1>0, <1>1 DEF BuffersInv
  <2>3. tls' # 0 => tls \in DOMAIN msgs /\ tls' = tls
    BY <1>0, <1>1, <1>2 DEF ClientOK
  <2>4. QED
    BY <1>1, <1>2, <2>1, <2>2, <2>3 DEF BuffersInv, Kind, Len_
<1>3. CASE Stays /\ WolfFree
  <2>1. tls = 0 /\ msgs' = msgs /\ tls' = tls
    BY <1>3 DEF Stays, WolfFree, CallersInv
  <2>2. mem'["stdio"] = mem["stdio"] /\ \A o \in Lens : mem'["tls"][o] = 0
    BY <1>0, <1>3 DEF WolfFree, DeviceOK
  <2>3. QED
    BY <2>1, <2>2 DEF BuffersInv, Kind, Len_
<1>4. ASSUME NEW n \in Lens, Prints(n) PROVE BuffersInv'
  <2>1. /\ \A o \in Lens : mem'["stdio"][o] = IF o <= n THEN Len(msgs) + 1 ELSE mem["stdio"][o]
        /\ \A o \in Lens : mem'["tls"][o] = mem["tls"][o]
        /\ tls' = tls
    BY <1>0, <1>4, FilledAt DEF Prints
  <2>2. /\ Len(msgs') = Len(msgs) + 1
        /\ msgs'[Len(msgs) + 1].kind = "console"
        /\ msgs'[Len(msgs) + 1].len = n
    BY <1>0, <1>4, AppendMsgs DEF Prints
  <2>3. \A o \in Lens : mem'["stdio"][o] # 0 =>
           mem'["stdio"][o] <= Len(msgs') /\ msgs'[mem'["stdio"][o]].kind = "console"
    BY <1>0, <1>1, <2>1, <2>2 DEF BuffersInv, Kind, Lens
  <2>4. \A o \in Lens : mem'["tls"][o] # 0 =>
           mem'["tls"][o] <= Len(msgs') /\ msgs'[mem'["tls"][o]].kind # "console"
    BY <1>0, <1>1, <2>1, <2>2 DEF BuffersInv, Kind
  <2>5. ASSUME NEW m \in DOMAIN msgs', msgs'[m].kind = "console",
               NEW o \in 1 .. msgs'[m].len
        PROVE  mem'["stdio"][o] >= m
    <3>1. CASE m = Len(msgs) + 1
      BY <1>0, <1>1, <2>1, <2>2, <2>5, <3>1, SMTT(30) DEF Lens
    <3>2. CASE m # Len(msgs) + 1
      <4>1. m \in DOMAIN msgs /\ msgs[m].kind = "console" /\ o \in 1 .. msgs[m].len
        BY <1>1, <2>2, <2>5, <3>2
      <4>2. o \in Lens /\ mem["stdio"][o] >= m
        BY <1>0, <4>1 DEF BuffersInv, Kind, Len_, Lens
      <4>3. QED
        BY <1>1, <2>1, <4>1, <4>2
    <3>3. QED
      BY <3>1, <3>2
  <2>6. tls' # 0 => \A o \in 1 .. msgs'[tls'].len : mem'["tls"][o] = tls'
    BY <1>0, <1>1, <2>1, SMTT(30) DEF BuffersInv, Len_, Lens, ClientOK
  <2>7. QED
    BY <2>3, <2>4, <2>5, <2>6 DEF BuffersInv, Kind, Len_
<1>5. ASSUME NEW k \in {"record", "write"}, NEW n \in Lens, StartRecord(k, n)
      PROVE  BuffersInv'
  <2>1. /\ \A o \in Lens : mem'["tls"][o] = IF o <= n THEN Len(msgs) + 1 ELSE mem["tls"][o]
        /\ \A o \in Lens : mem'["stdio"][o] = mem["stdio"][o]
        /\ tls' = Len(msgs) + 1
    BY <1>0, <1>5, FilledAt DEF StartRecord
  <2>2. /\ Len(msgs') = Len(msgs) + 1
        /\ msgs'[Len(msgs) + 1].kind = k
        /\ msgs'[Len(msgs) + 1].len = n
    BY <1>0, <1>5, AppendMsgs DEF StartRecord
  <2>3. \A o \in Lens : mem'["tls"][o] # 0 =>
           mem'["tls"][o] <= Len(msgs') /\ msgs'[mem'["tls"][o]].kind # "console"
    BY <1>0, <1>1, <2>1, <2>2, SMTT(30) DEF BuffersInv, Kind, Lens
  <2>4. \A o \in Lens : mem'["stdio"][o] # 0 =>
           mem'["stdio"][o] <= Len(msgs') /\ msgs'[mem'["stdio"][o]].kind = "console"
    BY <1>0, <1>1, <2>1, <2>2 DEF BuffersInv, Kind
  <2>5. ASSUME NEW m \in DOMAIN msgs', msgs'[m].kind = "console",
               NEW o \in 1 .. msgs'[m].len
        PROVE  mem'["stdio"][o] >= m
    <3>1. m \in DOMAIN msgs /\ msgs[m].kind = "console" /\ o \in 1 .. msgs[m].len
      <4>1. m # Len(msgs) + 1
        BY <2>2, <2>5
      <4>2. QED
        BY <1>1, <2>2, <2>5, <4>1
    <3>2. o \in Lens /\ mem["stdio"][o] >= m
      BY <1>0, <3>1 DEF BuffersInv, Kind, Len_, Lens
    <3>3. QED
      BY <2>1, <3>2
  <2>6. \A o \in 1 .. msgs'[tls'].len : mem'["tls"][o] = tls'
    BY <1>0, <1>1, <2>1, <2>2 DEF Lens
  <2>7. QED
    BY <2>3, <2>4, <2>5, <2>6 DEF BuffersInv, Kind, Len_
<1>6. ASSUME NEW o \in {"ok", "gaveup", "reset"}, Ends(o), mem' = mem
      PROVE  BuffersInv'
  BY <1>0, <1>2, <1>6, EndsMsgs DEF Ends
<1>7. CASE Stays /\ mem' = mem
  BY <1>2, <1>7 DEF Stays
<1>8. QED
  BY <1>3, <1>4, <1>5, <1>6, <1>7, CallerMoves

(* The message usb_cdc_tx is called with is where its caller says. *)
LEMMA CurHeld ==
    ASSUME IInv, CallersInv, BuffersInv, cur # 0
    PROVE  /\ cur \in DOMAIN msgs /\ Len_(cur) \in Lens /\ Area(cur) \in Areas
           /\ \A o \in 1 .. Len_(cur) : mem[Area(cur)][o] = cur
<1>1. cur \in DOMAIN msgs /\ cur \in Nat /\ msgs[cur] \in Message
  BY DEF IInv, TypeOK
<1>2. Len_(cur) \in Lens /\ Area(cur) \in Areas
  BY <1>1 DEF Message, Len_, Area, Areas
<1>3. CASE Kind(cur) = "console"
  <2>1. cur = Len(msgs)
    BY <1>3 DEF CallersInv
  <2>2. ASSUME NEW o \in 1 .. Len_(cur) PROVE mem["stdio"][o] = cur
    <3>1. o \in Lens /\ mem["stdio"][o] \in Nat
      BY <1>2, <2>2, CdcTxAssumption, SMTT(30) DEF Lens, IInv, TypeOK, Areas
    <3>2. mem["stdio"][o] >= cur
      BY <1>1, <1>3, <2>2 DEF BuffersInv
    <3>3. mem["stdio"][o] <= Len(msgs)
      BY <1>1, <3>1, <3>2 DEF BuffersInv
    <3>4. QED
      BY <1>1, <2>1, <3>1, <3>2, <3>3
  <2>3. QED
    BY <1>1, <1>2, <1>3, <2>2 DEF Area
<1>4. CASE Kind(cur) # "console"
  <2>1. cur = tls
    BY <1>4 DEF CallersInv
  <2>2. QED
    BY <1>1, <1>2, <1>4, <2>1 DEF BuffersInv, Area
<1>5. QED
  BY <1>3, <1>4

-----------------------------------------------------------------------------
(* What a step does for the transfer: nothing; the device is configured and a
   session begins; the state machine is reset without a device; a chunk is collected
   or handed to the controller; the connection is lost.  The other ways are actions
   of their own.                                                            *)
Rests ==
    /\ UNCHANGED <<dev, host, class, ed, armed>>
    /\ enum' = enum \/ (Stays /\ mem' = mem /\ pc \in {"idle", "embedpoll", "tlswait"})

Configures ==
    /\ dev = "ATTACHED" /\ enum <= 1 /\ dev' = "CONFIGURED"
    /\ host' = Append(host, <<>>)
    /\ pc \in {"idle", "embedpoll", "tlswait"}
    /\ Stays
    /\ UNCHANGED <<class, ed, armed, mem>>

Drops ==
    /\ ~Connected
    /\ write_state' = "RESET"
    /\ Stays \/ Ends("gaveup")
    /\ UNCHANGED <<bus, wr, ebuf, ed, armed, mem>>

Collects ==
    /\ pc = "hw" /\ dev # "RESET" /\ ed.transfer /\ ed.done
    /\ ed' = [transfer |-> FALSE, done |-> FALSE]
    /\ wr' = [wr EXCEPT !.act = wr.act + wr.xfer]
    /\ write_state' = "START"
    /\ Stays \/ Ends("gaveup")
    /\ UNCHANGED <<bus, ebuf, armed, mem>>

Arms ==
    /\ pc = "hw" /\ dev # "RESET" /\ ~ed.transfer
    /\ ed' = [ed EXCEPT !.transfer = TRUE]
    /\ armed' = Connected
    /\ Stays \/ Ends("gaveup")
    /\ UNCHANGED <<bus, class, mem>>

Leaves ==
    /\ StackDisconnect
    /\ (dev' = "ATTACHED" /\ enum' = EnumPolls) \/ dev' = "RESET"
    /\ UNCHANGED <<class, mem, client, host>>

(* What a step can do to the transfer, the endpoint and the host. *)
LEMMA TransferMoves ==
    ASSUME IInv, [Next]_vars
    PROVE  \/ Rests \/ Configures \/ Drops \/ Collects \/ Arms \/ Leaves
           \/ WriteRunDone \/ WriteRunCopy \/ DataInStage
<1>0. ClientOK
  BY Halves DEF IInv
<1>1. CASE Poll \/ EmbedPoll \/ TlsPoll
  <2>1. /\ Stays /\ UNCHANGED <<class, ed, armed, mem>>
        /\ pc \in {"idle", "embedpoll", "tlswait"} /\ DeviceTask
    BY <1>1 DEF Poll, EmbedPoll, TlsPoll, Stays, client
  <2>2. QED
    BY <2>1 DEF DeviceTask, bus, Rests, Configures
<1>2. CASE \/ EmbedSend \/ WolfFree \/ CdcAcmTx \/ WriteRunWait \/ UNCHANGED vars
           \/ \E n \in Lens : SendData(n)
           \/ \E k \in {"record", "write"}, n \in Lens : StartRecord(k, n)
  BY <1>2
  DEF EmbedSend, WolfFree, CdcAcmTx, WriteRunWait, vars, SendData, StartRecord,
      bus, class, Rests
<1>3. CASE WriteRunDown
  BY <1>0, <1>3, BusyMoves DEF WriteRunDown, Drops
<1>4. CASE TransferRun
  <2>1. Stays \/ Ends("gaveup")
    BY <1>0, <1>4, BusyMoves DEF TransferRun
  <2>2. QED
    BY <1>4, <2>1
    DEF TransferRun, TransferDone, AfterChunk, Drops, Collects, Arms, Rests, bus,
        class, Connected
<1>5. CASE UsbReset \/ UsbDisconnect
  BY <1>5 DEF UsbReset, UsbDisconnect, Leaves
<1>6. QED
  BY <1>1, <1>2, <1>3, <1>4, <1>5 DEF Next, MainStep, Interrupt

(* A configuration begins a session, in which the host has nothing yet. *)
LEMMA HostAfterConfigure ==
    ASSUME DeviceOK, Configures
    PROVE  /\ Connected'
           /\ Len(host) \in Nat /\ Len(host') = Len(host) + 1
           /\ DOMAIN host' = 1 .. Len(host) + 1 /\ DOMAIN host = 1 .. Len(host)
           /\ \A s \in DOMAIN host : host'[s] = host[s]
           /\ host'[Len(host')] = <<>>
BY DEF DeviceOK, Configures, Connected

(* The host collects a packet: the last session grows by the endpoint buffer. *)
LEMMA HostAfterPacket ==
    ASSUME IInv, ShapeInv, DataInStage
    PROVE  /\ Connected /\ write_state = "WAIT" /\ ~ed.done
           /\ Len(host) \in Nat \ {0} /\ Len(host') = Len(host)
           /\ DOMAIN host' = DOMAIN host /\ DOMAIN host = 1 .. Len(host)
           /\ \A s \in DOMAIN host : s # Len(host) => host'[s] = host[s]
           /\ host[Len(host)] \in Seq(Units)
           /\ host'[Len(host)] = host[Len(host)] \o ebuf
<1>1. DeviceOK
  BY Halves DEF IInv
<1>2. Connected /\ write_state = "WAIT" /\ ~ed.done
  BY DEF DataInStage, IInv, BufferOwned, Connected
<1>3. Len(host) \in Nat \ {0} /\ DOMAIN host = 1 .. Len(host)
  BY <1>1, <1>2 DEF DeviceOK, ShapeInv
<1>4. host' = [host EXCEPT ![Len(host)] = host[Len(host)] \o ebuf]
  BY DEF DataInStage
<1>5. host[Len(host)] \in Seq(Units)
  BY <1>1, <1>3 DEF DeviceOK
<1>6. QED
  BY <1>1, <1>2, <1>3, <1>4, <1>5 DEF DeviceOK

(* The places of two sequences put together. *)
LEMMA Together ==
    ASSUME NEW S, NEW a \in Seq(S), NEW b \in Seq(S), NEW p \in DOMAIN (a \o b)
    PROVE  \/ p \in DOMAIN a /\ (a \o b)[p] = a[p]
           \/ p - Len(a) \in DOMAIN b /\ (a \o b)[p] = b[p - Len(a)] /\ p > Len(a)
OBVIOUS

(* A chunk is copied: from the call's own message if nothing was under way, and
   where the transfer under way stopped otherwise.                           *)
LEMMA CopyFacts ==
    ASSUME IInv, ShapeInv, WriteRunCopy
    PROVE  /\ Connected /\ Connected' /\ write_state' = "WAIT" /\ cur # 0 /\ ~ed.done'
           /\ UNCHANGED <<bus, ed, armed, mem, cur, limit, tls, msgs>>
           /\ wr'.area \in Areas /\ wr'.req \in 0 .. MaxLen /\ wr'.act \in 0 .. MaxLen
           /\ wr'.xfer \in Nat /\ wr'.xfer >= 1 /\ wr'.act + wr'.xfer <= wr'.req
           /\ wr'.xfer = Chunk(Captured)
           /\ ebuf' \in Seq(Units) /\ DOMAIN ebuf' = 1 .. wr'.xfer /\ Len(ebuf') = wr'.xfer
           /\ \A k \in 1 .. wr'.xfer :
                  ebuf'[k] = <<mem[wr'.area][wr'.act + k], wr'.act + k>>
           /\ \/ /\ write_state = "RESET"
                 /\ wr'.area = Area(cur) /\ wr'.req = Len_(cur) /\ wr'.act = 0
              \/ /\ write_state = "START"
                 /\ wr'.area = wr.area /\ wr'.req = wr.req /\ wr'.act = wr.act
<1>0. DeviceOK /\ ClientOK /\ MaxLen \in Nat
  BY Halves, CdcTxAssumption DEF IInv
<1>1. /\ Connected /\ Connected' /\ write_state' = "WAIT" /\ cur # 0
      /\ UNCHANGED <<bus, ed, armed, mem, cur, limit, tls, msgs>>
      /\ write_state # "WAIT" /\ pc = "run"
  BY <1>0 DEF WriteRunCopy, ClientOK, Connected, bus
<1>2. Captured \in Transfer /\ Captured.act < Captured.req
  BY <1>1, CapturedType DEF WriteRunCopy
<1>3. /\ Chunk(Captured) \in Nat /\ Chunk(Captured) >= 1
      /\ Captured.act + Chunk(Captured) <= Captured.req
  <2>1. Chunk(Captured) \in 1 .. BufSize
    BY <1>2, ChunkFits
  <2>2. QED
    BY <1>2, <2>1, ChunkFits, CdcTxAssumption
<1>4. wr' = [Captured EXCEPT !.xfer = Chunk(Captured)]
  BY DEF WriteRunCopy
<1>5. /\ wr'.area = Captured.area /\ wr'.req = Captured.req /\ wr'.act = Captured.act
      /\ wr'.xfer = Chunk(Captured)
  BY <1>2, <1>4 DEF Transfer
<1>6. ebuf' = [k \in 1 .. Chunk(Captured) |->
                  <<mem[Captured.area][Captured.act + k], Captured.act + k>>]
  BY DEF WriteRunCopy, Copied
<1>7. ebuf' \in Seq(Units)
  BY <1>0, <1>2, CopiedType DEF WriteRunCopy
<1>8. Captured.area \in Areas /\ Captured.req \in 0 .. MaxLen /\ Captured.act \in 0 .. MaxLen
  BY <1>2 DEF Transfer
<1>9. \/ /\ write_state = "RESET"
         /\ Captured.area = Area(cur) /\ Captured.req = Len_(cur) /\ Captured.act = 0
      \/ /\ write_state = "START" /\ Captured = wr
  BY <1>0, <1>1 DEF Captured, DeviceOK
<1>10. ~ed.done'
  BY <1>1 DEF ShapeInv
<1>11. QED
  BY <1>1, <1>3, <1>5, <1>6, <1>7, <1>8, <1>9, <1>10

(* Every step keeps what a transfer looks like. *)
LEMMA NextShape ==
    ASSUME IInv, CallersInv, BuffersInv, ShapeInv, [Next]_vars
    PROVE  ShapeInv'
<1>0. /\ DeviceOK /\ ClientOK /\ MaxLen \in Nat
      /\ wr.act \in Nat /\ wr.xfer \in Nat /\ wr.req \in Nat
      /\ Len(host) \in Nat /\ DOMAIN host = 1 .. Len(host)
      /\ \A s \in DOMAIN host : \A p \in DOMAIN host[s] : host[s][p][1] \in Nat
      /\ \A k \in DOMAIN ebuf : ebuf[k][1] \in Nat
  <2>1. DeviceOK /\ ClientOK /\ MaxLen \in Nat
    BY Halves, CdcTxAssumption DEF IInv
  <2>2. wr.act \in Nat /\ wr.xfer \in Nat /\ wr.req \in Nat
    BY <2>1 DEF DeviceOK, Transfer
  <2>3. Len(host) \in Nat /\ DOMAIN host = 1 .. Len(host)
    BY <2>1 DEF DeviceOK
  <2>4. \A u \in Units : u[1] \in Nat
    BY CdcTxAssumption DEF Units
  <2>5. \A s \in DOMAIN host : \A p \in DOMAIN host[s] : host[s][p] \in Units
    BY <2>1 DEF DeviceOK
  <2>6. \A k \in DOMAIN ebuf : ebuf[k] \in Units
    BY <2>1 DEF DeviceOK
  <2>7. QED
    BY <2>1, <2>2, <2>3, <2>4, <2>5, <2>6
<1>1. /\ Len(msgs) \in Nat /\ Len(msgs') \in Nat /\ Len(msgs) <= Len(msgs')
  BY MsgsGrow
<1>2. ASSUME UNCHANGED <<ebuf, host>>
      PROVE  /\ \A k \in DOMAIN ebuf' : ebuf'[k][1] <= Len(msgs')
             /\ \A s \in DOMAIN host' : \A p \in DOMAIN host'[s] : host'[s][p][1] <= Len(msgs')
  BY <1>0, <1>1, <1>2 DEF ShapeInv
<1>3. CASE Rests
  BY <1>2, <1>3 DEF Rests, class, ShapeInv, Connected
<1>4. CASE Configures
  <2>1. \A s \in DOMAIN host' : \A p \in DOMAIN host'[s] : host'[s][p][1] <= Len(msgs')
    <3>1. ASSUME NEW s \in DOMAIN host', NEW p \in DOMAIN host'[s]
          PROVE  s \in DOMAIN host /\ host'[s] = host[s]
      BY <1>0, <1>4, HostAfterConfigure
    <3>2. QED
      BY <1>0, <1>1, <3>1 DEF ShapeInv
  <2>2. \A k \in DOMAIN ebuf' : ebuf'[k][1] <= Len(msgs')
    BY <1>0, <1>1, <1>4 DEF ShapeInv, Configures, class
  <2>3. Len(host') >= 1 /\ Connected'
    BY <1>0, <1>4, HostAfterConfigure
  <2>4. QED
    BY <1>4, <2>1, <2>2, <2>3 DEF Configures, class, ShapeInv
<1>5. CASE Drops
  <2>1. ~ed.done
    BY <1>5 DEF Drops, ShapeInv
  <2>2. QED
    BY <1>2, <1>5, <2>1 DEF Drops, bus, ShapeInv, Connected
<1>6. CASE Collects
  <2>1. write_state = "WAIT" /\ wr'.act = wr.act + wr.xfer
    BY <1>0, <1>6 DEF Collects, ShapeInv, DeviceOK, Transfer
  <2>2. QED
    BY <1>0, <1>2, <1>6, <2>1 DEF Collects, bus, ShapeInv, Connected
<1>7. CASE Arms
  <2>1. ed'.done = ed.done
    BY <1>0, <1>7 DEF Arms, DeviceOK, Status
  <2>2. QED
    BY <1>2, <1>7, <2>1 DEF Arms, bus, class, ShapeInv, Connected
<1>8. CASE Leaves
  <2>1. ~ed'.done /\ ~Connected'
    BY <1>8 DEF Leaves, StackDisconnect, ShapeInv, Connected
  <2>2. QED
    BY <1>2, <1>8, <2>1 DEF Leaves, class, ShapeInv
<1>9. CASE WriteRunDone
  <2>1. ~ed.done
    BY <1>9 DEF WriteRunDone, ShapeInv
  <2>2. QED
    BY <1>2, <1>9, <2>1 DEF WriteRunDone, bus, ShapeInv, Connected
<1>10. CASE WriteRunCopy
  <2>1. ASSUME NEW k \in DOMAIN ebuf'
        PROVE  ebuf'[k][1] <= Len(msgs') /\ ebuf'[k][2] = wr'.act + k
    <3>1. k \in 1 .. wr'.xfer /\ ebuf'[k] = <<mem[wr'.area][wr'.act + k], wr'.act + k>>
      BY <1>10, <2>1, CopyFacts
    <3>2. wr'.act + k \in Lens
      BY <1>0, <1>10, <3>1, CopyFacts, SMTT(30) DEF Lens
    <3>3. mem[wr'.area][wr'.act + k] \in Nat
      BY <1>0, <1>10, <3>2, CopyFacts, CdcTxAssumption DEF DeviceOK
    <3>4. mem[wr'.area][wr'.act + k] <= Len(msgs)
      BY <1>1, <1>10, <3>2, <3>3, CopyFacts DEF BuffersInv, Areas
    <3>5. QED
      BY <1>1, <3>1, <3>3, <3>4
  <2>2. UNCHANGED <<host, dev>> /\ Connected /\ ~ed'.done /\ write_state' = "WAIT"
    BY <1>10, CopyFacts DEF bus
  <2>3. Len(ebuf') = wr'.xfer /\ wr'.xfer >= 1 /\ DOMAIN ebuf' = 1 .. wr'.xfer
    BY <1>10, CopyFacts
  <2>4. \A s \in DOMAIN host' : \A p \in DOMAIN host'[s] : host'[s][p][1] <= Len(msgs')
    BY <1>0, <1>1, <2>2 DEF ShapeInv
  <2>5. QED
    BY <2>1, <2>2, <2>3, <2>4 DEF ShapeInv
<1>11. CASE DataInStage
  <2>1. \A s \in DOMAIN host' : \A p \in DOMAIN host'[s] : host'[s][p][1] <= Len(msgs')
    <3> SUFFICES ASSUME NEW s \in DOMAIN host', NEW p \in DOMAIN host'[s]
                 PROVE  host'[s][p][1] <= Len(msgs')
      OBVIOUS
    <3>1. s \in DOMAIN host /\ (s # Len(host) => host'[s] = host[s])
          /\ host[Len(host)] \in Seq(Units)
          /\ host'[Len(host)] = host[Len(host)] \o ebuf
      BY <1>11, HostAfterPacket
    <3>2. CASE s # Len(host)
      BY <1>0, <1>1, <3>1, <3>2 DEF ShapeInv
    <3>3. CASE s = Len(host)
      <4>1. ebuf \in Seq(Units) /\ p \in DOMAIN (host[s] \o ebuf)
        BY <1>0, <3>1, <3>3 DEF DeviceOK
      <4>2. \/ p \in DOMAIN host[s] /\ host'[s][p] = host[s][p]
            \/ p - Len(host[s]) \in DOMAIN ebuf /\ host'[s][p] = ebuf[p - Len(host[s])]
        BY <3>1, <3>3, <4>1, Together
      <4>3. QED
        BY <1>0, <1>1, <3>1, <4>2 DEF ShapeInv
    <3>4. QED
      BY <3>2, <3>3
  <2>2. UNCHANGED <<dev, class>> /\ Connected /\ write_state = "WAIT" /\ Len(host') = Len(host)
    BY <1>11, HostAfterPacket DEF DataInStage
  <2>3. \A k \in DOMAIN ebuf' : ebuf'[k][1] <= Len(msgs')
    BY <1>0, <1>1, <2>2 DEF class, ShapeInv
  <2>4. QED
    BY <2>1, <2>2, <2>3 DEF class, ShapeInv, Connected
<1>12. QED
  BY <1>3, <1>4, <1>5, <1>6, <1>7, <1>8, <1>9, <1>10, <1>11, TransferMoves

(* Before the first message there is nothing to tell, *)
LEMMA InitHistory == Init => HistoryInv
BY CdcTxAssumption
DEF Init, HistoryInv, CallersInv, BuffersInv, ShapeInv, Connected, Areas

(* and every step keeps the histories true. *)
LEMMA NextHistory == IInv /\ HistoryInv /\ [Next]_vars => HistoryInv'
BY NextCallers, NextBuffers, NextShape DEF HistoryInv

-----------------------------------------------------------------------------
(* Where the next chunk begins: what was sent, and what is being sent. *)
Copying == wr.act + (IF write_state = "WAIT" THEN wr.xfer ELSE 0)

(* In the first session the state machine never points at freed memory: what it has
   still to copy is there, and of wolfSSL's it is a record that still waits. *)
FreedInv ==
    /\ Connected /\ Len(host) = 1 /\ write_state # "RESET" =>
           /\ \A o \in Copying + 1 .. wr.req : mem[wr.area][o] # 0
           /\ wr.area = "tls" /\ Copying < wr.req => tls # 0 /\ Kind(tls) = "record"
           /\ write_state = "WAIT" => \A k \in DOMAIN ebuf : ebuf[k][1] # 0
    /\ FreedOnlyAfterReconnect


(* Nothing that waits to be copied is lost to the callers' doings. *)
LEMMA StillThere ==
    ASSUME IInv, HistoryInv, [Next]_vars, Connected, write_state' # "RESET",
           NEW a \in Areas, NEW c \in Nat, NEW r \in 0 .. MaxLen,
           \A o \in c + 1 .. r : mem[a][o] # 0,
           a = "tls" /\ c < r => tls # 0 /\ Kind(tls) = "record"
    PROVE  /\ \A o \in c + 1 .. r : mem'[a][o] # 0
           /\ a = "tls" /\ c < r => tls' # 0 /\ msgs'[tls'].kind = "record"
<1>0. /\ CallersInv /\ BuffersInv /\ ClientOK /\ DeviceOK /\ MaxLen \in Nat
      /\ \A o \in c + 1 .. r : o \in Lens
      /\ "stdio" \in Areas /\ "tls" \in Areas
  BY Halves, CdcTxAssumption DEF HistoryInv, Lens, Areas, IInv
<1>1. /\ Len(msgs) \in Nat /\ DOMAIN msgs = 1 .. Len(msgs)
      /\ \A m \in DOMAIN msgs : msgs'[m].kind = msgs[m].kind
      /\ tls \in 0 .. Len(msgs)
  BY <1>0, MsgsGrow DEF ClientOK
<1>2. CASE mem' = mem /\ tls' = tls
  BY <1>1, <1>2 DEF Kind
<1>3. CASE Stays /\ WolfFree
  <2>1. tls = 0
    BY <1>0, <1>3 DEF WolfFree, CallersInv
  <2>2. mem'["stdio"] = mem["stdio"]
    BY <1>0, <1>3 DEF WolfFree, DeviceOK
  <2>3. CASE a = "stdio"
    BY <2>2, <2>3
  <2>4. CASE a = "tls"
    BY <2>1, <2>4
  <2>5. QED
    BY <2>3, <2>4 DEF Areas
<1>4. ASSUME NEW n \in Lens, Prints(n)
      PROVE  tls' = tls /\ \A o \in c + 1 .. r : mem'[a][o] # 0
  BY <1>0, <1>1, <1>4, FilledAt DEF Prints
<1>5. ASSUME NEW k \in {"record", "write"}, NEW n \in Lens, StartRecord(k, n)
      PROVE  ~(a = "tls" /\ c < r) /\ \A o \in c + 1 .. r : mem'[a][o] # 0
  <2>1. tls = 0
    BY <1>0, <1>5 DEF StartRecord, CallersInv
  <2>2. \A o \in c + 1 .. r : mem'[a][o] # 0
    BY <1>0, <1>1, <1>5, FilledAt DEF StartRecord
  <2>3. QED
    BY <2>1, <2>2
<1>6. ASSUME NEW o \in {"ok", "gaveup", "reset"}, Ends(o)
      PROVE  tls' = tls \/ ~(tls # 0 /\ Kind(tls) = "record")
  BY <1>0, <1>6 DEF Ends, CallersInv, WriteRunDone
<1>7. CASE mem' = mem /\ ~(a = "tls" /\ c < r)
  BY <1>7
<1>8. CASE Stays /\ mem' = mem
  BY <1>2, <1>8 DEF Stays
<1>9. QED
  BY <1>0, <1>1, <1>2, <1>3, <1>4, <1>5, <1>6, <1>7, <1>8, CallerMoves DEF Kind

(* Where the next chunk begins is within the captured length. *)
LEMMA CopyingIs ==
    ASSUME IInv
    PROVE  /\ Copying \in Nat
           /\ wr.act \in Nat /\ wr.xfer \in Nat /\ wr.req \in 0 .. MaxLen
           /\ write_state = "WAIT" => Copying = wr.act + wr.xfer /\ Copying <= wr.req
           /\ write_state # "WAIT" => Copying = wr.act
           /\ Copying' = wr'.act + (IF write_state' = "WAIT" THEN wr'.xfer ELSE 0)
<1>1. wr.act \in Nat /\ wr.xfer \in Nat /\ wr.req \in 0 .. MaxLen
  BY DEF IInv, TypeOK, Transfer
<1>2. QED
  BY <1>1 DEF Copying, IInv, TransferBounded

(* A write fits one chunk: once it is copied nothing of it is left to copy. *)
LEMMA WriteInOneChunk ==
    ASSUME IInv, HistoryInv, WriteRunCopy, write_state = "RESET", Kind(cur) = "write"
    PROVE  wr'.act + wr'.xfer = wr'.req
<1>1. cur \in DOMAIN msgs /\ Len_(cur) <= BufSize /\ Len_(cur) \in Nat
  BY CurHeld, CopyFacts, CdcTxAssumption DEF HistoryInv, CallersInv, Lens
<1>2. Captured.req = Len_(cur) /\ Captured.act = 0
  BY DEF Captured
<1>3. Chunk(Captured) = Len_(cur)
  BY <1>1, <1>2, CdcTxAssumption DEF Chunk
<1>4. wr'.xfer = Chunk(Captured) /\ wr'.act = 0 /\ wr'.req = Len_(cur)
  BY CopyFacts DEF HistoryInv
<1>5. QED
  BY <1>1, <1>3, <1>4

(* Every step keeps freed memory from being sent in the first session, *)
LEMMA NextFreed ==
    ASSUME IInv, HistoryInv, FreedInv, [Next]_vars
    PROVE  FreedInv'
<1>0. /\ CallersInv /\ BuffersInv /\ ShapeInv /\ DeviceOK /\ ClientOK
      /\ Len(host) \in Nat /\ DOMAIN host = 1 .. Len(host)
      /\ FreedOnlyAfterReconnect
      /\ wr.area \in Areas
  BY Halves DEF HistoryInv, IInv, DeviceOK, FreedInv, Transfer
<1> DEFINE First == Connected /\ Len(host) = 1 /\ write_state # "RESET"
           There == /\ \A o \in Copying + 1 .. wr.req : mem[wr.area][o] # 0
                    /\ wr.area = "tls" /\ Copying < wr.req =>
                           tls # 0 /\ Kind(tls) = "record"
           Chunked == write_state = "WAIT" => \A k \in DOMAIN ebuf : ebuf[k][1] # 0
<1>1. First => There /\ Chunked
  BY DEF FreedInv
<1>2. ASSUME First' => There' /\ Chunked', FreedOnlyAfterReconnect'
      PROVE  FreedInv'
  BY <1>2 DEF FreedInv
<1>3. ASSUME First, First', wr'.area = wr.area, wr'.req = wr.req, Copying' = Copying
      PROVE  There'
  <2>1. There /\ Connected /\ write_state' # "RESET"
    BY <1>1, <1>3
  <2>2. /\ \A o \in Copying + 1 .. wr.req : mem'[wr.area][o] # 0
        /\ wr.area = "tls" /\ Copying < wr.req => tls' # 0 /\ msgs'[tls'].kind = "record"
    BY <1>0, <2>1, StillThere, CopyingIs
  <2>3. QED
    BY <1>3, <2>2 DEF Kind
<1>4. ASSUME host' = host PROVE FreedOnlyAfterReconnect'
  BY <1>0, <1>4 DEF FreedOnlyAfterReconnect
<1>5. CASE Rests
  <2>1. First' <=> First
    BY <1>5 DEF Rests, class, Connected
  <2>2. /\ wr'.area = wr.area /\ wr'.req = wr.req /\ Copying' = Copying
        /\ Chunked' <=> Chunked
    BY <1>5 DEF Rests, class, Copying
  <2>3. host' = host
    BY <1>5 DEF Rests
  <2> HIDE DEF First, There, Chunked
  <2>4. QED
    BY <1>1, <1>2, <1>3, <1>4, <2>1, <2>2, <2>3
<1>6. CASE Configures
  <2>1. ~First'
    <3>1. Len(host') = Len(host) + 1 /\ write_state' = write_state
      BY <1>0, <1>6, HostAfterConfigure DEF Configures, class
    <3>2. QED
      BY <1>0, <3>1 DEF ShapeInv
  <2>2. FreedOnlyAfterReconnect'
    BY <1>0, <1>6, HostAfterConfigure DEF FreedOnlyAfterReconnect
  <2>3. QED
    BY <1>2, <2>1, <2>2
<1>7. CASE Drops \/ WriteRunDone
  BY <1>2, <1>4, <1>7 DEF Drops, WriteRunDone, bus
<1>8. CASE Leaves
  BY <1>2, <1>4, <1>8 DEF Leaves, Connected
<1>9. CASE Collects
  <2>1. write_state = "WAIT" /\ ed.done /\ host' = host /\ (First' => First)
    BY <1>0, <1>9 DEF Collects, ShapeInv, bus, Connected
  <2>2. wr'.area = wr.area /\ wr'.req = wr.req /\ wr'.act = wr.act + wr.xfer
    BY <1>0, <1>9 DEF Collects, DeviceOK, Transfer
  <2>3. Copying' = Copying /\ write_state' = "START"
    BY <1>9, <2>1, <2>2, CopyingIs DEF Collects
  <2>4. Chunked'
    BY <2>3
  <2> HIDE DEF First, There, Chunked
  <2>5. QED
    BY <1>2, <1>3, <1>4, <2>1, <2>2, <2>3, <2>4
<1>10. CASE Arms
  <2>1. First' <=> First
    BY <1>10 DEF Arms, class, bus, Connected
  <2>2. /\ wr'.area = wr.area /\ wr'.req = wr.req /\ Copying' = Copying
        /\ Chunked' <=> Chunked
    BY <1>10 DEF Arms, class, Copying
  <2>3. host' = host
    BY <1>10 DEF Arms, bus
  <2> HIDE DEF First, There, Chunked
  <2>4. QED
    BY <1>1, <1>2, <1>3, <1>4, <2>1, <2>2, <2>3
<1>11. CASE WriteRunCopy
  <2>0. /\ Connected /\ UNCHANGED <<bus, mem, tls, msgs>> /\ write_state' = "WAIT"
        /\ wr'.area \in Areas /\ wr'.req \in 0 .. MaxLen /\ wr'.act \in 0 .. MaxLen
        /\ wr'.xfer \in Nat /\ wr'.act + wr'.xfer <= wr'.req
        /\ DOMAIN ebuf' = 1 .. wr'.xfer
        /\ \A k \in 1 .. wr'.xfer :
               ebuf'[k] = <<mem[wr'.area][wr'.act + k], wr'.act + k>>
    BY <1>0, <1>11, CopyFacts
  <2>1. host' = host /\ Copying' = wr'.act + wr'.xfer
    BY <2>0, CopyingIs DEF bus
  <2>2. ASSUME First'
        PROVE  /\ \A o \in wr'.act + 1 .. wr'.req : mem[wr'.area][o] # 0
               /\ wr'.area = "tls" /\ wr'.act + wr'.xfer < wr'.req =>
                      tls # 0 /\ Kind(tls) = "record"
    <3>1. CASE write_state = "RESET"
      <4>1. wr'.area = Area(cur) /\ wr'.req = Len_(cur) /\ wr'.act = 0 /\ cur # 0
        BY <1>0, <1>11, <3>1, CopyFacts
      <4>2. /\ \A o \in 1 .. Len_(cur) : mem[Area(cur)][o] = cur
            /\ cur \in DOMAIN msgs
        BY <1>0, <4>1, CurHeld
      <4>3. ASSUME wr'.area = "tls", wr'.act + wr'.xfer < wr'.req
            PROVE  tls # 0 /\ Kind(tls) = "record"
        <5>1. Kind(cur) # "console" /\ Kind(cur) # "write"
          BY <1>11, <2>0, <3>1, <4>1, <4>3, WriteInOneChunk DEF Area
        <5>2. msgs[cur] \in Message
          BY <1>0, <4>2 DEF ClientOK
        <5>3. Kind(cur) = "record"
          BY <5>1, <5>2 DEF Message, Kinds, Kind
        <5>4. QED
          BY <1>0, <4>1, <5>1, <5>3 DEF CallersInv
      <4>4. QED
        BY <4>1, <4>2, <4>3
    <3>2. CASE write_state = "START"
      <4>1. wr'.area = wr.area /\ wr'.req = wr.req /\ wr'.act = wr.act
        BY <1>0, <1>11, <3>2, CopyFacts
      <4>2. First
        BY <2>0, <2>1, <2>2, <3>2
      <4>3. There
        BY <1>1, <4>2
      <4>4. Copying = wr.act
        BY <3>2, CopyingIs
      <4>5. QED
        BY <2>0, <4>1, <4>3, <4>4
    <3>3. QED
      BY <1>0, <1>11, <3>1, <3>2, CopyFacts
  <2>3. ASSUME First' PROVE There' /\ Chunked'
    <3>1. There'
      BY <2>0, <2>1, <2>2, <2>3 DEF Kind
    <3>2. ASSUME NEW k \in DOMAIN ebuf' PROVE ebuf'[k][1] # 0
      BY <2>0, <2>2, <2>3, <3>2, SMTT(30)
    <3>3. QED
      BY <3>1, <3>2
  <2> HIDE DEF First, There, Chunked
  <2>4. QED
    BY <1>2, <1>4, <2>1, <2>3
<1>12. CASE DataInStage
  <2>1. /\ Connected /\ write_state = "WAIT" /\ Len(host') = Len(host)
        /\ DOMAIN host' = DOMAIN host
        /\ \A s \in DOMAIN host : s # Len(host) => host'[s] = host[s]
        /\ host[Len(host)] \in Seq(Units)
        /\ host'[Len(host)] = host[Len(host)] \o ebuf
        /\ ebuf \in Seq(Units)
    BY <1>0, <1>12, HostAfterPacket DEF DeviceOK
  <2>2. UNCHANGED <<dev, class, mem, tls, msgs>>
    BY <1>12 DEF DataInStage, client
  <2>3. First' => There' /\ Chunked'
    BY <1>1, <2>1, <2>2 DEF class, Connected, Copying, Kind
  <2>4. FreedOnlyAfterReconnect'
    <3> SUFFICES ASSUME NEW s \in DOMAIN host', NEW p \in DOMAIN host'[s],
                        host'[s][p][1] = 0
                 PROVE  s > 1
      BY DEF FreedOnlyAfterReconnect
    <3>1. CASE s # Len(host)
      BY <1>0, <2>1, <3>1 DEF FreedOnlyAfterReconnect
    <3>2. CASE s = Len(host) /\ Len(host) = 1
      <4>1. Chunked /\ p \in DOMAIN (host[s] \o ebuf)
        BY <1>1, <2>1, <3>2
      <4>2. \/ p \in DOMAIN host[s] /\ host'[s][p] = host[s][p]
            \/ p - Len(host[s]) \in DOMAIN ebuf /\ host'[s][p] = ebuf[p - Len(host[s])]
        BY <2>1, <3>2, <4>1, Together
      <4>3. QED
        BY <1>0, <2>1, <3>2, <4>1, <4>2 DEF FreedOnlyAfterReconnect
    <3>3. CASE s = Len(host) /\ Len(host) # 1
      BY <1>0, <2>1, <3>3
    <3>4. QED
      BY <3>1, <3>2, <3>3
  <2> HIDE DEF First, There, Chunked
  <2>5. QED
    BY <1>2, <2>3, <2>4
<1>13. QED
  BY <1>0, <1>5, <1>6, <1>7, <1>8, <1>9, <1>10, <1>11, <1>12, TransferMoves

(* in which nothing has been captured at first. *)
LEMMA InitFreed == Init => FreedInv
BY DEF Init, FreedInv, FreedOnlyAfterReconnect, Connected

(* Who is being served, what the callers' buffers hold, what a transfer looks like. *)
THEOREM Histories == Spec => []HistoryInv
BY InitHistory, NextHistory, Invariance, PTL DEF Spec

(* Memory that wolfSSL has freed is not sent in the host's first session: until a
   reset, the state machine lets go of a record before its sender does.     *)
THEOREM NoFreedMemory == Spec => []FreedOnlyAfterReconnect
<1>1. IInv /\ HistoryInv /\ FreedInv /\ [Next]_vars => FreedInv'
  BY NextFreed
<1>2. FreedInv => FreedOnlyAfterReconnect
  BY DEF FreedInv
<1>3. QED
  BY <1>1, <1>2, InitFreed, Invariance, Histories, PTL DEF Spec

-----------------------------------------------------------------------------
(* Unit b may follow unit a in a session. *)
Fits(a, b) ==
    LET console(u) == u[1] # 0 /\ Kind(u[1]) = "console"
    IN  console(a) /\ console(b) /\ b[1] < a[1] =>
            /\ b[2] > Len_(a[1])
            /\ msgs[b[1]].outcome \in {"gaveup", "skipped"}

OrderInv ==
    /\ write_state # "RESET" /\ wr.area = "stdio" =>
           \A o \in Copying + 1 .. wr.req :
               mem["stdio"][o] # 0 /\ msgs[mem["stdio"][o]].outcome # "ok"
    /\ write_state = "WAIT" =>
           \A q \in DOMAIN ebuf :
               /\ \A p \in 1 .. q - 1 : Fits(ebuf[p], ebuf[q])
               /\ Connected /\ ~ed.done => \A p \in DOMAIN host[Len(host)] :
                      Fits(host[Len(host)][p], ebuf[q])
    /\ ConsoleInOrder


(* What the host and the endpoint hold is of messages there have been. *)
LEMMA KnownIds ==
    ASSUME IInv, HistoryInv
    PROVE  /\ Len(msgs) \in Nat /\ DOMAIN msgs = 1 .. Len(msgs)
           /\ \A s \in DOMAIN host : \A p \in DOMAIN host[s] :
                  /\ host[s][p][1] \in 0 .. Len(msgs)
                  /\ host[s][p][2] \in Nat
           /\ \A k \in DOMAIN ebuf : ebuf[k][1] \in 0 .. Len(msgs) /\ ebuf[k][2] \in Nat
<1>1. /\ Len(msgs) \in Nat /\ DOMAIN msgs = 1 .. Len(msgs)
      /\ host \in Seq(Seq(Units)) /\ ebuf \in Seq(Units)
  BY DEF IInv, TypeOK
<1>2. \A u \in Units : u[1] \in Nat /\ u[2] \in Nat
  BY CdcTxAssumption DEF Units, Lens
<1>3. \A s \in DOMAIN host : \A p \in DOMAIN host[s] : host[s][p] \in Units
  BY <1>1
<1>4. \A k \in DOMAIN ebuf : ebuf[k] \in Units
  BY <1>1
<1>5. QED
  BY <1>1, <1>2, <1>3, <1>4 DEF HistoryInv, ShapeInv

FitsNext(a, b) ==
    LET console(u) == u[1] # 0 /\ msgs'[u[1]].kind = "console"
    IN  console(a) /\ console(b) /\ b[1] < a[1] =>
            /\ b[2] > msgs'[a[1]].len
            /\ msgs'[b[1]].outcome \in {"gaveup", "skipped"}

(* Once two units fit they go on to fit: an older console message is closed. *)
LEMMA FitsStays ==
    ASSUME IInv, HistoryInv, [Next]_vars,
           NEW a, NEW b, a[1] \in 0 .. Len(msgs), b[1] \in 0 .. Len(msgs),
           Fits(a, b)
    PROVE  FitsNext(a, b)
<1> SUFFICES ASSUME a[1] # 0, msgs'[a[1]].kind = "console",
                    b[1] # 0, msgs'[b[1]].kind = "console", b[1] < a[1]
             PROVE  /\ b[2] > msgs'[a[1]].len
                    /\ msgs'[b[1]].outcome \in {"gaveup", "skipped"}
  BY DEF FitsNext
<1>1. /\ Len(msgs) \in Nat /\ DOMAIN msgs = 1 .. Len(msgs)
      /\ \A m \in DOMAIN msgs :
             /\ msgs'[m].kind = msgs[m].kind
             /\ msgs'[m].len = msgs[m].len
             /\ msgs'[m].outcome = msgs[m].outcome \/ msgs[m].outcome = "open"
  BY MsgsGrow DEF HistoryInv
<1>2. a[1] \in DOMAIN msgs /\ b[1] \in DOMAIN msgs
  BY <1>1
<1>3. /\ b[2] > msgs[a[1]].len
      /\ msgs[b[1]].outcome \in {"gaveup", "skipped"}
  BY <1>1, <1>2 DEF Fits, Kind, Len_
<1>4. QED
  BY <1>1, <1>2, <1>3

(* What the state machine finds in a caller's buffer now may follow anything the
   host has: an older message shows only past the end of every later one.   *)
LEMMA CopyFits ==
    ASSUME IInv, HistoryInv, NEW area \in Areas, NEW o \in Lens,
           area = "stdio" => /\ mem["stdio"][o] # 0
                             /\ msgs[mem["stdio"][o]].outcome # "ok",
           NEW a, a[1] \in 0 .. Len(msgs)
    PROVE  Fits(a, <<mem[area][o], o>>)
<1> DEFINE id == mem[area][o]
<1>0. /\ CallersInv /\ BuffersInv /\ ClientOK /\ DeviceOK
      /\ Len(msgs) \in Nat /\ DOMAIN msgs = 1 .. Len(msgs)
      /\ id \in Nat
  BY Halves, CdcTxAssumption DEF HistoryInv, IInv, ClientOK, DeviceOK
<1> HIDE DEF id
<1> SUFFICES ASSUME a[1] # 0, Kind(a[1]) = "console", id # 0, Kind(id) = "console", id < a[1]
             PROVE  o > Len_(a[1]) /\ msgs[id].outcome \in {"gaveup", "skipped"}
  BY DEF Fits, id
<1>1. /\ a[1] \in DOMAIN msgs /\ id \in DOMAIN msgs
      /\ msgs[a[1]] \in Message /\ msgs[id] \in Message
  BY <1>0 DEF ClientOK
<1>2. area = "stdio"
  BY <1>0 DEF BuffersInv, Areas, id
<1>3. Len_(a[1]) \in Nat /\ o \in Nat /\ o >= 1
  BY <1>1, CdcTxAssumption DEF Message, Len_, Lens
<1>4. o > Len_(a[1])
  BY <1>0, <1>1, <1>2, <1>3 DEF BuffersInv, id
<1>5. msgs[id].outcome \in Outcomes
  BY <1>1 DEF Message
<1>6. msgs[id].outcome # "open"
  <2> SUFFICES ASSUME msgs[id].outcome = "open" PROVE FALSE
    OBVIOUS
  <2>1. id \in {cur, tls}
    BY <1>0, <1>1 DEF CallersInv
  <2>2. id = cur /\ id # tls
    BY <1>0, <2>1 DEF CallersInv
  <2>3. cur = Len(msgs)
    BY <1>0, <2>2 DEF CallersInv
  <2>4. QED
    BY <1>0, <1>1, <2>2, <2>3
<1>7. msgs[id].outcome # "reset" /\ msgs[id].outcome # "ok"
  BY <1>0, <1>1, <1>2 DEF CallersInv, id
<1>8. QED
  BY <1>4, <1>5, <1>6, <1>7 DEF Outcomes

(* While a transfer is under way nothing it has still to copy is reported sent. *)
LEMMA StillUnsent ==
    ASSUME IInv, HistoryInv, [Next]_vars, write_state' # "RESET",
           NEW c \in Nat, NEW r \in 0 .. MaxLen,
           \A o \in c + 1 .. r :
               mem["stdio"][o] # 0 /\ msgs[mem["stdio"][o]].outcome # "ok"
    PROVE  \A o \in c + 1 .. r :
               mem'["stdio"][o] # 0 /\ msgs'[mem'["stdio"][o]].outcome # "ok"
<1>0. /\ CallersInv /\ BuffersInv /\ ClientOK /\ DeviceOK /\ MaxLen \in Nat
      /\ \A o \in c + 1 .. r : o \in Lens
      /\ \A o \in Lens : mem["stdio"][o] \in Nat
      /\ "stdio" \in Areas /\ "tls" \in Areas
  <2>1. CallersInv /\ BuffersInv /\ ClientOK /\ DeviceOK
    BY Halves DEF HistoryInv, IInv
  <2>2. MaxLen \in Nat /\ \A o \in c + 1 .. r : o \in Lens
    BY CdcTxAssumption DEF Lens
  <2>3. "stdio" \in Areas /\ "tls" \in Areas
    BY DEF Areas
  <2>4. \A o \in Lens : mem["stdio"][o] \in Nat
    BY <2>1, <2>3, <2>2 DEF DeviceOK
  <2>5. QED
    BY <2>1, <2>2, <2>3, <2>4
<1>1. Len(msgs) \in Nat /\ DOMAIN msgs = 1 .. Len(msgs)
  BY <1>0 DEF ClientOK
<1>2. \A o \in c + 1 .. r : mem["stdio"][o] \in DOMAIN msgs
  BY <1>0, <1>1 DEF BuffersInv
<1>3. CASE Stays /\ (mem' = mem \/ WolfFree)
  <2>1. mem'["stdio"] = mem["stdio"]
    BY <1>0, <1>3 DEF WolfFree, DeviceOK
  <2>2. QED
    BY <1>3, <2>1 DEF Stays
<1>4. ASSUME NEW n \in Lens, Prints(n)
      PROVE  \A o \in c + 1 .. r :
                 mem'["stdio"][o] # 0 /\ msgs'[mem'["stdio"][o]].outcome # "ok"
  <2>1. /\ \A m \in DOMAIN msgs : msgs'[m] = msgs[m]
        /\ msgs'[Len(msgs) + 1].outcome # "ok"
    BY <1>0, <1>4, AppendMsgs DEF Prints
  <2>2. \A o \in Lens : mem'["stdio"][o] = IF o <= n THEN Len(msgs) + 1 ELSE mem["stdio"][o]
    BY <1>0, <1>4, FilledAt DEF Prints
  <2>3. QED
    BY <1>0, <1>1, <1>2, <2>1, <2>2
<1>5. ASSUME NEW k \in {"record", "write"}, NEW n \in Lens, StartRecord(k, n)
      PROVE  \A o \in c + 1 .. r :
                 mem'["stdio"][o] # 0 /\ msgs'[mem'["stdio"][o]].outcome # "ok"
  <2>1. \A m \in DOMAIN msgs : msgs'[m] = msgs[m]
    BY <1>0, <1>5, AppendMsgs DEF StartRecord
  <2>2. \A o \in Lens : mem'["stdio"][o] = mem["stdio"][o]
    BY <1>0, <1>5, FilledAt DEF StartRecord
  <2>3. QED
    BY <1>0, <1>2, <2>1, <2>2
<1>6. ASSUME NEW e \in {"ok", "gaveup", "reset"}, Ends(e), mem' = mem
      PROVE  \A o \in c + 1 .. r :
                 mem'["stdio"][o] # 0 /\ msgs'[mem'["stdio"][o]].outcome # "ok"
  <2>1. e # "ok"
    BY <1>6 DEF Ends, WriteRunDone
  <2>2. QED
    BY <1>0, <1>2, <1>6, <2>1, EndsMsgs
<1>7. QED
  BY <1>0, <1>3, <1>4, <1>5, <1>6, CallerMoves

(* Every step keeps the console's order, *)
LEMMA NextOrder ==
    ASSUME IInv, HistoryInv, OrderInv, [Next]_vars
    PROVE  OrderInv'
<1>0. /\ CallersInv /\ BuffersInv /\ ShapeInv /\ DeviceOK /\ ClientOK
      /\ Len(host) \in Nat /\ DOMAIN host = 1 .. Len(host)
      /\ wr.area \in Areas
      /\ ebuf \in Seq(Units)
      /\ \A s \in DOMAIN host : DOMAIN host[s] = 1 .. Len(host[s]) /\ Len(host[s]) \in Nat
  BY Halves DEF HistoryInv, IInv, DeviceOK, Transfer
<1> DEFINE Unsent == write_state # "RESET" /\ wr.area = "stdio" =>
                        \A o \in Copying + 1 .. wr.req :
                            mem["stdio"][o] # 0 /\ msgs[mem["stdio"][o]].outcome # "ok"
           Chunked == write_state = "WAIT" =>
                        \A q \in DOMAIN ebuf : \A p \in 1 .. q - 1 : Fits(ebuf[p], ebuf[q])
           Ready == Connected /\ write_state = "WAIT" /\ ~ed.done =>
                        \A q \in DOMAIN ebuf : \A p \in DOMAIN host[Len(host)] :
                            Fits(host[Len(host)][p], ebuf[q])
           Seen == \A s \in DOMAIN host : \A q \in DOMAIN host[s] : \A p \in 1 .. q - 1 :
                            Fits(host[s][p], host[s][q])
           ChunkedNext == write_state' = "WAIT" =>
                        \A q \in DOMAIN ebuf' : \A p \in 1 .. q - 1 :
                            FitsNext(ebuf'[p], ebuf'[q])
           ReadyNext == Connected' /\ write_state' = "WAIT" /\ ~ed'.done =>
                        \A q \in DOMAIN ebuf' : \A p \in DOMAIN host'[Len(host')] :
                            FitsNext(host'[Len(host')][p], ebuf'[q])
           SeenNext == \A s \in DOMAIN host' : \A q \in DOMAIN host'[s] : \A p \in 1 .. q - 1 :
                            FitsNext(host'[s][p], host'[s][q])
<1>1. Unsent /\ Chunked /\ Ready /\ Seen
  BY DEF OrderInv, ConsoleInOrder, Fits
<1>2. ASSUME Unsent', ChunkedNext, ReadyNext, SeenNext PROVE OrderInv'
  BY <1>2 DEF OrderInv, ConsoleInOrder, Fits, FitsNext, Kind, Len_
<1> HIDE DEF Unsent
<1>3. ASSUME write_state # "RESET", write_state' # "RESET",
             wr'.area = wr.area, wr'.req = wr.req, Copying' = Copying
      PROVE  Unsent'
  <2> SUFFICES ASSUME wr.area = "stdio"
               PROVE  \A o \in Copying + 1 .. wr.req :
                          mem'["stdio"][o] # 0 /\ msgs'[mem'["stdio"][o]].outcome # "ok"
    BY <1>3 DEF Unsent
  <2>1. \A o \in Copying + 1 .. wr.req :
            mem["stdio"][o] # 0 /\ msgs[mem["stdio"][o]].outcome # "ok"
    BY <1>1, <1>3 DEF Unsent
  <2>2. QED
    BY <1>3, <2>1, CopyingIs, StillUnsent
<1>4. ASSUME NEW a, NEW b, a[1] \in 0 .. Len(msgs), b[1] \in 0 .. Len(msgs), Fits(a, b)
      PROVE  FitsNext(a, b)
  BY <1>4, FitsStays
<1>5. /\ \A s \in DOMAIN host : \A p \in DOMAIN host[s] : host[s][p][1] \in 0 .. Len(msgs)
      /\ \A k \in DOMAIN ebuf : ebuf[k][1] \in 0 .. Len(msgs)
      /\ DOMAIN ebuf = 1 .. Len(ebuf) /\ Len(ebuf) \in Nat
  BY <1>0, KnownIds
<1>6. ASSUME host' = host PROVE SeenNext
  <2>1. ASSUME NEW s \in DOMAIN host, NEW q \in DOMAIN host[s], NEW p \in 1 .. q - 1
        PROVE  FitsNext(host[s][p], host[s][q])
    <3>1. p \in DOMAIN host[s]
      BY <1>0, <2>1
    <3>2. Fits(host[s][p], host[s][q])
      BY <1>1, <2>1
    <3>3. QED
      BY <1>4, <1>5, <2>1, <3>1, <3>2
  <2>2. QED
    BY <1>6, <2>1
<1>7. ASSUME ebuf' = ebuf, write_state = "WAIT" PROVE ChunkedNext
  <2>1. ASSUME NEW q \in DOMAIN ebuf, NEW p \in 1 .. q - 1
        PROVE  FitsNext(ebuf[p], ebuf[q])
    <3>1. p \in DOMAIN ebuf
      BY <1>5, <2>1
    <3>2. QED
      BY <1>1, <1>4, <1>5, <1>7, <2>1, <3>1
  <2>2. QED
    BY <1>7, <2>1
<1>8. ASSUME UNCHANGED <<ebuf, host>>, Connected, write_state = "WAIT", ~ed.done
      PROVE  ReadyNext
  <2>1. Len(host) \in DOMAIN host
    BY <1>0, <1>8 DEF ShapeInv
  <2>2. ASSUME NEW q \in DOMAIN ebuf, NEW p \in DOMAIN host[Len(host)]
        PROVE  FitsNext(host[Len(host)][p], ebuf[q])
    BY <1>1, <1>4, <1>5, <1>8, <2>1, <2>2
  <2>3. QED
    BY <1>8, <2>2
<1> HIDE DEF Chunked, Ready, Seen, ChunkedNext, ReadyNext, SeenNext
<1>9. CASE Rests \/ Arms
  <2>1. UNCHANGED <<host, class>> /\ ed'.done = ed.done /\ (Connected' <=> Connected)
    BY <1>0, <1>9 DEF Rests, Arms, bus, DeviceOK, Status, Connected
  <2>2. Copying' = Copying
    BY <2>1 DEF class, Copying
  <2>3. Unsent'
    <3>1. CASE write_state # "RESET"
      BY <1>3, <2>1, <2>2, <3>1 DEF class
    <3>2. CASE write_state = "RESET"
      BY <2>1, <3>2 DEF class, Unsent
    <3>3. QED
      BY <3>1, <3>2
  <2>4. ChunkedNext
    BY <1>7, <2>1 DEF class, ChunkedNext
  <2>5. ReadyNext
    BY <1>8, <2>1 DEF class, ReadyNext
  <2>6. QED
    BY <1>2, <1>6, <2>1, <2>3, <2>4, <2>5
<1>10. CASE Configures
  <2>1. UNCHANGED <<class, ed>>
    BY <1>10 DEF Configures
  <2>2. Unsent'
    <3>1. CASE write_state # "RESET"
      BY <1>3, <2>1, <3>1 DEF class, Copying
    <3>2. CASE write_state = "RESET"
      BY <2>1, <3>2 DEF class, Unsent
    <3>3. QED
      BY <3>1, <3>2
  <2>3. ChunkedNext
    BY <1>7, <2>1 DEF class, ChunkedNext
  <2>4. ReadyNext
    BY <1>0, <1>10, HostAfterConfigure DEF ReadyNext
  <2>5. SeenNext
    <3> SUFFICES ASSUME NEW s \in DOMAIN host', NEW q \in DOMAIN host'[s], NEW p \in 1 .. q - 1
                 PROVE  FitsNext(host'[s][p], host'[s][q])
      BY DEF SeenNext
    <3>1. s \in DOMAIN host /\ host'[s] = host[s]
      BY <1>0, <1>10, HostAfterConfigure
    <3>2. p \in DOMAIN host[s] /\ q \in DOMAIN host[s]
      BY <1>0, <3>1
    <3>3. QED
      BY <1>1, <1>4, <1>5, <3>1, <3>2 DEF Seen
  <2>6. QED
    BY <1>2, <2>2, <2>3, <2>4, <2>5
<1>11. CASE Drops \/ WriteRunDone
  BY <1>2, <1>6, <1>11 DEF Drops, WriteRunDone, bus, Unsent, ChunkedNext, ReadyNext
<1>12. CASE Leaves
  <2>1. UNCHANGED <<class, host>> /\ ~Connected'
    BY <1>12 DEF Leaves, Connected
  <2>2. Unsent'
    <3>1. CASE write_state # "RESET"
      BY <1>3, <2>1, <3>1 DEF class, Copying
    <3>2. CASE write_state = "RESET"
      BY <2>1, <3>2 DEF class, Unsent
    <3>3. QED
      BY <3>1, <3>2
  <2>3. QED
    BY <1>2, <1>6, <1>7, <2>1, <2>2 DEF class, ChunkedNext, ReadyNext
<1>13. CASE Collects
  <2>1. write_state = "WAIT" /\ write_state' = "START" /\ host' = host
    BY <1>0, <1>13 DEF Collects, ShapeInv, bus
  <2>2. wr'.area = wr.area /\ wr'.req = wr.req /\ wr'.act = wr.act + wr.xfer
    BY <1>0, <1>13 DEF Collects, DeviceOK, Transfer
  <2>3. Copying' = Copying
    BY <2>1, <2>2, CopyingIs
  <2>4. Unsent'
    BY <1>3, <2>1, <2>2, <2>3
  <2>5. QED
    BY <1>2, <1>6, <2>1, <2>4 DEF ChunkedNext, ReadyNext
<1>14. CASE WriteRunCopy
  <2>1. /\ UNCHANGED <<bus, mem, tls, msgs>> /\ write_state' = "WAIT"
        /\ wr'.area \in Areas /\ wr'.req \in 0 .. MaxLen /\ wr'.act \in 0 .. MaxLen
        /\ wr'.xfer \in Nat /\ wr'.act + wr'.xfer <= wr'.req
        /\ DOMAIN ebuf' = 1 .. wr'.xfer
        /\ \A k \in 1 .. wr'.xfer :
               ebuf'[k] = <<mem[wr'.area][wr'.act + k], wr'.act + k>>
        /\ Len(host) \in DOMAIN host
    BY <1>0, <1>14, CopyFacts DEF ShapeInv
  <2>2. host' = host /\ Copying' = wr'.act + wr'.xfer
    BY <2>1, CopyingIs DEF bus
  <2>3. ASSUME wr'.area = "stdio"
        PROVE  \A o \in wr'.act + 1 .. wr'.req :
                   mem["stdio"][o] # 0 /\ msgs[mem["stdio"][o]].outcome # "ok"
    <3>1. CASE write_state = "RESET"
      <4>1. wr'.area = Area(cur) /\ wr'.req = Len_(cur) /\ wr'.act = 0 /\ cur # 0
        BY <1>0, <1>14, <3>1, CopyFacts
      <4>2. /\ \A o \in 1 .. Len_(cur) : mem[Area(cur)][o] = cur
            /\ cur \in DOMAIN msgs
        BY <1>0, <4>1, CurHeld
      <4>3. msgs[cur].outcome = "open"
        BY <1>0, <4>2 DEF CallersInv
      <4>4. QED
        BY <2>3, <4>1, <4>2, <4>3
    <3>2. CASE write_state = "START"
      <4>1. wr'.area = wr.area /\ wr'.req = wr.req /\ wr'.act = wr.act
        BY <1>0, <1>14, <3>2, CopyFacts
      <4>2. Copying = wr.act
        BY <3>2, CopyingIs
      <4>3. QED
        BY <1>1, <2>3, <3>2, <4>1, <4>2 DEF Unsent
    <3>3. QED
      BY <1>0, <1>14, <3>1, <3>2, CopyFacts
  <2>4. Unsent'
    <3> SUFFICES ASSUME wr'.area = "stdio"
                 PROVE  \A o \in wr'.act + wr'.xfer + 1 .. wr'.req :
                            mem'["stdio"][o] # 0 /\ msgs'[mem'["stdio"][o]].outcome # "ok"
      BY <2>2 DEF Unsent
    <3>1. \A o \in wr'.act + wr'.xfer + 1 .. wr'.req : o \in wr'.act + 1 .. wr'.req
      BY <2>1, CdcTxAssumption
    <3>2. QED
      BY <2>1, <2>3, <3>1
  <2>5. ASSUME NEW a, a[1] \in 0 .. Len(msgs), NEW k \in DOMAIN ebuf'
        PROVE  FitsNext(a, ebuf'[k])
    <3>1. wr'.act + k \in Lens /\ wr'.act + k \in wr'.act + 1 .. wr'.req
      <4>1. k \in 1 .. wr'.xfer
        BY <2>1, <2>5
      <4>2. MaxLen \in Nat
        BY CdcTxAssumption
      <4>3. wr'.act + k >= 1 /\ wr'.act + k <= wr'.req /\ wr'.act + k <= MaxLen
            /\ wr'.act + k \in Nat
        BY <2>1, <4>1, <4>2
      <4>4. wr'.act + k \in Lens
        BY <4>2, <4>3 DEF Lens
      <4>5. QED
        BY <2>1, <4>1, <4>2, <4>3, <4>4
    <3>2. Fits(a, ebuf'[k])
      <4>1. Fits(a, <<mem[wr'.area][wr'.act + k], wr'.act + k>>)
        BY <2>1, <2>3, <2>5, <3>1, CopyFits
      <4>2. QED
        BY <2>1, <2>5, <4>1
    <3>3. QED
      BY <2>1, <3>2 DEF Fits, FitsNext, Kind, Len_
  <2>6. ASSUME NEW k \in DOMAIN ebuf' PROVE ebuf'[k][1] \in 0 .. Len(msgs)
    <3>1. ebuf'[k][1] <= Len(msgs')
      BY <2>6, NextHistory DEF HistoryInv, ShapeInv
    <3>2. ebuf'[k] \in Units
      BY <1>0, <1>14, <2>6, CopyFacts
    <3>3. QED
      BY <2>1, <3>1, <3>2, KnownIds, CdcTxAssumption DEF Units
  <2>7. ChunkedNext
    <3> SUFFICES ASSUME NEW q \in DOMAIN ebuf', NEW p \in 1 .. q - 1
                 PROVE  FitsNext(ebuf'[p], ebuf'[q])
      BY DEF ChunkedNext
    <3>1. p \in DOMAIN ebuf'
      BY <2>1
    <3>2. QED
      BY <2>5, <2>6, <3>1
  <2>8. ReadyNext
    <3> SUFFICES ASSUME NEW q \in DOMAIN ebuf', NEW p \in DOMAIN host[Len(host)]
                 PROVE  FitsNext(host[Len(host)][p], ebuf'[q])
      BY <2>2 DEF ReadyNext
    <3>1. QED
      BY <1>5, <2>1, <2>5
  <2>9. QED
    BY <1>2, <1>6, <2>2, <2>4, <2>7, <2>8
<1>15. CASE DataInStage
  <2>1. /\ Connected /\ write_state = "WAIT" /\ ~ed.done
        /\ Len(host') = Len(host) /\ Len(host) \in DOMAIN host
        /\ DOMAIN host' = DOMAIN host
        /\ \A s \in DOMAIN host : s # Len(host) => host'[s] = host[s]
        /\ host[Len(host)] \in Seq(Units)
        /\ host'[Len(host)] = host[Len(host)] \o ebuf
        /\ \A i \in DOMAIN host : host[i] \in Seq(Units)
    BY <1>0, <1>15, HostAfterPacket DEF DeviceOK
  <2>2. UNCHANGED <<class, mem, msgs>>
    BY <1>15 DEF DataInStage, client
  <2>3. Unsent'
    BY <1>3, <2>1, <2>2 DEF class, Copying
  <2>4. ChunkedNext
    BY <1>7, <2>1, <2>2 DEF class
  <2>5. ed'.done
    BY <1>0, <1>15 DEF DataInStage, DeviceOK, Status
  <2>6. SeenNext
    <3> SUFFICES ASSUME NEW s \in DOMAIN host', NEW q \in DOMAIN host'[s], NEW p \in 1 .. q - 1
                 PROVE  Fits(host'[s][p], host'[s][q])
      BY <2>2 DEF SeenNext, Fits, FitsNext, Kind, Len_
    <3>1. CASE s # Len(host)
      BY <1>1, <2>1, <3>1 DEF Seen
    <3>2. CASE s = Len(host)
      <4> DEFINE h == host[Len(host)]
      <4>1. /\ h \in Seq(Units) /\ host'[s] = h \o ebuf
            /\ Len(h) \in Nat /\ DOMAIN h = 1 .. Len(h)
            /\ DOMAIN host'[s] = 1 .. Len(h) + Len(ebuf)
        BY <1>0, <1>5, <2>1, <3>2
      <4>2. q \in 1 .. Len(h) + Len(ebuf) /\ p \in DOMAIN (h \o ebuf) /\ q \in DOMAIN (h \o ebuf)
        BY <1>5, <4>1
      <4>3. \/ p \in DOMAIN h /\ host'[s][p] = h[p]
            \/ p - Len(h) \in DOMAIN ebuf /\ host'[s][p] = ebuf[p - Len(h)] /\ p > Len(h)
        BY <1>0, <4>1, <4>2, Together
      <4>4. \/ q \in DOMAIN h /\ host'[s][q] = h[q]
            \/ q - Len(h) \in DOMAIN ebuf /\ host'[s][q] = ebuf[q - Len(h)] /\ q > Len(h)
        BY <1>0, <4>1, <4>2, Together
      <4>5. /\ \A y \in DOMAIN h : \A x \in 1 .. y - 1 : Fits(h[x], h[y])
            /\ \A y \in DOMAIN ebuf : \A x \in DOMAIN h : Fits(h[x], ebuf[y])
            /\ \A y \in DOMAIN ebuf : \A x \in 1 .. y - 1 : Fits(ebuf[x], ebuf[y])
        BY <1>1, <2>1 DEF Seen, Ready, Chunked
      <4> HIDE DEF h
      <4>6. CASE q \in DOMAIN h /\ host'[s][q] = h[q]
        BY <4>1, <4>3, <4>5, <4>6
      <4>7. CASE q - Len(h) \in DOMAIN ebuf /\ host'[s][q] = ebuf[q - Len(h)] /\ q > Len(h)
        <5>1. CASE p \in DOMAIN h /\ host'[s][p] = h[p]
          BY <4>5, <4>7, <5>1
        <5>2. CASE p - Len(h) \in DOMAIN ebuf /\ host'[s][p] = ebuf[p - Len(h)]
          <6>1. p - Len(h) \in 1 .. (q - Len(h)) - 1
            BY <1>5, <4>1, <4>2, <5>2
          <6>2. QED
            BY <4>5, <4>7, <5>2, <6>1
        <5>3. QED
          BY <4>3, <5>1, <5>2
      <4>8. QED
        BY <4>4, <4>6, <4>7
    <3>3. QED
      BY <3>1, <3>2
  <2>7. QED
    BY <1>2, <2>3, <2>4, <2>5, <2>6 DEF ReadyNext
<1>16. QED
  BY <1>0, <1>9, <1>10, <1>11, <1>12, <1>13, <1>14, <1>15, TransferMoves

(* which an empty stream has. *)
LEMMA InitOrder == Init => OrderInv
BY DEF Init, OrderInv, ConsoleInOrder

(* The console shows an older message after a newer one only past the newer one's
   end, and only one that nobody was told had been sent.                    *)
THEOREM InOrder == Spec => []ConsoleInOrder
<1>1. IInv /\ HistoryInv /\ OrderInv /\ [Next]_vars => OrderInv'
  BY NextOrder
<1>2. OrderInv => ConsoleInOrder
  BY DEF OrderInv
<1>3. QED
  BY <1>1, <1>2, InitOrder, Invariance, Histories, PTL DEF Spec

-----------------------------------------------------------------------------
(* Console text went through the state machine after record m was built. *)
Disturbed(m) ==
    /\ Kind(m) # "console"
    /\ \E j \in m + 1 .. Len(msgs) : Kind(j) = "console" /\ msgs[j].outcome # "skipped"

(* A message begins once: its first unit is copied only for its own call, which
   finds the state machine in RESET; while the message waits the transfer it began
   is still there, and its completion is the message's own unless another call,
   which must be the console's, sees it first.                              *)
OnceInv ==
    /\ write_state = "WAIT" => \A k \in DOMAIN ebuf :
           ebuf[k][2] = 1 /\ ebuf[k][1] # 0 => wr.req = Len_(ebuf[k][1])
    /\ Connected => \A m \in {cur, tls} \ {0} : \A p \in DOMAIN host[Len(host)] :
           host[Len(host)][p] = <<m, 1>> =>
               Disturbed(m) \/ (write_state # "RESET" /\ wr.req = Len_(m))
    /\ Connected /\ write_state = "WAIT" /\ ~ed.done =>
           \A k \in DOMAIN ebuf : \A m \in DOMAIN msgs : ebuf[k] = <<m, 1>> =>
               Disturbed(m) \/ \A p \in DOMAIN host[Len(host)] : host[Len(host)][p] # <<m, 1>>
    /\ \A m \in DOMAIN msgs : ~Disturbed(m) =>
           \A s \in DOMAIN host : \A p, q \in DOMAIN host[s] :
               host[s][p] = <<m, 1>> /\ host[s][q] = <<m, 1>> => p = q

DisturbedNext(m) ==
    /\ msgs'[m].kind # "console"
    /\ \E j \in m + 1 .. Len(msgs') :
           msgs'[j].kind = "console" /\ msgs'[j].outcome # "skipped"

(* A record that the console has called after stays so. *)
LEMMA DisturbedStays ==
    ASSUME IInv, HistoryInv, [Next]_vars, NEW m \in DOMAIN msgs, Disturbed(m)
    PROVE  DisturbedNext(m)
<1>1. /\ Len(msgs) \in Nat /\ Len(msgs') \in Nat /\ Len(msgs) <= Len(msgs')
      /\ DOMAIN msgs = 1 .. Len(msgs)
      /\ \A i \in DOMAIN msgs :
             /\ msgs'[i].kind = msgs[i].kind
             /\ msgs[i].outcome # "skipped" => msgs'[i].outcome # "skipped"
  BY MsgsGrow DEF HistoryInv
<1>2. PICK j \in m + 1 .. Len(msgs) : msgs[j].kind = "console" /\ msgs[j].outcome # "skipped"
  BY DEF Disturbed, Kind
<1>3. j \in DOMAIN msgs /\ j \in m + 1 .. Len(msgs')
  BY <1>1
<1>4. msgs'[m].kind # "console"
  BY <1>1 DEF Disturbed, Kind
<1>5. QED
  BY <1>1, <1>2, <1>3, <1>4 DEF DisturbedNext

(* Who is open after a step was open before it, or is new. *)
LEMMA OpenBefore ==
    ASSUME IInv, HistoryInv, [Next]_vars, NEW m \in {cur', tls'} \ {0}, m <= Len(msgs)
    PROVE  m \in DOMAIN msgs /\ m \in {cur, tls} \ {0}
<1>1. /\ Len(msgs) \in Nat /\ DOMAIN msgs = 1 .. Len(msgs) /\ DOMAIN msgs' = 1 .. Len(msgs')
      /\ \A i \in DOMAIN msgs :
             msgs'[i].outcome = "open" => msgs[i].outcome = "open"
  BY MsgsGrow DEF HistoryInv
<1>2. IInv' /\ HistoryInv'
  BY NextIInv, NextHistory
<1>3. m \in 1 .. Len(msgs')
  BY <1>1, <1>2, SMTT(30) DEF IInv, TypeOK
<1>4. m \in DOMAIN msgs
  BY <1>1, <1>3
<1>5. msgs'[m].outcome = "open"
  BY <1>1, <1>2, <1>3 DEF HistoryInv, CallersInv
<1>6. QED
  BY <1>1, <1>3, <1>4, <1>5 DEF HistoryInv, CallersInv

(* Every step keeps a message from being begun again, *)
LEMMA NextOnce ==
    ASSUME IInv, HistoryInv, OnceInv, [Next]_vars
    PROVE  OnceInv'
<1>0. /\ CallersInv /\ BuffersInv /\ ShapeInv /\ DeviceOK /\ ClientOK
      /\ Len(host) \in Nat /\ DOMAIN host = 1 .. Len(host)
      /\ ebuf \in Seq(Units) /\ DOMAIN ebuf = 1 .. Len(ebuf) /\ Len(ebuf) \in Nat
      /\ \A s \in DOMAIN host : DOMAIN host[s] = 1 .. Len(host[s]) /\ Len(host[s]) \in Nat
      /\ wr.act \in Nat
  BY Halves DEF HistoryInv, IInv, DeviceOK, Transfer
<1> DEFINE Captures == write_state = "WAIT" => \A k \in DOMAIN ebuf :
               ebuf[k][2] = 1 /\ ebuf[k][1] # 0 => wr.req = msgs[ebuf[k][1]].len
           Lives == Connected => \A m \in {cur, tls} \ {0} : \A p \in DOMAIN host[Len(host)] :
               host[Len(host)][p] = <<m, 1>> =>
                   Disturbed(m) \/ (write_state # "RESET" /\ wr.req = msgs[m].len)
           LivesNext == Connected' => \A m \in {cur', tls'} \ {0} :
               \A p \in DOMAIN host'[Len(host')] : host'[Len(host')][p] = <<m, 1>> =>
                   DisturbedNext(m) \/ (write_state' # "RESET" /\ wr'.req = msgs'[m].len)
           Ready == Connected /\ write_state = "WAIT" /\ ~ed.done =>
               \A k \in DOMAIN ebuf : \A m \in DOMAIN msgs : ebuf[k] = <<m, 1>> =>
                   Disturbed(m) \/ \A p \in DOMAIN host[Len(host)] : host[Len(host)][p] # <<m, 1>>
           ReadyNext == Connected' /\ write_state' = "WAIT" /\ ~ed'.done =>
               \A k \in DOMAIN ebuf' : \A m \in DOMAIN msgs' : ebuf'[k] = <<m, 1>> =>
                   DisturbedNext(m) \/ \A p \in DOMAIN host'[Len(host')] :
                                           host'[Len(host')][p] # <<m, 1>>
           Once == \A m \in DOMAIN msgs : ~Disturbed(m) =>
               \A s \in DOMAIN host : \A p, q \in DOMAIN host[s] :
                   host[s][p] = <<m, 1>> /\ host[s][q] = <<m, 1>> => p = q
           OnceNext == \A m \in DOMAIN msgs' : ~DisturbedNext(m) =>
               \A s \in DOMAIN host' : \A p, q \in DOMAIN host'[s] :
                   host'[s][p] = <<m, 1>> /\ host'[s][q] = <<m, 1>> => p = q
<1>1. Captures /\ Lives /\ Ready /\ Once
  BY DEF OnceInv, Len_
<1>2. ASSUME Captures', LivesNext, ReadyNext, OnceNext PROVE OnceInv'
  BY <1>2 DEF OnceInv, Len_, Disturbed, DisturbedNext, Kind
<1>3. /\ Len(msgs) \in Nat /\ Len(msgs') \in Nat /\ Len(msgs) <= Len(msgs')
      /\ DOMAIN msgs = 1 .. Len(msgs) /\ DOMAIN msgs' = 1 .. Len(msgs')
      /\ \A m \in DOMAIN msgs :
             /\ msgs'[m].kind = msgs[m].kind
             /\ msgs'[m].len = msgs[m].len
             /\ msgs'[m].outcome = "skipped" => msgs[m].outcome = "skipped"
  BY MsgsGrow DEF HistoryInv
<1>4. \A m \in DOMAIN msgs : Disturbed(m) => DisturbedNext(m)
  BY DisturbedStays
<1>5. /\ \A s \in DOMAIN host : \A p \in DOMAIN host[s] : host[s][p][1] \in 0 .. Len(msgs)
      /\ \A k \in DOMAIN ebuf : ebuf[k][1] \in 0 .. Len(msgs)
  BY KnownIds
<1>6. ASSUME NEW m, NEW s \in DOMAIN host, NEW p \in DOMAIN host[s], host[s][p] = <<m, 1>>
      PROVE  m <= Len(msgs)
  BY <1>3, <1>5, <1>6
<1>7. ASSUME UNCHANGED ebuf, UNCHANGED wr, write_state = "WAIT" PROVE Captures'
  BY <1>1, <1>3, <1>5, <1>7
<1>8. ASSUME host' = host PROVE OnceNext
  <2> SUFFICES ASSUME NEW m \in DOMAIN msgs', ~DisturbedNext(m), NEW s \in DOMAIN host,
                      NEW p \in DOMAIN host[s], NEW q \in DOMAIN host[s],
                      host[s][p] = <<m, 1>>, host[s][q] = <<m, 1>>
               PROVE  p = q
    BY <1>8
  <2>1. m \in DOMAIN msgs
    BY <1>3, <1>6
  <2>2. QED
    BY <1>1, <1>4, <2>1
<1>9. ASSUME host' = host, Connected,
             write_state = "RESET" \/ (write_state' # "RESET" /\ wr'.req = wr.req)
      PROVE  LivesNext
  <2> SUFFICES ASSUME NEW m \in {cur', tls'} \ {0}, NEW p \in DOMAIN host[Len(host)],
                      host[Len(host)][p] = <<m, 1>>
               PROVE  DisturbedNext(m) \/ (write_state' # "RESET" /\ wr'.req = msgs'[m].len)
    BY <1>9
  <2>1. Len(host) \in DOMAIN host
    BY <1>0, <1>9 DEF ShapeInv
  <2>2. m \in DOMAIN msgs /\ m \in {cur, tls} \ {0}
    BY <1>6, <2>1, OpenBefore
  <2>3. Disturbed(m) \/ (write_state # "RESET" /\ wr.req = msgs[m].len)
    BY <1>1, <1>9, <2>2
  <2>4. QED
    BY <1>3, <1>4, <1>9, <2>2, <2>3
<1>10. ASSUME UNCHANGED <<host, ebuf>>, Connected, write_state = "WAIT", ~ed.done
       PROVE  ReadyNext
  <2> SUFFICES ASSUME NEW k \in DOMAIN ebuf, NEW m \in DOMAIN msgs', ebuf[k] = <<m, 1>>
               PROVE  DisturbedNext(m) \/ \A p \in DOMAIN host[Len(host)] :
                                              host[Len(host)][p] # <<m, 1>>
    BY <1>10
  <2>1. m \in DOMAIN msgs
    BY <1>3, <1>5
  <2>2. QED
    BY <1>1, <1>4, <1>10, <2>1
<1> HIDE DEF Captures, Lives, Ready, Once, LivesNext, ReadyNext, OnceNext
<1>11. CASE Rests \/ Arms
  <2>1. UNCHANGED <<host, class>> /\ ed'.done = ed.done /\ (Connected' <=> Connected)
    BY <1>0, <1>11 DEF Rests, Arms, bus, DeviceOK, Status, Connected
  <2>2. Captures'
    BY <1>7, <2>1 DEF class, Captures
  <2>3. LivesNext
    BY <1>9, <2>1 DEF class, LivesNext
  <2>4. ReadyNext
    BY <1>10, <2>1 DEF class, ReadyNext
  <2>5. QED
    BY <1>2, <1>8, <2>1, <2>2, <2>3, <2>4
<1>12. CASE Configures
  <2>1. /\ Len(host') = Len(host) + 1 /\ DOMAIN host' = 1 .. Len(host) + 1
        /\ \A s \in DOMAIN host : host'[s] = host[s]
        /\ host'[Len(host')] = <<>>
    BY <1>0, <1>12, HostAfterConfigure
  <2>2. \A p \in DOMAIN host'[Len(host')] : FALSE
    BY <2>1
  <2>3. LivesNext /\ ReadyNext
    BY <2>2 DEF LivesNext, ReadyNext
  <2>4. Captures'
    BY <1>7, <1>12 DEF Configures, class, Captures
  <2>5. OnceNext
    <3> SUFFICES ASSUME NEW m \in DOMAIN msgs', ~DisturbedNext(m), NEW s \in DOMAIN host',
                        NEW p \in DOMAIN host'[s], NEW q \in DOMAIN host'[s],
                        host'[s][p] = <<m, 1>>, host'[s][q] = <<m, 1>>
                 PROVE  p = q
      BY DEF OnceNext
    <3>1. s \in DOMAIN host /\ host'[s] = host[s]
      BY <1>0, <2>1, <2>2
    <3>2. m \in DOMAIN msgs
      BY <1>3, <1>6, <3>1
    <3>3. QED
      BY <1>1, <1>4, <3>1, <3>2 DEF Once
  <2>6. QED
    BY <1>2, <2>3, <2>4, <2>5
<1>13. CASE Drops
  <2>1. ~Connected' /\ host' = host /\ write_state' = "RESET"
    BY <1>13 DEF Drops, bus, Connected
  <2>2. QED
    BY <1>2, <1>8, <2>1 DEF Captures, LivesNext, ReadyNext
<1>14. CASE Leaves
  <2>1. ~Connected' /\ UNCHANGED <<host, class>>
    BY <1>14 DEF Leaves, Connected
  <2>2. Captures'
    BY <1>7, <2>1 DEF class, Captures
  <2>3. QED
    BY <1>2, <1>8, <2>1, <2>2 DEF LivesNext, ReadyNext
<1>15. CASE Collects
  <2>1. /\ write_state = "WAIT" /\ write_state' = "START" /\ host' = host
        /\ (Connected' <=> Connected) /\ Connected
    BY <1>0, <1>15 DEF Collects, ShapeInv, bus, Connected
  <2>2. wr'.req = wr.req
    BY <1>0, <1>15 DEF Collects, DeviceOK, Transfer
  <2>3. LivesNext
    BY <1>9, <2>1, <2>2
  <2>4. QED
    BY <1>2, <1>8, <2>1, <2>3 DEF Captures, ReadyNext
<1>16. CASE WriteRunDone
  <2>1. /\ Connected /\ write_state = "START" /\ wr.act = wr.req /\ write_state' = "RESET"
        /\ host' = host /\ Len(host) \in DOMAIN host
        /\ IF wr.act = Len_(cur) THEN Settle("ok") ELSE Busy
        /\ pc = "run"
    BY <1>0, <1>16 DEF WriteRunDone, bus, ShapeInv
  <2>2. cur # 0 /\ cur \in DOMAIN msgs
    BY <1>0, <2>1 DEF ClientOK
  <2>3. ASSUME NEW m \in {cur', tls'} \ {0}, NEW p \in DOMAIN host[Len(host)],
               host[Len(host)][p] = <<m, 1>>
        PROVE  DisturbedNext(m)
    <3>1. m \in DOMAIN msgs /\ m \in {cur, tls} \ {0} /\ m \in Nat
      BY <1>3, <1>6, <2>1, <2>3, OpenBefore
    <3>2. Disturbed(m) \/ wr.req = msgs[m].len
      BY <1>1, <2>1, <2>3, <3>1 DEF Lives
    <3>3. CASE m = cur /\ wr.req = msgs[m].len
      <4>1. Settle("ok")
        BY <2>1, <3>3 DEF Len_
      <4>2. Ends("ok")
        BY <1>16, <2>1, <2>2, <3>3, <4>1, SettleMoves DEF Len_
      <4>3. m \in DOMAIN msgs' /\ msgs'[m].outcome = "ok"
        BY <1>0, <2>2, <3>3, <4>2, EndsMsgs
      <4>4. CallersInv'
        BY NextHistory DEF HistoryInv
      <4>5. msgs'[m].outcome = "open"
        BY <2>3, <4>3, <4>4 DEF CallersInv
      <4>6. QED
        BY <4>3, <4>5
    <3>4. CASE m # cur
      <4>1. m = tls /\ cur # tls /\ tls # 0
        BY <3>1, <3>4
      <4>2. Kind(cur) = "console" /\ cur = Len(msgs) /\ Kind(m) = "record"
        BY <1>0, <2>2, <4>1 DEF CallersInv
      <4>3. msgs[cur].outcome = "open"
        BY <1>0, <2>2 DEF CallersInv
      <4>4. /\ cur \in m + 1 .. Len(msgs')
            /\ msgs'[cur].kind = "console" /\ msgs'[cur].outcome # "skipped"
            /\ msgs'[m].kind = "record"
        BY <1>3, <2>2, <3>1, <3>4, <4>2, <4>3 DEF Kind
      <4>5. QED
        BY <4>4 DEF DisturbedNext
    <3>5. QED
      BY <1>4, <3>1, <3>2, <3>3, <3>4
  <2>4. LivesNext
    BY <2>1, <2>3 DEF LivesNext
  <2>5. QED
    BY <1>2, <1>8, <2>1, <2>4 DEF Captures, ReadyNext
<1>17. CASE WriteRunCopy
  <2>1. /\ UNCHANGED <<host, mem, cur, tls, msgs, dev>> /\ write_state' = "WAIT"
        /\ Connected /\ cur # 0
        /\ wr'.act \in 0 .. MaxLen /\ wr'.xfer \in Nat /\ wr'.act + wr'.xfer <= wr'.req
        /\ DOMAIN ebuf' = 1 .. wr'.xfer
        /\ \A k \in 1 .. wr'.xfer :
               ebuf'[k] = <<mem[wr'.area][wr'.act + k], wr'.act + k>>
        /\ Len(host) \in DOMAIN host
    BY <1>0, <1>17, CopyFacts DEF ShapeInv, bus
  <2>2. /\ cur \in DOMAIN msgs /\ Len_(cur) \in Nat
        /\ \A o \in 1 .. Len_(cur) : mem[Area(cur)][o] = cur
    BY <1>0, <2>1, CurHeld, CdcTxAssumption DEF Lens
  <2>3. \/ /\ write_state = "RESET"
           /\ wr'.area = Area(cur) /\ wr'.req = Len_(cur) /\ wr'.act = 0
        \/ write_state = "START" /\ wr'.req = wr.req /\ wr'.act = wr.act
    BY <1>0, <1>17, CopyFacts
  <2>4. ASSUME NEW k \in DOMAIN ebuf', ebuf'[k][2] = 1
        PROVE  /\ write_state = "RESET" /\ ebuf'[k] = <<cur, 1>>
               /\ wr'.req = msgs'[cur].len
    <3>1. k \in 1 .. wr'.xfer /\ ebuf'[k] = <<mem[wr'.area][wr'.act + k], wr'.act + k>>
      BY <2>1
    <3>2. wr'.act + k = 1
      BY <2>4, <3>1
    <3>3. wr'.act = 0 /\ k = 1
      BY <2>1, <3>1, <3>2, CdcTxAssumption
    <3>4. write_state = "RESET"
      BY <1>0, <2>3, <3>3 DEF ShapeInv
    <3>5. 1 \in 1 .. Len_(cur)
      BY <2>1, <2>2, <2>3, <3>1, <3>3, <3>4
    <3>6. QED
      BY <2>1, <2>2, <2>3, <3>1, <3>2, <3>4, <3>5 DEF Len_
  <2>5. Captures'
    BY <2>4 DEF Captures
  <2>6. LivesNext
    BY <1>9, <2>1, <2>3
  <2>7. ReadyNext
    <3> SUFFICES ASSUME NEW k \in DOMAIN ebuf', NEW m \in DOMAIN msgs', ebuf'[k] = <<m, 1>>,
                        NEW p \in DOMAIN host[Len(host)], host[Len(host)][p] = <<m, 1>>
                 PROVE  DisturbedNext(m)
      BY <2>1 DEF ReadyNext
    <3>1. m = cur /\ write_state = "RESET"
      BY <2>4
    <3>2. Disturbed(m)
      BY <1>1, <2>1, <3>1 DEF Lives
    <3>3. QED
      BY <1>4, <2>2, <3>1, <3>2
  <2>8. QED
    BY <1>2, <1>8, <2>1, <2>5, <2>6, <2>7
<1>18. CASE DataInStage
  <2>1. /\ Connected /\ write_state = "WAIT" /\ ~ed.done
        /\ Len(host') = Len(host) /\ Len(host) \in DOMAIN host
        /\ DOMAIN host' = DOMAIN host
        /\ \A s \in DOMAIN host : s # Len(host) => host'[s] = host[s]
        /\ host[Len(host)] \in Seq(Units)
        /\ host'[Len(host)] = host[Len(host)] \o ebuf
    BY <1>0, <1>18, HostAfterPacket DEF DeviceOK
  <2>2. UNCHANGED <<class, msgs, cur, tls>> /\ ed'.done
    BY <1>0, <1>18 DEF DataInStage, client, DeviceOK, Status
  <2>3. Captures'
    BY <1>7, <2>1, <2>2 DEF class
  <2>4. ASSUME NEW p \in DOMAIN host'[Len(host)]
        PROVE  \/ p \in DOMAIN host[Len(host)] /\ host'[Len(host)][p] = host[Len(host)][p]
               \/ /\ p - Len(host[Len(host)]) \in DOMAIN ebuf
                  /\ host'[Len(host)][p] = ebuf[p - Len(host[Len(host)])]
                  /\ p \in Nat
    BY <1>0, <2>1, <2>4, Together
  <2>5. LivesNext
    <3> SUFFICES ASSUME NEW m \in {cur, tls} \ {0}, NEW p \in DOMAIN host'[Len(host)],
                        host'[Len(host)][p] = <<m, 1>>
                 PROVE  DisturbedNext(m) \/ (write_state' # "RESET" /\ wr'.req = msgs'[m].len)
      BY <2>1, <2>2 DEF LivesNext
    <3>1. m \in DOMAIN msgs
      BY <1>0, <1>3 DEF ClientOK
    <3>2. CASE p \in DOMAIN host[Len(host)] /\ host'[Len(host)][p] = host[Len(host)][p]
      BY <1>1, <1>4, <2>1, <2>2, <3>1, <3>2 DEF Lives, class
    <3>3. CASE /\ p - Len(host[Len(host)]) \in DOMAIN ebuf
               /\ host'[Len(host)][p] = ebuf[p - Len(host[Len(host)])]
      BY <1>1, <2>1, <2>2, <3>3, SMTT(30) DEF Captures, class
    <3>4. QED
      BY <2>4, <3>2, <3>3
  <2>6. OnceNext
    <3> SUFFICES ASSUME NEW m \in DOMAIN msgs, ~DisturbedNext(m), NEW s \in DOMAIN host,
                        NEW p \in DOMAIN host'[s], NEW q \in DOMAIN host'[s],
                        host'[s][p] = <<m, 1>>, host'[s][q] = <<m, 1>>
                 PROVE  p = q
      BY <2>1, <2>2 DEF OnceNext
    <3>0. ~Disturbed(m)
      BY <1>4
    <3>1. CASE s # Len(host)
      BY <1>1, <2>1, <3>0, <3>1 DEF Once
    <3>2. CASE s = Len(host)
      <4> DEFINE h == host[Len(host)]
      <4>1. /\ h \in Seq(Units) /\ Len(h) \in Nat /\ DOMAIN h = 1 .. Len(h)
        BY <2>1
      <4>2. \/ p \in DOMAIN h /\ h[p] = <<m, 1>>
            \/ p - Len(h) \in DOMAIN ebuf /\ ebuf[p - Len(h)] = <<m, 1>> /\ p \in Nat
        BY <2>4, <3>2
      <4>3. \/ q \in DOMAIN h /\ h[q] = <<m, 1>>
            \/ q - Len(h) \in DOMAIN ebuf /\ ebuf[q - Len(h)] = <<m, 1>> /\ q \in Nat
        BY <2>4, <3>2
      <4>4. ASSUME NEW k \in DOMAIN ebuf, ebuf[k] = <<m, 1>>, NEW i \in DOMAIN h, h[i] = <<m, 1>>
            PROVE  FALSE
        BY <1>1, <2>1, <3>0, <4>4 DEF Ready
      <4>5. ASSUME NEW k \in DOMAIN ebuf, NEW i \in DOMAIN ebuf,
                   ebuf[k] = <<m, 1>>, ebuf[i] = <<m, 1>>
            PROVE  k = i
        <5>1. ebuf[k][2] = wr.act + k /\ ebuf[i][2] = wr.act + i
          BY <1>0, <2>1 DEF ShapeInv
        <5>2. QED
          BY <1>0, <4>5, <5>1
      <4>6. CASE p \in DOMAIN h /\ h[p] = <<m, 1>> /\ q \in DOMAIN h /\ h[q] = <<m, 1>>
        BY <1>1, <2>1, <3>0, <4>6 DEF Once
      <4> HIDE DEF h
      <4>7. CASE /\ p - Len(h) \in DOMAIN ebuf /\ ebuf[p - Len(h)] = <<m, 1>> /\ p \in Nat
                 /\ q - Len(h) \in DOMAIN ebuf /\ ebuf[q - Len(h)] = <<m, 1>> /\ q \in Nat
        <5>1. p - Len(h) = q - Len(h)
          BY <4>5, <4>7
        <5>2. QED
          BY <4>1, <4>7, <5>1
      <4>8. QED
        BY <4>2, <4>3, <4>4, <4>6, <4>7
    <3>3. QED
      BY <3>1, <3>2
  <2>7. QED
    BY <1>2, <2>2, <2>3, <2>5, <2>6 DEF ReadyNext
<1>19. QED
  BY <1>0, <1>11, <1>12, <1>13, <1>14, <1>15, <1>16, <1>17, <1>18, TransferMoves

(* and none has begun at first. *)
LEMMA InitOnce == Init => OnceInv
BY DEF Init, OnceInv, Connected

(* What has begun and still waits has its transfer in the state machine. *)
LEMMA OnceAlways == Spec => []OnceInv
<1>1. IInv /\ HistoryInv /\ OnceInv /\ [Next]_vars => OnceInv'
  BY NextOnce
<1>2. QED
  BY <1>1, InitOnce, Invariance, Histories, PTL DEF Spec

(* The host sees a console message begin at most once in a session. *)
THEOREM ConsoleBeginsOnce == Spec => []ConsoleOnce
<1>1. OnceInv => ConsoleOnce
  BY DEF OnceInv, ConsoleOnce, Disturbed, Beginnings
<1>2. QED
  BY <1>1, OnceAlways, PTL

(* A record is repeated only by way of a console message sent while it waited. *)
THEOREM RepeatedForConsole == Spec => []RecordTwiceNeedsConsole
<1>1. OnceInv => RecordTwiceNeedsConsole
  BY DEF OnceInv, RecordTwiceNeedsConsole, Disturbed, Beginnings
<1>2. QED
  BY <1>1, OnceAlways, PTL

-----------------------------------------------------------------------------
(* What the host has of the transfer under way. *)
Collected == wr.act + (IF ed.done THEN wr.xfer ELSE 0)

(* Passes of the stack before EmbedSend tests the connection again. *)
Polls == CASE pc = "embed" -> 0 [] pc = "embedpoll" -> 2 [] OTHER -> 1

(* Message m is being sent in one piece: the session ends with what was collected of
   it, or its connection is lost, and m is refused before there is another.  *)
Follows(m) ==
    /\ msgs[m].outcome = "open"
    /\ write_state = "WAIT" => \A k \in 1 .. wr.xfer : ebuf[k] = <<m, wr.act + k>>
    /\ IF Connected
       THEN /\ Collected <= Len(host[Len(host)])
            /\ \A k \in 1 .. Collected :
                   host[Len(host)][Len(host[Len(host)]) - Collected + k] = <<m, k>>
       ELSE dev = "ATTACHED" => enum > Polls

(* The transfer under way is of a message that was left behind, or follows. *)
OwnedInv ==
    write_state # "RESET" =>
        \E m \in DOMAIN msgs :
            /\ Len_(m) = wr.req
            /\ Area(m) = wr.area
            /\ msgs[m].outcome \in {"gaveup", "reset"} \/ Follows(m)

(* A lost connection does not come back between two tests of EmbedSend, which are
   two passes of the stack apart.                                           *)
LEMMA PollsLeft ==
    ASSUME EnumPolls >= 3, IInv, HistoryInv, [Next]_vars, ~Connected,
           dev = "ATTACHED" => enum > Polls, cur # 0, cur' # 0, dev' = "ATTACHED"
    PROVE  enum' > Polls'
<1>0. /\ CallersInv /\ enum \in Nat /\ EnumPolls \in Nat
      /\ Polls' = CASE pc' = "embed" -> 0 [] pc' = "embedpoll" -> 2 [] OTHER -> 1
      /\ pc # "idle"
  BY CdcTxAssumption DEF HistoryInv, IInv, TypeOK, Polls, CallersInv
<1>1. CASE EmbedPoll
  BY <1>0, <1>1 DEF EmbedPoll, DeviceTask, bus, Polls
<1>2. CASE TlsPoll
  BY <1>0, <1>2 DEF TlsPoll, DeviceTask, bus, Polls
<1>3. CASE EmbedSend
  BY <1>0, <1>3 DEF EmbedSend
<1>4. ASSUME NEW n \in Lens, SendData(n) PROVE enum' > Polls'
  BY <1>0, <1>4 DEF SendData, bus, Polls
<1>5. ASSUME Busy, UNCHANGED bus, pc \in {"enter", "run", "hw"} PROVE enum' > Polls'
  <2>1. pc' \notin {"embed", "embedpoll"}
    BY <1>5 DEF Busy, Settle
  <2>2. QED
    BY <1>0, <1>5, <2>1 DEF bus, Polls
<1>6. CASE CdcAcmTx \/ WriteRunDown \/ TransferRun
  BY <1>5, <1>6 DEF CdcAcmTx, WriteRunDown, TransferRun
<1>7. CASE UsbReset
  BY <1>0, <1>7 DEF UsbReset
<1>8. CASE UsbDisconnect
  BY <1>8 DEF UsbDisconnect
<1>9. CASE DataInStage \/ UNCHANGED vars
  BY <1>0, <1>9 DEF DataInStage, client, vars, Polls
<1>10. CASE \/ Poll \/ WolfFree \/ WriteRunDone \/ WriteRunCopy \/ WriteRunWait
            \/ \E k \in {"record", "write"}, n \in Lens : StartRecord(k, n)
  BY <1>0, <1>10
  DEF Poll, WolfFree, WriteRunDone, WriteRunCopy, WriteRunWait, StartRecord
<1>11. QED
  BY <1>1, <1>2, <1>3, <1>4, <1>6, <1>7, <1>8, <1>9, <1>10
  DEF Next, MainStep, Interrupt

(* Where an open message is. *)
LEMMA OpenHeld ==
    ASSUME IInv, HistoryInv, NEW m \in DOMAIN msgs, msgs[m].outcome = "open"
    PROVE  /\ m \in {cur, tls} /\ cur # 0 /\ pc # "idle"
           /\ \A o \in 1 .. Len_(m) : mem[Area(m)][o] = m
<1>1. /\ CallersInv /\ BuffersInv /\ DOMAIN msgs = 1 .. Len(msgs) /\ (pc # "idle" => cur # 0)
  BY DEF HistoryInv, IInv, TypeOK
<1>2. m \in {cur, tls} /\ m # 0
  BY <1>1 DEF CallersInv
<1>3. cur # 0 /\ pc # "idle"
  BY <1>1, <1>2 DEF CallersInv
<1>4. CASE m = cur
  BY <1>1, <1>3, <1>4, CurHeld
<1>5. CASE m = tls
  <2>1. Area(m) = "tls"
    BY <1>1, <1>2, <1>5 DEF CallersInv, Area
  <2>2. QED
    BY <1>1, <1>2, <1>3, <1>5, <2>1 DEF BuffersInv
<1>6. QED
  BY <1>2, <1>3, <1>4, <1>5

(* A sender is told OK in WriteRunDone only. *)
LEMMA OkOnlyWhenDone ==
    ASSUME IInv, HistoryInv, [Next]_vars, NEW m \in DOMAIN msgs', msgs'[m].outcome = "ok"
    PROVE  /\ m \in DOMAIN msgs
           /\ \/ msgs[m].outcome = "ok"
              \/ m = cur /\ WriteRunDone /\ wr.act = Len_(cur)
<1>0. ClientOK /\ CallersInv
  BY Halves DEF HistoryInv, IInv
<1>1. CASE Stays
  BY <1>1 DEF Stays
<1>2. ASSUME NEW r, msgs' = Append(msgs, r), r.outcome # "ok"
      PROVE  m \in DOMAIN msgs /\ msgs[m].outcome = "ok"
  BY <1>0, <1>2, AppendMsgs
<1>3. ASSUME NEW n \in Lens, Prints(n)
      PROVE  \E r : msgs' = Append(msgs, r) /\ r.outcome # "ok"
  BY <1>3 DEF Prints
<1>4. ASSUME NEW k, NEW n \in Lens, StartRecord(k, n)
      PROVE  \E r : msgs' = Append(msgs, r) /\ r.outcome # "ok"
  BY <1>4 DEF StartRecord
<1>5. ASSUME NEW o \in {"ok", "gaveup", "reset"}, Ends(o)
      PROVE  /\ m \in DOMAIN msgs
             /\ \/ msgs[m].outcome = "ok"
                \/ m = cur /\ WriteRunDone /\ wr.act = Len_(cur)
  <2>1. m \in DOMAIN msgs /\ msgs'[m].outcome = IF m = cur THEN o ELSE msgs[m].outcome
    BY <1>0, <1>5, EndsMsgs
  <2>2. CASE m = cur
    BY <1>5, <2>1, <2>2 DEF Ends
  <2>3. CASE m # cur
    BY <2>1, <2>3
  <2>4. QED
    BY <2>2, <2>3
<1>6. QED
  BY <1>0, <1>1, <1>2, <1>3, <1>4, <1>5, CallerMoves

FollowsNext(m) ==
    /\ msgs'[m].outcome = "open"
    /\ write_state' = "WAIT" => \A k \in 1 .. wr'.xfer : ebuf'[k] = <<m, wr'.act + k>>
    /\ IF Connected'
       THEN LET h == host'[Len(host')]
            IN  /\ Collected' <= Len(h)
                /\ \A k \in 1 .. Collected' : h[Len(h) - Collected' + k] = <<m, k>>
       ELSE dev' = "ATTACHED" => enum' > Polls'

(* Every step keeps whose the transfer is, if an enumeration takes three passes, *)
LEMMA NextOwned ==
    ASSUME EnumPolls >= 3, IInv, HistoryInv, OwnedInv, [Next]_vars
    PROVE  OwnedInv'
<1> SUFFICES ASSUME write_state' # "RESET"
             PROVE  \E m \in DOMAIN msgs' :
                        /\ msgs'[m].len = wr'.req
                        /\ (IF msgs'[m].kind = "console" THEN "stdio" ELSE "tls") = wr'.area
                        /\ msgs'[m].outcome \in {"gaveup", "reset"} \/ FollowsNext(m)
  BY DEF OwnedInv, Follows, FollowsNext, Len_, Area, Kind
<1>0. /\ CallersInv /\ BuffersInv /\ ShapeInv /\ DeviceOK /\ ClientOK
      /\ Len(host) \in Nat /\ DOMAIN host = 1 .. Len(host)
      /\ wr.act \in Nat /\ wr.xfer \in Nat /\ wr.req \in Nat
  BY Halves, CdcTxAssumption DEF HistoryInv, IInv, DeviceOK, Transfer
<1>1. /\ DOMAIN msgs = 1 .. Len(msgs) /\ DOMAIN msgs' = 1 .. Len(msgs')
      /\ Len(msgs) \in Nat /\ Len(msgs') \in Nat /\ Len(msgs) <= Len(msgs')
      /\ \A m \in DOMAIN msgs :
             /\ m \in DOMAIN msgs'
             /\ msgs'[m].kind = msgs[m].kind
             /\ msgs'[m].len = msgs[m].len
             /\ msgs[m].outcome \in {"gaveup", "reset"} => msgs'[m].outcome = msgs[m].outcome
             /\ msgs[m].outcome = "open" => msgs'[m].outcome \in {"open", "ok", "gaveup", "reset"}
  BY MsgsGrow DEF HistoryInv
<1>2. /\ CallersInv'
      /\ Collected \in Nat
      /\ Collected' = wr'.act + (IF ed'.done THEN wr'.xfer ELSE 0)
  BY <1>0, NextHistory DEF HistoryInv, Collected
<1> DEFINE Owned == \E m \in DOMAIN msgs' :
               /\ msgs'[m].len = wr'.req
               /\ (IF msgs'[m].kind = "console" THEN "stdio" ELSE "tls") = wr'.area
               /\ msgs'[m].outcome \in {"gaveup", "reset"} \/ FollowsNext(m)
<1>3. ASSUME write_state # "RESET", wr'.req = wr.req, wr'.area = wr.area,
             \A m \in DOMAIN msgs : Follows(m) /\ msgs'[m].outcome = "open" => FollowsNext(m)
      PROVE  Owned
  <2>1. PICK m \in DOMAIN msgs :
            /\ msgs[m].len = wr.req
            /\ (IF msgs[m].kind = "console" THEN "stdio" ELSE "tls") = wr.area
            /\ msgs[m].outcome \in {"gaveup", "reset"} \/ Follows(m)
    BY <1>3 DEF OwnedInv, Len_, Area, Kind
  <2>2. msgs'[m].outcome # "ok"
    BY <1>1, <2>1, OkOnlyWhenDone DEF WriteRunDone, Follows
  <2>3. msgs'[m].outcome \in {"gaveup", "reset"} \/ FollowsNext(m)
    BY <1>1, <1>3, <2>1, <2>2 DEF Follows
  <2>4. QED
    BY <1>1, <1>3, <2>1, <2>3
<1>4. ASSUME NEW m \in DOMAIN msgs, msgs[m].outcome = "open", msgs'[m].outcome = "open"
      PROVE  /\ m \in {cur', tls'} /\ cur' # 0 /\ m \in {cur, tls} /\ cur # 0
             /\ pc # "idle"
  <2>1. HistoryInv' /\ IInv'
    BY NextIInv, NextHistory
  <2>2. m \in {cur', tls'} /\ m # 0
    BY <1>1, <1>2, <1>4 DEF CallersInv
  <2>3. cur' # 0
    BY <1>2, <2>1, <2>2 DEF CallersInv, IInv, TypeOK
  <2>4. QED
    BY <1>4, <2>2, <2>3, OpenHeld
<1> HIDE DEF Owned
<1>5. CASE Rests \/ Arms
  <2>1. /\ UNCHANGED <<dev, host, class>> /\ ed'.done = ed.done /\ (Connected' <=> Connected)
    BY <1>0, <1>5 DEF Rests, Arms, bus, DeviceOK, Status, Connected
  <2>2. ASSUME NEW m \in DOMAIN msgs, Follows(m), msgs'[m].outcome = "open"
        PROVE  FollowsNext(m)
    <3>1. CASE Connected
      BY <1>2, <2>1, <2>2, <3>1 DEF Follows, FollowsNext, class, Collected
    <3>2. CASE ~Connected
      <4>1. cur # 0 /\ cur' # 0
        BY <1>4, <2>2 DEF Follows
      <4>2. dev' = "ATTACHED" => enum' > Polls'
        BY <2>1, <2>2, <3>2, <4>1, PollsLeft DEF Follows
      <4>3. QED
        BY <2>1, <2>2, <3>2, <4>2 DEF Follows, FollowsNext, class
    <3>3. QED
      BY <3>1, <3>2
  <2>3. QED
    BY <1>3, <2>1, <2>2 DEF class, Owned
<1>6. CASE Configures
  <2>1. ASSUME NEW m \in DOMAIN msgs, Follows(m), msgs'[m].outcome = "open"
        PROVE  FALSE
    <3>1. pc # "idle"
      BY <1>4, <2>1 DEF Follows
    <3>2. enum > Polls /\ enum \in Nat
      BY <1>0, <1>6, <2>1, CdcTxAssumption DEF Follows, Configures, Connected, DeviceOK
    <3>3. Polls >= 1 /\ Polls \in Nat
      BY <1>6, <3>1 DEF Configures, Polls
    <3>4. QED
      BY <1>6, <3>2, <3>3 DEF Configures
  <2>2. UNCHANGED class
    BY <1>6 DEF Configures
  <2>3. QED
    BY <1>3, <2>1, <2>2 DEF class, Owned
<1>7. CASE Drops \/ WriteRunDone
  BY <1>7 DEF Drops, WriteRunDone
<1>8. CASE Leaves
  <2>1. UNCHANGED <<host, class>> /\ ~Connected' /\ (dev' = "ATTACHED" => enum' = EnumPolls)
    BY <1>8 DEF Leaves, Connected
  <2>2. Polls' \in 0 .. 2
    BY DEF Polls
  <2>3. dev' = "ATTACHED" => enum' > Polls'
    BY <2>1, <2>2, CdcTxAssumption
  <2>4. \A m \in DOMAIN msgs : Follows(m) /\ msgs'[m].outcome = "open" => FollowsNext(m)
    BY <2>1, <2>3 DEF Follows, FollowsNext, class
  <2>5. QED
    BY <1>3, <2>1, <2>4 DEF class, Owned
<1>9. CASE Collects
  <2>1. /\ write_state = "WAIT" /\ write_state' = "START" /\ UNCHANGED <<dev, host>>
        /\ Connected /\ Connected' /\ ed.done /\ ~ed'.done
    BY <1>0, <1>9 DEF Collects, ShapeInv, bus, Connected
  <2>2. wr'.area = wr.area /\ wr'.req = wr.req /\ wr'.act = wr.act + wr.xfer
    BY <1>0, <1>9 DEF Collects, DeviceOK, Transfer
  <2>3. Collected' = Collected
    BY <1>2, <2>1, <2>2 DEF Collected
  <2>4. \A m \in DOMAIN msgs : Follows(m) /\ msgs'[m].outcome = "open" => FollowsNext(m)
    BY <2>1, <2>3 DEF Follows, FollowsNext
  <2>5. QED
    BY <1>3, <2>1, <2>2, <2>4 DEF Owned
<1>10. CASE WriteRunCopy
  <2>1. /\ UNCHANGED <<dev, host, mem, cur, tls, msgs>> /\ write_state' = "WAIT"
        /\ Connected /\ Connected' /\ cur # 0 /\ ~ed'.done
        /\ wr'.act \in 0 .. MaxLen /\ wr'.xfer \in Nat /\ wr'.act + wr'.xfer <= wr'.req
        /\ wr'.req \in 0 .. MaxLen
        /\ \A k \in 1 .. wr'.xfer :
               ebuf'[k] = <<mem[wr'.area][wr'.act + k], wr'.act + k>>
        /\ Len(host) \in DOMAIN host
    BY <1>0, <1>10, CopyFacts DEF ShapeInv, bus
  <2>2. \A k \in 1 .. wr'.xfer : wr'.act + k \in 1 .. wr'.req
    BY <2>1, CdcTxAssumption
  <2>3. Collected' = wr'.act /\ wr'.act \in Nat
    BY <1>2, <2>1, CdcTxAssumption
  <2>4. CASE write_state = "RESET"
    <3>1. wr'.area = Area(cur) /\ wr'.req = Len_(cur) /\ wr'.act = 0
      BY <1>0, <1>10, <2>4, CopyFacts
    <3>2. cur \in DOMAIN msgs /\ \A o \in 1 .. Len_(cur) : mem[Area(cur)][o] = cur
      BY <1>0, <2>1, CurHeld
    <3>3. msgs[cur].outcome = "open"
      BY <1>0, <3>2 DEF CallersInv
    <3>4. \A k \in 1 .. wr'.xfer : ebuf'[k] = <<cur, wr'.act + k>>
      BY <2>1, <2>2, <3>1, <3>2
    <3>5. /\ Collected' <= Len(host'[Len(host')])
          /\ 1 .. Collected' = {}
      BY <1>0, <2>1, <2>3, <3>1 DEF DeviceOK
    <3>6. FollowsNext(cur)
      BY <2>1, <3>3, <3>4, <3>5 DEF FollowsNext
    <3>7. QED
      BY <2>1, <3>1, <3>2, <3>6 DEF Area, Len_, Kind, Owned
  <2>5. CASE write_state = "START"
    <3>1. wr'.area = wr.area /\ wr'.req = wr.req /\ wr'.act = wr.act /\ ~ed.done
      BY <1>0, <1>10, <2>5, CopyFacts DEF ShapeInv
    <3>2. PICK m \in DOMAIN msgs :
              /\ Len_(m) = wr.req
              /\ Area(m) = wr.area
              /\ msgs[m].outcome \in {"gaveup", "reset"} \/ Follows(m)
      BY <2>5 DEF OwnedInv
    <3>3. CASE Follows(m)
      <4>1. \A o \in 1 .. Len_(m) : mem[Area(m)][o] = m
        BY <3>3, OpenHeld DEF Follows
      <4>2. \A k \in 1 .. wr'.xfer : ebuf'[k] = <<m, wr'.act + k>>
        BY <2>1, <2>2, <3>1, <3>2, <4>1
      <4>3. Collected' = Collected
        BY <2>3, <3>1, <1>0 DEF Collected
      <4>4. FollowsNext(m)
        BY <2>1, <3>3, <4>2, <4>3 DEF Follows, FollowsNext
      <4>5. QED
        BY <2>1, <3>1, <3>2, <4>4 DEF Area, Len_, Kind, Owned
    <3>4. CASE msgs[m].outcome \in {"gaveup", "reset"}
      BY <2>1, <3>1, <3>2, <3>4 DEF Area, Len_, Kind, Owned
    <3>5. QED
      BY <3>2, <3>3, <3>4
  <2>6. QED
    BY <1>0, <1>10, <2>4, <2>5, CopyFacts
<1>11. CASE DataInStage
  <2>1. /\ Connected /\ write_state = "WAIT" /\ ~ed.done
        /\ Len(host') = Len(host) /\ Len(host) \in DOMAIN host
        /\ host[Len(host)] \in Seq(Units)
        /\ host'[Len(host)] = host[Len(host)] \o ebuf
    BY <1>0, <1>11, HostAfterPacket
  <2>2. UNCHANGED <<dev, class, msgs, cur, tls>> /\ ed'.done /\ Connected'
    BY <1>0, <1>11, <2>1 DEF DataInStage, client, DeviceOK, Status, Connected
  <2>3. Collected = wr.act /\ Collected' = wr.act + wr.xfer
    BY <1>0, <1>2, <2>1, <2>2 DEF Collected, class
  <2>4. Len(ebuf) = wr.xfer /\ ebuf \in Seq(Units)
    BY <1>0, <2>1 DEF ShapeInv, DeviceOK
  <2>5. ASSUME NEW m \in DOMAIN msgs, Follows(m), msgs'[m].outcome = "open"
        PROVE  FollowsNext(m)
    <3> DEFINE h == host[Len(host)]
    <3>1. h \in Seq(Units) /\ Len(h) \in Nat /\ host'[Len(host')] = h \o ebuf
          /\ Len(h \o ebuf) = Len(h) + wr.xfer
      BY <2>1, <2>4
    <3>2. /\ wr.act <= Len(h)
          /\ \A k \in 1 .. wr.act : h[Len(h) - wr.act + k] = <<m, k>>
          /\ \A k \in 1 .. wr.xfer : ebuf[k] = <<m, wr.act + k>>
      BY <2>1, <2>3, <2>5 DEF Follows
    <3>0. wr.act \in Nat /\ wr.xfer \in Nat
      BY <1>0
    <3> HIDE DEF h
    <3>3. ASSUME NEW k \in 1 .. wr.act + wr.xfer
          PROVE  (h \o ebuf)[Len(h) + wr.xfer - (wr.act + wr.xfer) + k] = <<m, k>>
      <4>0. k \in Nat /\ k >= 1 /\ k <= wr.act + wr.xfer
        BY <3>0
      <4>1. Len(h) + wr.xfer - (wr.act + wr.xfer) + k = Len(h) - wr.act + k
        BY <3>0, <3>1, <4>0
      <4>2. CASE k <= wr.act
        <5>1. Len(h) - wr.act + k \in 1 .. Len(h) /\ k \in 1 .. wr.act
          BY <3>0, <3>1, <3>2, <4>0, <4>2, SMTT(30)
        <5>2. (h \o ebuf)[Len(h) - wr.act + k] = h[Len(h) - wr.act + k]
          BY <2>4, <3>1, <5>1
        <5>3. QED
          BY <3>2, <4>1, <5>1, <5>2
      <4>3. CASE k > wr.act
        <5>1. /\ k - wr.act \in 1 .. wr.xfer /\ wr.act + (k - wr.act) = k
              /\ Len(h) - wr.act + k = Len(h) + (k - wr.act)
          BY <3>0, <3>1, <4>0, <4>3, SMTT(30)
        <5>2. (h \o ebuf)[Len(h) + (k - wr.act)] = ebuf[k - wr.act]
          BY <2>4, <3>1, <5>1, SMTT(30)
        <5>3. ebuf[k - wr.act] = <<m, wr.act + (k - wr.act)>>
          BY <3>2, <5>1
        <5>4. QED
          BY <4>1, <5>1, <5>2, <5>3
      <4>4. k <= wr.act \/ k > wr.act
        BY <3>0, <4>0
      <4>5. QED
        BY <4>2, <4>3, <4>4, Zenon
    <3>4. Collected' <= Len(h \o ebuf)
      BY <2>3, <3>0, <3>1, <3>2
    <3>5. \A k \in 1 .. Collected' : (h \o ebuf)[Len(h \o ebuf) - Collected' + k] = <<m, k>>
      <4>1. \A k \in 1 .. wr.act + wr.xfer :
                (h \o ebuf)[Len(h) + wr.xfer - (wr.act + wr.xfer) + k] = <<m, k>>
        BY ONLY <3>3
      <4>2. Collected' = wr.act + wr.xfer /\ Len(h \o ebuf) = Len(h) + wr.xfer
        BY <2>3, <3>1
      <4>3. SUFFICES ASSUME NEW k \in 1 .. Collected'
                     PROVE  (h \o ebuf)[Len(h \o ebuf) - Collected' + k] = <<m, k>>
        OBVIOUS
      <4>4. k \in 1 .. wr.act + wr.xfer
        BY ONLY <4>2, Zenon
      <4>5. Len(h \o ebuf) - Collected' + k = Len(h) + wr.xfer - (wr.act + wr.xfer) + k
        BY <3>0, <3>1, <4>2, <4>4
      <4>6. QED
        BY ONLY <4>1, <4>4, <4>5, Zenon
    <3>6. write_state' = "WAIT" => \A k \in 1 .. wr'.xfer : ebuf'[k] = <<m, wr'.act + k>>
      BY <2>2, <3>2 DEF class
    <3>7. QED
      BY ONLY <2>2, <2>5, <3>1, <3>4, <3>5, <3>6, Zenon DEF FollowsNext
  <2>6. QED
    BY <1>3, <2>1, <2>2, <2>5 DEF class, Owned
<1>12. QED
  BY <1>0, <1>5, <1>6, <1>7, <1>8, <1>9, <1>10, <1>11, TransferMoves DEF Owned

(* and at first it is of nobody. *)
LEMMA InitOwned == Init => OwnedInv
  BY DEF Init, OwnedInv

(* What the host received in a session stays, at its place. *)
LEMMA HostKeeps ==
    ASSUME IInv, HistoryInv, [Next]_vars, NEW s \in DOMAIN host
    PROVE  /\ s \in DOMAIN host'
           /\ Len(host[s]) \in Nat /\ Len(host'[s]) \in Nat
           /\ Len(host[s]) <= Len(host'[s])
           /\ \A p \in 1 .. Len(host[s]) : host'[s][p] = host[s][p]
<1>0. /\ ShapeInv /\ DeviceOK /\ ebuf \in Seq(Units)
      /\ host[s] \in Seq(Units) /\ Len(host[s]) \in Nat
  BY Halves DEF HistoryInv, IInv, DeviceOK
<1>1. CASE host' = host
  BY <1>0, <1>1
<1>2. CASE Configures
  <2>1. host'[s] = host[s] /\ s \in DOMAIN host'
    BY <1>0, <1>2, HostAfterConfigure
  <2>2. QED
    BY <1>0, <2>1
<1>3. CASE DataInStage
  <2>1. s \in DOMAIN host' /\ host'[s] \in {host[s], host[s] \o ebuf}
    BY <1>0, <1>3, HostAfterPacket
  <2>2. CASE host'[s] = host[s]
    BY <1>0, <2>1, <2>2
  <2>3. CASE host'[s] = host[s] \o ebuf
    <3>1. /\ Len(host[s] \o ebuf) = Len(host[s]) + Len(ebuf) /\ Len(ebuf) \in Nat
          /\ \A p \in 1 .. Len(host[s]) : (host[s] \o ebuf)[p] = host[s][p]
      BY <1>0
    <3>2. QED
      BY <1>0, <2>1, <2>3, <3>1
  <2>4. QED
    BY <2>1, <2>2, <2>3
<1>4. Rests \/ Drops \/ Collects \/ Arms \/ Leaves \/ WriteRunDone \/ WriteRunCopy
          => host' = host
  BY DEF Rests, Drops, Collects, Arms, Leaves, WriteRunDone, WriteRunCopy, bus
<1>5. QED
  BY <1>1, <1>2, <1>3, <1>4, TransferMoves

(* So a message that was delivered stays delivered. *)
LEMMA DeliveredKeeps ==
    ASSUME IInv, HistoryInv, [Next]_vars, NEW m \in DOMAIN msgs, Delivered(m)
    PROVE  Delivered(m)'
<1>0. /\ msgs'[m].len = msgs[m].len /\ msgs[m].len \in Lens /\ m \in DOMAIN msgs'
  <2>1. m \in DOMAIN msgs' /\ msgs'[m].len = msgs[m].len
    BY MsgsGrow DEF HistoryInv
  <2>2. msgs[m] \in Message
    BY DEF IInv, TypeOK
  <2>3. QED
    BY <2>1, <2>2 DEF Message
<1>1. PICK s \in DOMAIN host : \E p \in DOMAIN host[s] : WholeAt(m, s, p)
  BY DEF Delivered
<1>2. PICK p \in DOMAIN host[s] : WholeAt(m, s, p)
  BY <1>1
<1>3. /\ s \in DOMAIN host' /\ Len(host[s]) \in Nat /\ Len(host'[s]) \in Nat
      /\ Len(host[s]) <= Len(host'[s])
      /\ \A q \in 1 .. Len(host[s]) : host'[s][q] = host[s][q]
  BY HostKeeps
<1>4. /\ DOMAIN host[s] = 1 .. Len(host[s]) /\ DOMAIN host'[s] = 1 .. Len(host'[s])
  <2>1. host[s] \in Seq(Units) /\ host' \in Seq(Seq(Units))
    BY NextIInv DEF IInv, TypeOK
  <2>2. QED
    BY <1>3, <2>1
<1>5. p \in DOMAIN host'[s]
  BY <1>3, <1>4
<1>6. p + msgs[m].len - 1 <= Len(host[s]) /\ p \in Nat /\ p >= 1 /\ msgs[m].len \in Nat
  BY <1>0, <1>2, <1>3, <1>4, CdcTxAssumption DEF WholeAt, Len_, Lens
<1>7. p + msgs'[m].len - 1 <= Len(host'[s])
  BY <1>0, <1>3, <1>6
<1>8. \A k \in 1 .. msgs[m].len : p + k - 1 \in 1 .. Len(host[s])
  BY <1>3, <1>6
<1>9. \A k \in 1 .. msgs[m].len : host'[s][p + k - 1] = <<m, k>>
  BY <1>2, <1>3, <1>8 DEF WholeAt, Len_
<1>10. QED
  BY <1>0, <1>3, <1>5, <1>7, <1>9 DEF Delivered, WholeAt, Len_

(* A message that was left behind stays so. *)
LEMMA LeftBehindKeeps ==
    ASSUME IInv, HistoryInv, [Next]_vars, NEW m \in DOMAIN msgs, LeftBehind(m)
    PROVE  LeftBehind(m)'
<1>1. \A j \in DOMAIN msgs :
          /\ j \in DOMAIN msgs' /\ msgs'[j].kind = msgs[j].kind /\ msgs'[j].len = msgs[j].len
          /\ msgs[j].outcome \in {"gaveup", "reset"} => msgs'[j].outcome \in {"gaveup", "reset"}
  BY MsgsGrow DEF HistoryInv
<1>2. PICK j \in DOMAIN msgs \ {m} :
          /\ Len_(j) = Len_(m)
          /\ \/ msgs[j].outcome \in {"gaveup", "reset"}
             \/ Kind(j) = "record" /\ Kind(m) = "console" /\ j < m
  BY DEF LeftBehind
<1>3. QED
  BY <1>1, <1>2 DEF LeftBehind, Len_, Kind

(* The call that finds its length transferred: what the endpoint took since the
   transfer began is this message, or a message was left behind.            *)
LEMMA DoneIsDelivered ==
    ASSUME IInv, HistoryInv, OwnedInv, WriteRunDone, wr.act = Len_(cur), cur \in DOMAIN msgs
    PROVE  LeftBehind(cur) \/ Delivered(cur)
<1>0. /\ CallersInv /\ ShapeInv /\ DeviceOK /\ ClientOK
      /\ Connected /\ write_state = "START" /\ wr.act = wr.req /\ pc = "run"
  BY Halves DEF HistoryInv, IInv, WriteRunDone
<1>1. /\ ~ed.done /\ wr.act >= 1 /\ wr.act \in Nat /\ Collected = wr.act
      /\ Len(host) >= 1 /\ Len(host) \in Nat /\ DOMAIN host = 1 .. Len(host)
      /\ Len(host) \in DOMAIN host
  BY <1>0, CdcTxAssumption DEF ShapeInv, DeviceOK, Transfer, Collected
<1>2. PICK j \in DOMAIN msgs :
          /\ Len_(j) = wr.req
          /\ Area(j) = wr.area
          /\ msgs[j].outcome \in {"gaveup", "reset"} \/ Follows(j)
  BY <1>0 DEF OwnedInv
<1>3. msgs[cur].outcome = "open"
  BY <1>0 DEF CallersInv
<1>4. CASE msgs[j].outcome \in {"gaveup", "reset"}
  <2>1. j # cur
    BY <1>3, <1>4
  <2>2. QED
    BY <1>0, <1>2, <1>4, <2>1 DEF LeftBehind
<1>5. CASE Follows(j) /\ j # cur
  <2>1. j = tls /\ cur # 0
    BY <1>2, <1>5, OpenHeld DEF Follows
  <2>0. j # 0 /\ j \in 1 .. Len(msgs) /\ Len(msgs) \in Nat
    BY <1>0, <1>2 DEF ClientOK
  <2>2. Kind(j) = "record" /\ Kind(cur) = "console" /\ cur = Len(msgs)
    BY <1>0, <1>5, <2>0, <2>1 DEF CallersInv
  <2>3. j < cur
    BY <1>5, <2>0, <2>2
  <2>4. QED
    BY <1>0, <1>2, <1>5, <2>2, <2>3 DEF LeftBehind
<1>6. CASE Follows(cur) /\ j = cur
  <2> DEFINE h == host[Len(host)]
  <2>1. h \in Seq(Units) /\ Len(h) \in Nat /\ DOMAIN h = 1 .. Len(h)
    BY <1>0, <1>1 DEF DeviceOK
  <2>2. /\ wr.act <= Len(h)
        /\ \A k \in 1 .. wr.act : h[Len(h) - wr.act + k] = <<cur, k>>
    BY <1>0, <1>1, <1>6 DEF Follows
  <2> DEFINE p == Len(h) - wr.act + 1
  <2>3. p \in 1 .. Len(h) /\ p + wr.act - 1 = Len(h)
    BY <1>1, <2>1, <2>2, SMTT(30)
  <2>4. \A k \in 1 .. wr.act : p + k - 1 = Len(h) - wr.act + k
    BY <1>1, <2>1
  <2>5. \A k \in 1 .. wr.act : h[p + k - 1] = <<cur, k>>
    BY <2>2, <2>4
  <2>6. p + wr.act - 1 <= Len(h) /\ p \in DOMAIN h
    BY <2>1, <2>3
  <2> HIDE DEF p
  <2>7. WholeAt(cur, Len(host), p)
    BY <2>5, <2>6 DEF WholeAt
  <2>8. QED
    BY <1>1, <2>6, <2>7 DEF Delivered
<1>7. QED
  BY <1>2, <1>4, <1>5, <1>6

(* What a step reports sent was delivered. *)
LEMMA NextReported ==
    ASSUME IInv, HistoryInv, OwnedInv, ReportedIsDelivered, [Next]_vars
    PROVE  ReportedIsDelivered'
<1>1. SUFFICES ASSUME NEW m \in DOMAIN msgs', msgs'[m].outcome = "ok"
               PROVE  LeftBehind(m)' \/ Delivered(m)'
  BY DEF ReportedIsDelivered
<1>2. /\ m \in DOMAIN msgs
      /\ \/ msgs[m].outcome = "ok"
         \/ m = cur /\ WriteRunDone /\ wr.act = Len_(cur)
  BY <1>1, OkOnlyWhenDone
<1>3. LeftBehind(m) \/ Delivered(m)
  BY <1>2, DoneIsDelivered DEF ReportedIsDelivered
<1>4. QED
  BY <1>2, <1>3, LeftBehindKeeps, DeliveredKeeps

(* A sender is told OK for a message the host did not get in one piece only when
   another message of its length was left behind.  An enumeration has a pass of the
   stack for at least SET_ADDRESS, one GET_DESCRIPTOR and SET_CONFIGURATION: with
   fewer, EmbedSend's two tests of the connection could miss a whole re-enumeration
   and the record in hand would be split over two sessions.                 *)
THEOREM Reported == EnumPolls >= 3 => (Spec => []ReportedIsDelivered)
<1> DEFINE Inv == IInv /\ HistoryInv /\ OwnedInv /\ ReportedIsDelivered
<1> SUFFICES ASSUME EnumPolls >= 3
             PROVE  Spec => []ReportedIsDelivered
  OBVIOUS
<1>1. Init => Inv
  BY InitIInv, InitHistory, InitOwned DEF Init, ReportedIsDelivered
<1>2. Inv /\ [Next]_vars => Inv'
  BY NextIInv, NextHistory, NextOwned, NextReported
<1>3. QED
  BY <1>1, <1>2, PTL DEF Spec
=============================================================================

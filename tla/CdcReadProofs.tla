--------------------------- MODULE CdcReadProofs ---------------------------
(***************************************************************************)
(* From the OUT endpoint to the packet handler, through resets: what the   *)
(* handler gets, for every length of packet, and that the path is a place  *)
(* for one packet.                                                         *)
(***************************************************************************)
EXTENDS CdcRead, SequenceTheorems, TLAPS

(* Who has the packet.  The state machine waits for the driver's packet in WAIT,
   with nothing read yet, and keeps a full one in START.                   *)
ReaderInv ==
    /\ pc \in {"hw", "copy"} => read_state = "WAIT"
    /\ read_state = "WAIT" => actual = 0
    /\ read_state = "START" => actual = PacketLen /\ rx_buffer.len = PacketLen

(* The endpoint accepts a packet, or has one, only while the state machine waits for
   it, and only over the connection that it came in by.                    *)
EndpointInv ==
    /\ armed => Connected /\ ~ed.done
    /\ ed.done => Connected /\ ebuf.session = session
    /\ armed \/ ed.done => read_state = "WAIT" /\ pc # "copy" /\ ed.transfer
    /\ pc = "copy" => ~ed.done /\ ~ed.transfer /\ ebuf.session = session

(* The packet in between is the last one received, and what was handed on is older. *)
OrderInv ==
    /\ \A k \in DOMAIN given : given[k].packet.num <= sent
    /\ InEndpoint => ebuf.num = sent
    /\ InBuffer => rx_buffer.num = sent
    /\ InEndpoint \/ InBuffer => \A k \in DOMAIN given : given[k].packet.num < sent

(* A packet of an earlier session waits in the buffer only until the first delivery
   of the present one.                                                     *)
SessionInv ==
    /\ \A k \in DOMAIN given : given[k].session <= session
    /\ InBuffer /\ rx_buffer.session # session =>
           \A k \in DOMAIN given : given[k].session # session

ReadInv ==
    /\ TypeOK /\ ReaderInv /\ EndpointInv /\ OrderInv /\ SessionInv
    /\ WholeAndInOrder /\ LateOnlyFull

-----------------------------------------------------------------------------
(* The constants, one by one. *)
LEMMA ConstantFacts ==
    /\ PacketLen \in Nat /\ PacketLen > 0
    /\ MaxPackets \in Nat /\ MaxSessions \in Nat
  BY CdcReadAssumption

(* The deliveries are numbered from 1 on. *)
LEMMA GivenDomain == TypeOK => DOMAIN given = 1 .. Len(given) /\ Len(given) \in Nat
  BY LenProperties DEF TypeOK

(* Every delivery is one. *)
LEMMA GivenElements ==
    ASSUME TypeOK, NEW k \in DOMAIN given
    PROVE  given[k].session \in Nat /\ given[k].packet.num \in Nat
<1>1. given \in Seq(Delivery) /\ k \in 1 .. Len(given)
  BY GivenDomain DEF TypeOK
<1>2. given[k] \in Delivery
  BY <1>1, ElementOfSeq
<1> QED
  BY <1>2, ConstantFacts DEF Delivery, Packet

(* The initial state satisfies the invariant. *)
LEMMA InitReadInv == Init => ReadInv
<1> SUFFICES ASSUME Init PROVE ReadInv
  OBVIOUS
<1> USE ConstantFacts DEF Init
<1>1. given = <<>> /\ DOMAIN given = {}
  OBVIOUS
<1>2. TypeOK
  <2>1. given \in Seq(Delivery)
    BY EmptySeq
  <2>2. armed \in BOOLEAN /\ ed \in Status
    BY Zenon DEF Idle, Status
  <2> QED
    BY <2>1, <2>2 DEF TypeOK, Lens, Packet, Status, Idle, NoPacket
<1>3. ReaderInv /\ EndpointInv
  BY DEF ReaderInv, EndpointInv, Idle, Connected
<1>4. OrderInv /\ SessionInv
  BY <1>1 DEF OrderInv, SessionInv, InEndpoint, InBuffer, Idle
<1>5. WholeAndInOrder /\ LateOnlyFull
  BY <1>1 DEF WholeAndInOrder, LateOnlyFull
<1> QED
  BY <1>2, <1>3, <1>4, <1>5 DEF ReadInv

(* A call of the handler adds itself to the end, and an empty packet nothing. *)
LEMMA DeliverAppends ==
    ASSUME TypeOK, NEW p \in Packet, Deliver(p, p.len)
    PROVE  /\ given' \in Seq(Delivery)
           /\ p.len = 0 => given' = given
           /\ p.len # 0 =>
                 /\ Len(given') = Len(given) + 1
                 /\ DOMAIN given' = 1 .. Len(given) + 1
                 /\ \A k \in 1 .. Len(given) : given'[k] = given[k]
                 /\ given'[Len(given) + 1] = [packet |-> p, len |-> p.len, session |-> session]
<1> DEFINE d == [packet |-> p, len |-> p.len, session |-> session]
<1>1. d \in Delivery /\ given \in Seq(Delivery)
  BY DEF Delivery, Packet, TypeOK
<1>2. CASE p.len = 0
  BY <1>1, <1>2 DEF Deliver
<1>3. CASE p.len # 0
  <2>1. given' = Append(given, d)
    BY <1>3 DEF Deliver
  <2>2. /\ Append(given, d) \in Seq(Delivery) /\ Len(Append(given, d)) = Len(given) + 1
        /\ \A k \in 1 .. Len(given) : Append(given, d)[k] = given[k]
        /\ Append(given, d)[Len(given) + 1] = d
    BY <1>1, AppendProperties
  <2>3. DOMAIN given' = 1 .. Len(given')
    BY <2>1, <2>2, LenProperties
  <2> HIDE DEF d
  <2>4. given' \in Seq(Delivery) /\ Len(given') = Len(given) + 1
        /\ DOMAIN given' = 1 .. Len(given) + 1
    BY <2>1, <2>2, <2>3
  <2> QED
    BY <1>3, <2>1, <2>2, <2>4 DEF d
<1> QED
  BY <1>2, <1>3

(* What the packet handed on must be for the properties to stay: newer than what was
   handed on before, and of this session, or full and the first in it.     *)
LEMMA DeliverKeeps ==
    ASSUME ReadInv, NEW p \in Packet, Deliver(p, p.len), UNCHANGED <<session, sent>>,
           p.num <= sent,
           \A k \in DOMAIN given : given[k].packet.num < p.num,
           \/ p.session = session
           \/ p.len = PacketLen /\ \A k \in DOMAIN given : given[k].session # session
    PROVE  /\ WholeAndInOrder' /\ LateOnlyFull'
           /\ \A k \in DOMAIN given' : given'[k].packet.num <= sent'
           /\ \A k \in DOMAIN given' : given'[k].session <= session'
<1> USE ConstantFacts
<1>1. CASE p.len = 0
  <2>1. given' = given
    BY <1>1, DeliverAppends DEF ReadInv
  <2> QED
    BY <2>1 DEF ReadInv, WholeAndInOrder, LateOnlyFull, OrderInv, SessionInv
<1>2. CASE p.len # 0
  <2> DEFINE n == Len(given)
  <2>1. /\ DOMAIN given = 1 .. n /\ n \in Nat
    BY GivenDomain DEF ReadInv
  <2>2. /\ DOMAIN given' = 1 .. n + 1
        /\ \A k \in 1 .. n : given'[k] = given[k]
        /\ given'[n + 1] = [packet |-> p, len |-> p.len, session |-> session]
    BY <1>2, DeliverAppends DEF ReadInv
  <2>3. /\ given'[n + 1].packet = p /\ given'[n + 1].len = p.len
        /\ given'[n + 1].session = session
    BY <2>2
  <2>4. session \in Nat
    BY DEF ReadInv, TypeOK
  <2> HIDE DEF n
  <2>5. WholeAndInOrder'
    <3> SUFFICES ASSUME NEW k \in 1 .. n + 1
                 PROVE  /\ given'[k].len = given'[k].packet.len
                        /\ k > 1 => given'[k - 1].packet.num < given'[k].packet.num
      BY <2>2 DEF WholeAndInOrder
    <3>1. CASE k = n + 1
      <4>1. k > 1 => k - 1 \in 1 .. n
        BY <2>1, <3>1
      <4> QED
        BY <2>1, <2>2, <2>3, <3>1, <4>1
    <3>2. CASE k \in 1 .. n
      <4>1. k > 1 => k - 1 \in 1 .. n
        BY <2>1, <3>2
      <4> QED
        BY <2>1, <2>2, <3>2, <4>1 DEF ReadInv, WholeAndInOrder
    <3> QED
      BY <2>1, <3>1, <3>2
  <2>6. LateOnlyFull'
    <3> SUFFICES ASSUME NEW k \in 1 .. n + 1, given'[k].session # given'[k].packet.session
                 PROVE  /\ given'[k].len = PacketLen
                        /\ \A j \in 1 .. n + 1 :
                               given'[j].session = given'[k].session => j >= k
      BY <2>2 DEF LateOnlyFull
    <3>1. CASE k = n + 1
      BY <2>1, <2>2, <2>3, <3>1
    <3>2. CASE k \in 1 .. n
      BY <2>1, <2>2, <3>2 DEF ReadInv, LateOnlyFull
    <3> QED
      BY <2>1, <3>1, <3>2
  <2>7. \A k \in 1 .. n + 1 : k \in 1 .. n \/ k = n + 1
    BY <2>1
  <2>8. \A k \in DOMAIN given' : given'[k].packet.num <= sent'
    BY <2>1, <2>2, <2>3, <2>7 DEF ReadInv, OrderInv
  <2>9. \A k \in DOMAIN given' : given'[k].session <= session'
    BY <2>1, <2>2, <2>3, <2>4, <2>7 DEF ReadInv, SessionInv
  <2> QED
    BY <2>5, <2>6, <2>8, <2>9
<1> QED
  BY <1>1, <1>2

-----------------------------------------------------------------------------
(* A step that delivers nothing keeps what holds of the deliveries alone. *)
LEMMA NothingDelivered ==
    ASSUME ReadInv, UNCHANGED given
    PROVE  WholeAndInOrder' /\ LateOnlyFull' /\ given' \in Seq(Delivery)
  BY DEF ReadInv, WholeAndInOrder, LateOnlyFull, TypeOK

(* The passes up to the driver. *)
LEMMA PassKeeps ==
    ASSUME ReadInv, DeviceTasks \/ CdcAcmTask \/ ReadRunDown \/ ReadRunStart \/ ReadRunWait
    PROVE  ReadInv'
<1> USE ConstantFacts DEF ReadInv
<1>1. UNCHANGED <<given, rx_buffer, ed, armed, ebuf, sent>>
  BY DEF DeviceTasks, CdcAcmTask, ReadRunDown, ReadRunStart, ReadRunWait, reader
<1>2. WholeAndInOrder' /\ LateOnlyFull' /\ given' \in Seq(Delivery)
  BY <1>1, NothingDelivered
<1>3. CASE DeviceTasks
  <2>1. /\ pc = "idle" /\ pc' = "task" /\ read_state' = read_state /\ actual' = actual
        /\ session' \in 0 .. MaxSessions
        /\ \/ dev = "ATTACHED" /\ dev' = "CONFIGURED" /\ session' = session + 1
           \/ dev' = dev /\ session' = session
    BY <1>3 DEF DeviceTasks, TypeOK, reader
  <2>2. TypeOK'
    BY <1>1, <1>2, <2>1 DEF TypeOK
  <2>3. ReaderInv' /\ EndpointInv'
    BY <1>1, <2>1 DEF ReaderInv, EndpointInv, Connected
  <2>4. OrderInv'
    BY <1>1, <2>1 DEF OrderInv, InEndpoint, InBuffer
  <2>5. SessionInv'
    <3>1. \A k \in DOMAIN given : given[k].session \in Nat
      BY GivenElements
    <3> QED
      BY <1>1, <2>1, <3>1 DEF SessionInv, InBuffer, TypeOK
  <2> QED
    BY <1>2, <2>2, <2>3, <2>4, <2>5
<1>4. CASE CdcAcmTask \/ ReadRunDown \/ ReadRunStart \/ ReadRunWait
  <2>1. UNCHANGED <<dev, session>>
    BY <1>4 DEF CdcAcmTask, ReadRunDown, ReadRunStart, ReadRunWait
  <2>2. TypeOK'
    BY <1>1, <1>2, <1>4, <2>1
       DEF CdcAcmTask, ReadRunDown, ReadRunStart, ReadRunWait, reader, TypeOK, Lens
  <2>3. ReaderInv' /\ EndpointInv'
    BY <1>1, <1>4, <2>1
       DEF CdcAcmTask, ReadRunDown, ReadRunStart, ReadRunWait, reader, ReaderInv,
           EndpointInv, Connected
  <2>4. InBuffer' => InBuffer
    BY <1>4 DEF CdcAcmTask, ReadRunDown, ReadRunStart, ReadRunWait, reader, InBuffer
  <2>5. InEndpoint' <=> InEndpoint
    BY <1>1, <1>4 DEF CdcAcmTask, ReadRunDown, ReadRunStart, ReadRunWait, InEndpoint
  <2>6. OrderInv' /\ SessionInv'
    BY <1>1, <2>1, <2>4, <2>5 DEF OrderInv, SessionInv
  <2> QED
    BY <1>2, <2>2, <2>3, <2>6
<1> QED
  BY <1>3, <1>4

(* The driver: a packet that has come changes hands and stays in between. *)
LEMMA DriverKeeps ==
    ASSUME ReadInv, TransferRun
    PROVE  ReadInv'
<1> USE ConstantFacts DEF ReadInv
<1>1. UNCHANGED <<dev, session, actual, rx_buffer, given, ebuf, sent>> /\ pc = "hw"
  BY DEF TransferRun, TransferRefused, TransferStart, TransferWait, TransferDone, reader
<1>2. WholeAndInOrder' /\ LateOnlyFull' /\ given' \in Seq(Delivery)
  BY <1>1, NothingDelivered
<1>3. TypeOK'
  <2>1. armed' \in BOOLEAN
    BY Zenon DEF TransferRun, TransferRefused, TransferStart, TransferWait, TransferDone,
                 Connected, TypeOK
  <2>2. ed' \in Status
    <3>1. ed' = ed \/ ed' = Idle \/ ed' = [ed EXCEPT !.transfer = TRUE]
      BY Zenon DEF TransferRun, TransferRefused, TransferStart, TransferWait, TransferDone
    <3>2. ed \in Status /\ Idle \in Status
      BY DEF TypeOK, Status, Idle
    <3>3. [ed EXCEPT !.transfer = TRUE] \in Status
      BY <3>2 DEF Status
    <3> QED
      BY <3>1, <3>2, <3>3
  <2>3. /\ read_state' \in {"RESET", "START", "WAIT"}
        /\ pc' \in {"idle", "task", "run", "hw", "copy"}
    BY <1>1 DEF TransferRun, TransferRefused, TransferStart, TransferWait, TransferDone,
                reader, ReaderInv
  <2>4. /\ dev' = dev /\ session' = session /\ actual' = actual /\ ebuf' = ebuf
        /\ rx_buffer' = rx_buffer /\ sent' = sent
    BY <1>1
  <2> QED
    BY <1>2, <2>1, <2>2, <2>3, <2>4, Zenon DEF TypeOK
<1>4. ReaderInv' /\ EndpointInv'
  BY <1>1 DEF TransferRun, TransferRefused, TransferStart, TransferWait, TransferDone,
              reader, TypeOK, Status, Idle, Connected, ReaderInv, EndpointInv
<1>5. (InEndpoint' => InEndpoint) /\ (InBuffer' => InBuffer)
  BY <1>1 DEF TransferRun, TransferRefused, TransferStart, TransferWait, TransferDone,
              reader, TypeOK, Status, Idle, InEndpoint, InBuffer
<1>6. OrderInv' /\ SessionInv'
  BY <1>1, <1>5 DEF OrderInv, SessionInv
<1> QED
  BY <1>2, <1>3, <1>4, <1>6

(* A short packet is handed on when it is copied, a full one waits. *)
LEMMA CopyKeeps ==
    ASSUME ReadInv, ReadRunCopy
    PROVE  ReadInv'
<1> USE ConstantFacts DEF ReadInv
<1>1. /\ UNCHANGED <<dev, session, ed, armed, ebuf, sent>> /\ pc = "copy" /\ pc' = "idle"
      /\ actual = 0 /\ actual' = ebuf.len /\ rx_buffer' = ebuf
      /\ ebuf \in Packet /\ ebuf.len \in 0 .. PacketLen
  BY DEF ReadRunCopy, ReaderInv, TypeOK, Packet, Lens
<1>2. /\ InEndpoint /\ ~ed.done /\ ~armed /\ ebuf.session = session
      /\ ebuf.num = sent /\ sent \in Nat
      /\ \A k \in DOMAIN given : given[k].packet.num < sent
  BY <1>1 DEF EndpointInv, OrderInv, InEndpoint, TypeOK
<1>3. CASE ebuf.len < PacketLen /\ Deliver(ebuf, actual') /\ read_state' = "RESET"
  <2>1. Deliver(ebuf, ebuf.len)
    BY <1>1, <1>3 DEF Deliver
  <2>2. /\ WholeAndInOrder' /\ LateOnlyFull'
        /\ \A k \in DOMAIN given' : given'[k].packet.num <= sent'
        /\ \A k \in DOMAIN given' : given'[k].session <= session'
    BY <1>1, <1>2, <2>1, DeliverKeeps
  <2>3. given' \in Seq(Delivery)
    BY <1>1, <2>1, DeliverAppends
  <2>4. TypeOK'
    BY <1>1, <1>3, <2>3 DEF TypeOK, Lens
  <2>5. ReaderInv' /\ EndpointInv'
    BY <1>1, <1>2, <1>3 DEF ReaderInv, EndpointInv, Connected
  <2>6. ~InEndpoint' /\ ~InBuffer'
    BY <1>1, <1>2, <1>3 DEF InEndpoint, InBuffer
  <2> QED
    BY <2>2, <2>4, <2>5, <2>6 DEF OrderInv, SessionInv
<1>4. CASE ebuf.len = PacketLen /\ read_state' = "START" /\ UNCHANGED given
  <2>1. WholeAndInOrder' /\ LateOnlyFull' /\ given' \in Seq(Delivery)
    BY <1>4, NothingDelivered
  <2>2. TypeOK'
    BY <1>1, <1>4, <2>1 DEF TypeOK, Lens
  <2>3. ReaderInv' /\ EndpointInv'
    BY <1>1, <1>2, <1>4 DEF ReaderInv, EndpointInv, Connected
  <2>4. ~InEndpoint' /\ InBuffer'
    BY <1>1, <1>2, <1>4 DEF InEndpoint, InBuffer
  <2>5. OrderInv' /\ SessionInv'
    BY <1>1, <1>2, <1>4, <2>4 DEF OrderInv, SessionInv
  <2> QED
    BY <2>1, <2>2, <2>3, <2>5
<1> QED
  BY <1>3, <1>4 DEF ReadRunCopy

(* A full packet is handed on by the next pass, in whatever session that is. *)
LEMMA DoneKeeps ==
    ASSUME ReadInv, ReadRunDone
    PROVE  ReadInv'
<1> USE ConstantFacts DEF ReadInv
<1>1. /\ UNCHANGED <<dev, session, actual, rx_buffer, ed, armed, ebuf, sent>>
      /\ pc = "run" /\ pc' = "idle" /\ read_state = "START" /\ read_state' = "RESET"
      /\ rx_buffer \in Packet /\ actual = PacketLen /\ rx_buffer.len = PacketLen
  BY DEF ReadRunDone, DoneState, ReaderInv, TypeOK
<1>2. /\ InBuffer /\ rx_buffer.num = sent /\ sent \in Nat
      /\ \A k \in DOMAIN given : given[k].packet.num < sent
      /\ rx_buffer.session # session => \A k \in DOMAIN given : given[k].session # session
  BY <1>1 DEF OrderInv, SessionInv, InBuffer, TypeOK
<1>3. Deliver(rx_buffer, rx_buffer.len)
  BY <1>1 DEF ReadRunDone
<1>4. /\ WholeAndInOrder' /\ LateOnlyFull'
      /\ \A k \in DOMAIN given' : given'[k].packet.num <= sent'
      /\ \A k \in DOMAIN given' : given'[k].session <= session'
  BY <1>1, <1>2, <1>3, DeliverKeeps
<1>5. given' \in Seq(Delivery)
  BY <1>1, <1>3, DeliverAppends
<1>6. TypeOK'
  BY <1>1, <1>5 DEF TypeOK
<1>7. ReaderInv' /\ EndpointInv'
  BY <1>1 DEF ReaderInv, EndpointInv, Connected
<1>8. ~InEndpoint' /\ ~InBuffer'
  BY <1>1 DEF InEndpoint, InBuffer, EndpointInv
<1> QED
  BY <1>4, <1>6, <1>7, <1>8 DEF OrderInv, SessionInv

(* An interrupt: a packet comes into a free place, or the endpoint goes. *)
LEMMA InterruptKeeps ==
    ASSUME ReadInv, Interrupt
    PROVE  ReadInv'
<1> USE ConstantFacts DEF ReadInv
<1>1. UNCHANGED <<session, pc, read_state, actual, rx_buffer, given>>
  BY DEF Interrupt, DataOutStage, UsbReset, UsbDisconnect, reader
<1>2. WholeAndInOrder' /\ LateOnlyFull' /\ given' \in Seq(Delivery)
  BY <1>1, NothingDelivered
<1>3. ASSUME NEW n \in Lens, DataOutStage(n)
      PROVE  ReadInv'
  <2>1. /\ armed /\ armed' = FALSE /\ sent \in Nat /\ sent' = sent + 1 /\ sent' <= MaxPackets
        /\ UNCHANGED dev /\ session \in 0 .. MaxSessions
        /\ ebuf' = [num |-> sent + 1, len |-> n, session |-> session]
        /\ ed' = [ed EXCEPT !.done = TRUE]
    BY <1>3 DEF DataOutStage, TypeOK
  <2>2. ebuf' \in Packet /\ ebuf'.num = sent' /\ ebuf'.session = session
    BY <2>1, <1>3 DEF Packet
  <2>3. ed' \in Status /\ ed'.done /\ ed'.transfer = ed.transfer
    BY <2>1 DEF TypeOK, Status
  <2>4. /\ Connected /\ ~ed.done /\ read_state = "WAIT" /\ pc # "copy" /\ ed.transfer
    BY <2>1 DEF EndpointInv
  <2>5. TypeOK'
    <3>1. sent' \in 0 .. MaxPackets
      BY <2>1
    <3>2. armed' \in BOOLEAN
      BY <2>1, Zenon
    <3>3. /\ dev' = dev /\ session' = session /\ pc' = pc /\ read_state' = read_state
          /\ actual' = actual /\ rx_buffer' = rx_buffer
      BY <1>1, <2>1
    <3> QED
      BY <1>2, <2>2, <2>3, <3>1, <3>2, <3>3, Zenon DEF TypeOK
  <2>6. ReaderInv' /\ EndpointInv'
    BY <1>1, <2>1, <2>2, <2>3, <2>4 DEF ReaderInv, EndpointInv, Connected
  <2>7. ~InBuffer'
    BY <1>1, <2>4 DEF InBuffer
  <2>8. \A k \in DOMAIN given : given[k].packet.num \in Nat
    BY GivenElements
  <2>9. OrderInv' /\ SessionInv'
    BY <1>1, <2>1, <2>2, <2>7, <2>8 DEF OrderInv, SessionInv
  <2> QED
    BY <1>2, <2>5, <2>6, <2>9
<1>4. CASE UsbReset \/ UsbDisconnect
  <2>1. /\ UNCHANGED <<ebuf, sent>> /\ armed' = FALSE /\ dev' \in {"ATTACHED", "RESET"}
        /\ ed' = IF Connected THEN Idle ELSE ed
    BY <1>4 DEF UsbReset, UsbDisconnect, StackDisconnect
  <2>2. TypeOK'
    BY <1>1, <1>2, <2>1 DEF TypeOK, Status, Idle
  <2>3. ReaderInv' /\ EndpointInv'
    BY <1>1, <2>1 DEF ReaderInv, EndpointInv, Connected, Idle
  <2>4. (InEndpoint' => InEndpoint) /\ (InBuffer' <=> InBuffer)
    BY <1>1, <2>1 DEF InEndpoint, InBuffer, Idle
  <2>5. OrderInv' /\ SessionInv'
    BY <1>1, <2>1, <2>4 DEF OrderInv, SessionInv
  <2> QED
    BY <1>2, <2>2, <2>3, <2>5
<1> QED
  BY <1>3, <1>4 DEF Interrupt

(* Every step keeps the invariant. *)
LEMMA NextReadInv == ReadInv /\ [Next]_vars => ReadInv'
<1> SUFFICES ASSUME ReadInv, [Next]_vars PROVE ReadInv'
  OBVIOUS
<1>1. CASE UNCHANGED vars
  BY <1>1 DEF vars, ReadInv, TypeOK, ReaderInv, EndpointInv, OrderInv, SessionInv,
              WholeAndInOrder, LateOnlyFull, InEndpoint, InBuffer, Connected
<1>2. CASE MainStep
  BY <1>2, PassKeeps, DriverKeeps, CopyKeeps, DoneKeeps DEF MainStep
<1>3. CASE Interrupt
  BY <1>3, InterruptKeeps
<1> QED
  BY <1>1, <1>2, <1>3 DEF Next

(* It holds throughout. *)
LEMMA Invariance == Spec => []ReadInv
  BY InitReadInv, NextReadInv, PTL DEF Spec

(* The variables keep their types. *)
THEOREM TypeCorrect == Spec => []TypeOK
<1>1. ReadInv => TypeOK
  BY DEF ReadInv
<1> QED
  BY Invariance, <1>1, PTL

(* The handler gets each packet at most once, whole, and in the order of arrival,
   whatever the bus does between two steps (read_run.c).                   *)
THEOREM InOrder == Spec => []WholeAndInOrder
<1>1. ReadInv => WholeAndInOrder
  BY DEF ReadInv
<1> QED
  BY Invariance, <1>1, PTL

(* Only a full packet comes late, and then it is the first of its session
   (read_run.c, the START state that a reset leaves as it is).             *)
THEOREM LateOnes == Spec => []LateOnlyFull
<1>1. ReadInv => LateOnlyFull
  BY DEF ReadInv
<1> QED
  BY Invariance, <1>1, PTL

-----------------------------------------------------------------------------
(* The refinement mapping of Slot, by name. *)
Held   == (IF InEndpoint THEN {ebuf} ELSE {}) \cup (IF InBuffer THEN {rx_buffer} ELSE {})
Handed == [k \in DOMAIN given |-> given[k].packet]

SlotNext == Slot!Next \/ UNCHANGED <<Held, sent, Handed>>

(* The place holds one packet at most. *)
LEMMA HeldIsOne ==
    ASSUME ReadInv
    PROVE  /\ InEndpoint => ~InBuffer /\ Held = {ebuf}
           /\ InBuffer => Held = {rx_buffer}
           /\ ~InEndpoint /\ ~InBuffer => Held = {}
  BY DEF ReadInv, ReaderInv, EndpointInv, InEndpoint, InBuffer, Held

(* A delivery is added to what was handed on. *)
LEMMA HandedAppends ==
    ASSUME ReadInv, NEW p \in Packet, Deliver(p, p.len), p.len # 0
    PROVE  Handed' = Append(Handed, p)
<1> DEFINE n == Len(given)
           h == [k \in 1 .. n |-> given[k].packet]
           g == [k \in 1 .. n + 1 |-> given'[k].packet]
<1>1. /\ n \in Nat /\ DOMAIN given = 1 .. n
      /\ \A k \in 1 .. n : given[k].packet \in Packet
  <2>1. given \in Seq(Delivery) /\ n \in Nat /\ DOMAIN given = 1 .. n
    BY GivenDomain DEF ReadInv, TypeOK
  <2>2. \A k \in 1 .. n : given[k] \in Delivery
    BY <2>1, ElementOfSeq
  <2> QED
    BY <2>1, <2>2 DEF Delivery
<1>2. /\ DOMAIN given' = 1 .. n + 1
      /\ \A k \in 1 .. n : given'[k] = given[k]
      /\ given'[n + 1].packet = p
  <2>1. TypeOK
    BY DEF ReadInv
  <2>2. /\ DOMAIN given' = 1 .. n + 1
        /\ \A k \in 1 .. n : given'[k] = given[k]
        /\ given'[n + 1] = [packet |-> p, len |-> p.len, session |-> session]
    BY <2>1, DeliverAppends
  <2> QED
    BY <2>2
<1>3. Handed = h /\ Handed' = g
  BY <1>1, <1>2 DEF Handed
<1> HIDE DEF n
<1>4. h \in [1 .. n -> Packet] /\ g \in [1 .. n + 1 -> Packet]
  BY <1>1, <1>2
<1>5. h \in Seq(Packet) /\ g \in Seq(Packet)
  BY <1>1, <1>4, SeqDef
<1>6. Len(h) = n /\ Len(g) = n + 1
  BY <1>1, <1>4, <1>5, LenProperties
<1> HIDE DEF h, g
<1>7. /\ Append(h, p) \in Seq(Packet) /\ Len(Append(h, p)) = n + 1
      /\ \A k \in 1 .. n : Append(h, p)[k] = h[k]
      /\ Append(h, p)[n + 1] = p
  BY <1>5, <1>6, AppendProperties
<1>8. \A k \in 1 .. n + 1 : g[k] = Append(h, p)[k]
  BY <1>1, <1>2, <1>7 DEF h, g
<1>9. g = Append(h, p)
  BY <1>5, <1>6, <1>7, <1>8, SeqEqual
<1> QED
  BY <1>3, <1>9

(* Steps that deliver nothing and receive nothing: the packet stays, or is lost. *)
LEMMA KeptOrLost ==
    ASSUME ReadInv, UNCHANGED <<given, sent>>, Held' = Held \/ Held' = {}
    PROVE  SlotNext
<1>1. UNCHANGED Handed
  BY DEF Handed
<1>2. CASE Held' = Held
  BY <1>1, <1>2 DEF SlotNext
<1>3. CASE Held # {} /\ Held' = {}
  BY <1>1, <1>3 DEF SlotNext, Slot!Next, Slot!Lose, Held, Handed
<1> QED
  BY <1>2, <1>3

(* A step that ends a read: the packet is handed on, or it is empty and lost. *)
LEMMA Ended ==
    ASSUME ReadInv, NEW p \in Packet, Held = {p}, Held' = {}, Deliver(p, p.len),
           UNCHANGED sent
    PROVE  SlotNext
<1>1. CASE p.len = 0
  BY <1>1, KeptOrLost DEF Deliver
<1>2. CASE p.len # 0
  <2>1. Handed' = Append(Handed, p)
    BY <1>2, HandedAppends
  <2> QED
    BY <2>1 DEF SlotNext, Slot!Next, Slot!HandOn, Held, Handed
<1> QED
  BY <1>1, <1>2

(* Every step of the path is a step of the place, or none. *)
LEMMA NextSlot == ReadInv /\ ReadInv' /\ [Next]_vars => SlotNext
<1> SUFFICES ASSUME ReadInv, ReadInv', [Next]_vars PROVE SlotNext
  OBVIOUS
<1>0. ReaderInv /\ EndpointInv /\ TypeOK
  BY DEF ReadInv
<1>1. CASE DeviceTasks \/ CdcAcmTask \/ ReadRunStart \/ ReadRunWait
  <2>1. UNCHANGED <<given, sent>>
    BY <1>1 DEF DeviceTasks, CdcAcmTask, ReadRunStart, ReadRunWait, reader
  <2>2. Held' = Held
    BY <1>1 DEF DeviceTasks, CdcAcmTask, ReadRunStart, ReadRunWait, reader, Held, InEndpoint,
                InBuffer
  <2> QED
    BY <2>1, <2>2, KeptOrLost
<1>2. CASE ReadRunDown
  <2>1. Held' = {}
    BY <1>0, <1>2 DEF ReadRunDown, EndpointInv, Held, InEndpoint, InBuffer
  <2> QED
    BY <1>2, <2>1, KeptOrLost DEF ReadRunDown
<1>3. CASE TransferRun
  <2>1. UNCHANGED <<given, sent, ebuf, rx_buffer>>
    BY <1>3 DEF TransferRun, TransferRefused, TransferStart, TransferWait, TransferDone,
                reader
  <2>2. Held' = Held
    BY <1>0, <1>3, <2>1
       DEF TransferRun, TransferRefused, TransferStart, TransferWait, TransferDone, reader,
           ReaderInv, EndpointInv, Held, InEndpoint, InBuffer, Idle, Status, Connected,
           TypeOK
  <2> QED
    BY <2>1, <2>2, KeptOrLost
<1>4. CASE ReadRunCopy
  <2>1. /\ InEndpoint /\ ebuf \in Packet /\ actual' = ebuf.len /\ Held = {ebuf}
        /\ ~InEndpoint' /\ UNCHANGED <<ebuf, sent>> /\ rx_buffer' = ebuf
    BY <1>0, <1>4, HeldIsOne, ConstantFacts
       DEF ReadRunCopy, ReaderInv, EndpointInv, InEndpoint, TypeOK, Packet, Lens
  <2>2. CASE Deliver(ebuf, actual') /\ read_state' = "RESET"
    BY <2>1, <2>2, Ended DEF Held, InBuffer
  <2>3. CASE read_state' = "START" /\ UNCHANGED given
    BY <2>1, <2>3, KeptOrLost DEF Held, InBuffer
  <2> QED
    BY <1>4, <2>2, <2>3 DEF ReadRunCopy
<1>5. CASE ReadRunDone
  <2>1. /\ InBuffer /\ rx_buffer \in Packet /\ Held = {rx_buffer}
        /\ Deliver(rx_buffer, rx_buffer.len) /\ UNCHANGED sent
    BY <1>0, <1>5, HeldIsOne DEF ReadRunDone, ReaderInv, InBuffer, TypeOK
  <2>2. Held' = {}
    BY <1>0, <1>5 DEF ReadRunDone, DoneState, EndpointInv, Held, InEndpoint, InBuffer
  <2> QED
    BY <2>1, <2>2, Ended
<1>6. ASSUME NEW n \in Lens, DataOutStage(n)
      PROVE  SlotNext
  <2>1. /\ ~InEndpoint /\ ~InBuffer /\ Held = {}
    BY <1>0, <1>6, HeldIsOne DEF DataOutStage, EndpointInv, InEndpoint, InBuffer
  <2>2. /\ sent' = sent + 1 /\ UNCHANGED given /\ session \in 0 .. MaxSessions
        /\ ebuf' = [num |-> sent', len |-> n, session |-> session]
    BY <1>0, <1>6 DEF DataOutStage, reader, TypeOK
  <2>3. InEndpoint'
    BY <1>0, <1>6 DEF DataOutStage, InEndpoint, TypeOK, Status
  <2>4. Held' = {ebuf'}
    BY <2>3, HeldIsOne DEF ReadInv, ReaderInv, EndpointInv, InEndpoint, InBuffer, Held
  <2>5. UNCHANGED Handed
    BY <2>2 DEF Handed
  <2>6. Slot!TakeIn
    BY <2>1, <2>2, <2>4, <2>5 DEF Slot!TakeIn, Held, Handed
  <2> QED
    BY <2>6 DEF SlotNext, Slot!Next
<1>7. CASE UsbReset \/ UsbDisconnect
  <2>1. UNCHANGED <<given, sent, ebuf, rx_buffer, pc, read_state>>
    BY <1>7 DEF UsbReset, UsbDisconnect, reader
  <2>2. ed' = Idle \/ ed' = ed
    BY <1>7 DEF UsbReset, UsbDisconnect, StackDisconnect
  <2>3. Held' = Held \/ Held' = {}
    BY <1>0, <2>1, <2>2 DEF EndpointInv, Held, InEndpoint, InBuffer, Idle
  <2> QED
    BY <2>1, <2>3, KeptOrLost
<1>8. CASE UNCHANGED vars
  <2>1. UNCHANGED <<given, sent>> /\ Held' = Held
    BY <1>8 DEF vars, Held, InEndpoint, InBuffer
  <2> QED
    BY <2>1, KeptOrLost
<1> QED
  BY <1>1, <1>2, <1>3, <1>4, <1>5, <1>6, <1>7, <1>8 DEF Next, MainStep, Interrupt

(* The path implements the place for one packet: nothing is taken in before the last
   packet was handed on or lost, and nothing is handed on twice.           *)
THEOREM Implements == Spec => OnePlace
<1>1. Init => Slot!Init
  <2> SUFFICES ASSUME Init PROVE Slot!Init
    OBVIOUS
  <2>1. Handed = <<>>
    BY DEF Init, Handed
  <2>2. Held = {}
    BY DEF Init, Held, InEndpoint, InBuffer, Idle
  <2> QED
    BY <2>1, <2>2 DEF Init, Slot!Init, Held, Handed
<1>2. ReadInv /\ ReadInv' /\ [Next]_vars => [Slot!Next]_(Slot!vars)
  BY NextSlot DEF SlotNext, Slot!vars, Held, Handed
<1> QED
  BY <1>1, <1>2, Invariance, PTL DEF Spec, OnePlace, Slot!Spec
=============================================================================

-------------------------- MODULE MainLoopProofs --------------------------
(***************************************************************************)
(* The bound on the time between two feeds of the watchdog, for every      *)
(* value of the constants of MainLoop.                                     *)
(***************************************************************************)
EXTENDS MainLoop, TLAPS

(* Time n lines have taken at most, when b of them are left. *)
LineCost(n, b) == LineTime * (n - b)

(* What the watchdog can have gone without, before the sleep. *)
Waited == IF burst THEN BurstWait ELSE PlainWait

(* While it drains: the lines are those of a packet, or the rest of a burst that
   the cleanup of a session has let in after it fed the watchdog.  A block that
   is not due was fed within a period when the pass began; one that is due has
   had a pass more.                                                        *)
DrainBound(b, extra) ==
    /\ now <= 0 =>
           \/ b <= PacketLines /\ unfed <= Period + LineCost(PacketLines, b) + extra
           \/ burst /\ unfed <= LineCost(StreamLines, b) + extra
    /\ \/ b <= PacketLines
           /\ unfed <= Waited + WfiTime + LineCost(PacketLines, b) + extra
       \/ burst /\ unfed <= LineCost(StreamLines, b) + extra

(* What is known of unfed at each place of the loop. *)
FedInv ==
    /\ now <= clock
    /\ unfed <= clock + Period
    /\ pc \in {"tls", "cleanup"} => backlog < StreamLines
    /\ pc \in {"check", "poll", "wfi", "top"} => backlog <= PacketLines
    /\ pc = "top" => unfed <= Waited + WfiTime
    /\ pc = "drain" => DrainBound(backlog, 0)
    /\ pc = "tls" => DrainBound(backlog + 1, 0)
    /\ pc = "cleanup" => DrainBound(backlog + 1, StepTime)
    /\ pc = "usb" => DrainBound(0, 0)
    /\ pc = "check" => DrainBound(0, UsbTime)
    /\ pc = "poll" => unfed <= 0
    /\ pc = "wfi" => unfed <= Waited

(* The constants, for the provers. *)
LEMMA ConstantTypes ==
    /\ Period \in Nat /\ Period > 0 /\ Timeout \in Nat /\ BootTime \in Nat
    /\ LineTime \in Nat /\ StepTime \in Nat /\ UsbTime \in Nat
    /\ PollTime \in Nat /\ WfiTime \in Nat /\ BurstLines \in Nat
    /\ MaxLines \in Nat /\ MaxClock \in Nat /\ BootTime <= Period
    /\ StreamLines \in Nat /\ PacketLines \in Nat /\ PacketLines <= StreamLines
  BY MainLoopAssumption

(* A line fewer in the buffer, a line's time more. *)
LEMMA DrainedFacts ==
    ASSUME NEW n \in Nat
    PROVE  /\ LineCost(n, 0) \in Nat
           /\ LineCost(n, 0) + UsbTime = DrainTime(n)
           /\ \A b \in 0 .. n : LineCost(n, b) \in Nat /\ LineCost(n, b) <= LineCost(n, 0)
           /\ \A b \in Nat \ {0} : LineCost(n, b - 1) = LineCost(n, b) + LineTime
  <1> USE ConstantTypes
  <1>1. \A m \in Nat : LineTime * m \in Nat
    OBVIOUS
  <1>2. LineCost(n, 0) = LineTime * n /\ LineCost(n, 0) \in Nat
    BY <1>1 DEF LineCost
  <1>3. ASSUME NEW b \in 0 .. n
        PROVE  LineCost(n, b) \in Nat /\ LineCost(n, b) <= LineCost(n, 0)
    <2>1. LineTime * n = LineTime * (n - b) + LineTime * b
      OBVIOUS
    <2>2. n - b \in Nat /\ b \in Nat
      OBVIOUS
    <2>3. LineTime * b \in Nat /\ LineTime * (n - b) \in Nat
      BY <1>1, <2>2
    <2>4. QED
      BY <2>1, <2>3 DEF LineCost
  <1>4. ASSUME NEW b \in Nat \ {0}
        PROVE  LineCost(n, b - 1) = LineCost(n, b) + LineTime
    <2>1. LineTime * (n - (b - 1)) = LineTime * (n - b) + LineTime
      OBVIOUS
    <2>2. QED
      BY <2>1 DEF LineCost
  <1>5. QED
    BY <1>2, <1>3, <1>4 DEF DrainTime

(* What the waits before the sleep cover. *)
LEMMA WaitFacts ==
    /\ DrainTime(PacketLines) \in Nat /\ DrainTime(StreamLines) \in Nat
    /\ PlainWait \in Nat /\ BurstWait \in Nat /\ PlainWait <= BurstWait
    /\ Period + DrainTime(PacketLines) <= PlainWait
    /\ PollTime <= PlainWait
    /\ DrainTime(StreamLines) <= BurstWait
  <1>1. ASSUME NEW n \in Nat PROVE DrainTime(n) \in Nat
    BY ConstantTypes, DrainedFacts
  <1>2. QED
    BY <1>1, ConstantTypes DEF PlainWait, BurstWait, Longer

(* A longer wait, a longer gap. *)
LEMMA UnfedMonotone ==
    ASSUME NEW v \in Nat, NEW w \in Nat
    PROVE  /\ UnfedAfter(w) \in Nat
           /\ v <= w => UnfedAfter(v) <= UnfedAfter(w)
  <1>1. LineTime * (PacketLines - 1) + StepTime \in Int
    BY ConstantTypes
  <1>2. Longer(DrainTime(PacketLines), LineTime * (PacketLines - 1) + StepTime) \in Nat
    BY <1>1, WaitFacts DEF Longer
  <1>3. QED
    BY <1>2, ConstantTypes DEF UnfedAfter

(* The ages of the last blocks, some time later. *)
LEMMA AgedType ==
    ASSUME blocks \in Seq(0 .. Period + 1), Len(blocks) <= 3, NEW d \in Nat
    PROVE  Aged(blocks, d) \in Seq(0 .. Period + 1) /\ Len(Aged(blocks, d)) <= 3
  <1> USE ConstantTypes
  <1>1. DOMAIN blocks = 1 .. Len(blocks) /\ Len(blocks) \in Nat
        /\ \A i \in 1 .. Len(blocks) : blocks[i] \in 0 .. Period + 1
    OBVIOUS
  <1>2. \A i \in 1 .. Len(blocks) :
           (IF blocks[i] + d > Period THEN Period + 1 ELSE blocks[i] + d) \in 0 .. Period + 1
    BY <1>1
  <1>3. Aged(blocks, d) = [i \in 1 .. Len(blocks) |->
           IF blocks[i] + d > Period THEN Period + 1 ELSE blocks[i] + d]
    BY <1>1 DEF Aged
  <1>4. Aged(blocks, d) \in [1 .. Len(blocks) -> 0 .. Period + 1]
    BY <1>2, <1>3
  <1>5. QED
    BY <1>1, <1>4

(* A block that runs is the newest of three. *)
LEMMA NewestType ==
    ASSUME blocks \in Seq(0 .. Period + 1), Len(blocks) <= 3
    PROVE  LET b == <<0>> \o SubSeq(blocks, 1, IF Len(blocks) < 2 THEN Len(blocks) ELSE 2)
           IN  b \in Seq(0 .. Period + 1) /\ Len(b) <= 3
  <1> USE ConstantTypes
  <1> DEFINE n == IF Len(blocks) < 2 THEN Len(blocks) ELSE 2
             s == SubSeq(blocks, 1, n)
  <1>1. n \in Nat /\ n <= 2 /\ n <= Len(blocks)
    OBVIOUS
  <1>2. s \in Seq(0 .. Period + 1) /\ Len(s) = n
    BY <1>1
  <1>3. <<0>> \in Seq(0 .. Period + 1) /\ Len(<<0>>) = 1
    OBVIOUS
  <1> HIDE DEF n, s
  <1>4. <<0>> \o s \in Seq(0 .. Period + 1) /\ Len(<<0>> \o s) = 1 + n
    BY <1>2, <1>3
  <1>5. QED
    BY <1>1, <1>4 DEF s, n

(* No block has run yet. *)
LEMMA NoneType == <<>> \in Seq(0 .. Period + 1) /\ Len(<<>>) <= 3
  OBVIOUS

(* The types hold at the beginning, *)
LEMMA InitTypeOK == Init => TypeOK
  <1> SUFFICES ASSUME Init PROVE TypeOK
    OBVIOUS
  <1>1. blocks \in Seq(0 .. Period + 1) /\ Len(blocks) <= 3
    BY NoneType DEF Init
  <1>2. /\ clock = 0 /\ now = 0 /\ unfed \in 0 .. BootTime
        /\ backlog = 0 /\ quota = MaxLines /\ auto \in BOOLEAN
        /\ pc = "top" /\ died = "no" /\ burst \in BOOLEAN
    BY Zenon DEF Init
  <1>3. QED
    BY <1>1, <1>2, ConstantTypes DEF TypeOK, Working

(* Every step keeps the types: time only moves forward within an action, and the
   backlog stays within the stream buffer.                                 *)
LEMMA NextTypeOK == TypeOK /\ [Next]_vars => TypeOK'
  <1> SUFFICES ASSUME TypeOK, [Next]_vars PROVE TypeOK'
    OBVIOUS
  <1> USE ConstantTypes DEF TypeOK, Working, At
  <1>1. CASE ReadNow
    BY <1>1 DEF ReadNow
  <1>2. ASSUME NEW d \in 0 .. LineTime, ExecLine(d) PROVE TypeOK'
    BY <1>2, AgedType DEF ExecLine, Elapse
  <1>3. CASE TlsLine
    BY <1>3 DEF TlsLine
  <1>4. ASSUME NEW d \in 0 .. StepTime, TlsPoll(d) PROVE TypeOK'
    BY <1>4, AgedType DEF TlsPoll
  <1>5. ASSUME NEW d \in 0 .. StepTime, TlsLeave(d) PROVE TypeOK'
    BY <1>5, AgedType DEF TlsLeave, Elapse
  <1>6. ASSUME NEW k \in 0 .. BurstLines, TlsCleanup(k) PROVE TypeOK'
    BY <1>6 DEF TlsCleanup
  <1>7. CASE Drained
    BY <1>7 DEF Drained
  <1>8. ASSUME NEW d \in 0 .. UsbTime, NEW k \in 0 .. PacketLines, UsbPass(d, k)
        PROVE  TypeOK'
    <2>1. backlog' \in 0 .. StreamLines /\ quota' \in 0 .. MaxLines
      BY <1>8 DEF UsbPass
    <2>2. /\ blocks' \in Seq(0 .. Period + 1) /\ Len(blocks') <= 3
          /\ clock' \in Int /\ unfed' \in Nat
      BY <1>8, AgedType DEF UsbPass, Elapse
    <2>3. QED
      BY <1>8, <2>1, <2>2 DEF UsbPass
  <1>9. CASE Block
    <2>1. burst' \in BOOLEAN
      BY <1>9, Zenon DEF Block
    <2>2. QED
      BY <1>9, <2>1, NewestType DEF Block, Advance
  <1>10. CASE NoBlock
    BY <1>10 DEF NoBlock
  <1>11. ASSUME NEW d \in 0 .. PollTime, SpiPoll(d) PROVE TypeOK'
    BY <1>11, AgedType DEF SpiPoll, Elapse
  <1>12. CASE SpiHang
    BY <1>12 DEF SpiHang
  <1>13. CASE Spin
    BY <1>13, AgedType DEF Spin, Elapse
  <1>14. ASSUME NEW d \in 0 .. WfiTime, Sleep(d) PROVE TypeOK'
    BY <1>14, AgedType DEF Sleep, Elapse
  <1>15. CASE Bite
    BY <1>15 DEF Bite
  <1>16. CASE Boot
    <2>1. blocks' \in Seq(0 .. Period + 1) /\ Len(blocks') <= 3
      BY <1>16, NoneType DEF Boot
    <2>2. /\ clock' = 0 /\ now' = 0 /\ unfed' \in 0 .. BootTime
          /\ backlog' = 0 /\ auto' \in BOOLEAN /\ pc' = "top"
          /\ quota' = quota /\ died' = died /\ burst' \in BOOLEAN
      BY <1>16, Zenon DEF Boot
    <2>3. QED
      BY <2>1, <2>2
  <1>17. CASE UNCHANGED vars
    BY <1>17 DEF vars
  <1>18. QED
    BY <1>1, <1>2, <1>3, <1>4, <1>5, <1>6, <1>7, <1>8, <1>9, <1>10, <1>11, <1>12,
       <1>13, <1>14, <1>15, <1>16, <1>17 DEF Next, Loop, Session, Restart

(* Every variable of the loop keeps its type, for all constants. *)
THEOREM TypeCorrect == Spec => []TypeOK
  <1>1. QED
    BY InitTypeOK, NextTypeOK, PTL DEF Spec

(* The watchdog has just been started. *)
LEMMA InitFedInv == Init => FedInv
  BY ConstantTypes, WaitFacts DEF Init, FedInv, Waited

(* Each step hands the bound of its place to the next place: the drain pays a
   line's time per line, the rest of the pass its own times; a block that is
   due starts again from zero, one that is not has been fed within a period;
   the cleanup that lets lines in has just fed the watchdog.               *)
LEMMA NextFedInv == TypeOK /\ FedInv /\ [Next]_vars => FedInv'
  <1> SUFFICES ASSUME TypeOK, FedInv, [Next]_vars PROVE FedInv'
    OBVIOUS
  <1>a. /\ clock \in Int /\ now \in Int /\ unfed \in Nat
        /\ backlog \in Nat /\ backlog <= StreamLines
        /\ backlog' \in Nat /\ backlog' <= StreamLines
    BY ConstantTypes, NextTypeOK DEF TypeOK
  <1>b. /\ PlainWait \in Nat /\ BurstWait \in Nat /\ PlainWait <= BurstWait
        /\ Period + LineCost(PacketLines, 0) + UsbTime <= PlainWait
        /\ PollTime <= PlainWait
        /\ LineCost(StreamLines, 0) + UsbTime <= BurstWait
        /\ LineCost(PacketLines, 0) \in Nat /\ LineCost(StreamLines, 0) \in Nat
    BY ConstantTypes, WaitFacts, DrainedFacts
  <1>c. ASSUME NEW n \in {PacketLines, StreamLines}, NEW b \in 0 .. n
        PROVE  LineCost(n, b) \in Nat
    BY ConstantTypes, DrainedFacts
  <1>d. ASSUME NEW n \in {PacketLines, StreamLines}, backlog > 0
        PROVE  LineCost(n, backlog - 1) = LineCost(n, backlog) + LineTime
    <2>1. n \in Nat /\ backlog \in Nat \ {0}
      BY <1>a, <1>d, ConstantTypes
    <2>2. QED
      BY <2>1, DrainedFacts
  <1>e. ASSUME NEW n \in {PacketLines, StreamLines}, NEW b \in Int
        PROVE  LineCost(n, b) \in Int
    BY ConstantTypes DEF LineCost
  <1>f. /\ LineCost(PacketLines, backlog) \in Int /\ LineCost(StreamLines, backlog) \in Int
        /\ LineCost(PacketLines, backlog + 1) \in Int
        /\ LineCost(StreamLines, backlog + 1) \in Int
        /\ LineCost(PacketLines, backlog') \in Int /\ LineCost(StreamLines, backlog') \in Int
    BY <1>a, <1>e
  <1>g. /\ Waited \in Nat /\ PlainWait <= Waited /\ (burst => BurstWait <= Waited)
        /\ Waited' \in Nat /\ PlainWait <= Waited' /\ (burst' => BurstWait <= Waited')
        /\ (burst' = burst => Waited' = Waited)
    BY <1>b DEF Waited
  <1> USE <1>a, <1>b, <1>f, <1>g, ConstantTypes DEF FedInv, DrainBound, At
  <1>1. CASE ReadNow
    BY <1>1, <1>c DEF ReadNow
  <1>2. ASSUME NEW d \in 0 .. LineTime, ExecLine(d) PROVE FedInv'
    BY <1>2, <1>d DEF ExecLine, Elapse
  <1>3. CASE TlsLine
    BY <1>3 DEF TlsLine
  <1>4. ASSUME NEW d \in 0 .. StepTime, TlsPoll(d) PROVE FedInv'
    BY <1>4, <1>c DEF TlsPoll
  <1>5. ASSUME NEW d \in 0 .. StepTime, TlsLeave(d) PROVE FedInv'
    BY <1>5 DEF TlsLeave, Elapse
  <1>6. ASSUME NEW k \in 0 .. BurstLines, TlsCleanup(k) PROVE FedInv'
    <2>1. /\ pc = "cleanup" /\ clock' = clock /\ now' = now /\ unfed' = 0
          /\ backlog' = backlog + k /\ pc' = "drain"
      BY <1>6, Zenon DEF TlsCleanup, At
    <2>2. backlog' <= PacketLines \/ burst'
      <3>1. CASE k > 0
        <4>1. burst' = (burst \/ k > 0)
          BY <1>6, Zenon DEF TlsCleanup
        <4>2. QED
          BY <3>1, <4>1, Zenon
      <3>2. CASE ~(k > 0)
        <4>1. backlog' = backlog /\ (backlog + 1 <= PacketLines \/ burst)
          BY <2>1, <3>2
        <4>2. CASE burst
          <5>1. burst' = (burst \/ k > 0)
            BY <1>6, Zenon DEF TlsCleanup
          <5>2. QED
            BY <4>2, <5>1, Zenon
        <4>3. CASE backlog + 1 <= PacketLines
          BY <4>1, <4>3
        <4>4. QED
          BY <4>1, <4>2, <4>3
      <3>3. QED
        BY <3>1, <3>2
    <2>3. /\ backlog' <= PacketLines => LineCost(PacketLines, backlog') \in Nat
          /\ LineCost(StreamLines, backlog') \in Nat
      BY <1>c
    <2>4. DrainBound(backlog, 0)'
      BY <2>1, <2>2, <2>3
    <2>5. QED
      BY <2>1, <2>4
  <1>7. CASE Drained
    BY <1>7 DEF Drained
  <1>8. ASSUME NEW d \in 0 .. UsbTime, NEW k \in 0 .. PacketLines, UsbPass(d, k)
        PROVE  FedInv'
    BY <1>8 DEF UsbPass, Elapse
  <1>9. CASE Block
    <2>1. /\ now > 0 /\ clock' = clock - Period /\ now' = now - Period
          /\ unfed' = 0 /\ pc' \in {"poll", "wfi"} /\ pc = "check"
          /\ backlog' = backlog
      BY <1>9, Zenon DEF Block, BlockDue, Advance
    <2>2. unfed' <= clock' + Period /\ now' <= clock' /\ backlog' <= PacketLines
      BY <2>1
    <2>3. unfed' <= Waited'
      BY <2>1
    <2>4. QED
      BY ONLY <2>1, <2>2, <2>3 DEF FedInv
  <1>10. CASE NoBlock
    BY <1>10 DEF NoBlock, BlockDue
  <1>11. ASSUME NEW d \in 0 .. PollTime, SpiPoll(d) PROVE FedInv'
    BY <1>11 DEF SpiPoll, Elapse
  <1>12. CASE SpiHang
    BY <1>12 DEF SpiHang
  <1>13. CASE Spin
    BY <1>13 DEF Spin, Elapse
  <1>14. ASSUME NEW d \in 0 .. WfiTime, Sleep(d) PROVE FedInv'
    BY <1>14 DEF Sleep, Elapse
  <1>15. CASE Bite
    BY <1>15 DEF Bite
  <1>16. CASE Boot
    <2>1. /\ clock' = 0 /\ now' = 0 /\ unfed' \in 0 .. BootTime
          /\ backlog' = 0 /\ pc' = "top"
      BY <1>16, Zenon DEF Boot
    <2>2. unfed' <= Waited' + WfiTime
      <3>1. \A u, w \in Nat : u <= Period /\ PlainWait <= w => u <= w + WfiTime
        BY ONLY <1>b, ConstantTypes
      <3>2. unfed' \in Nat /\ unfed' <= Period
        BY ONLY <2>1, ConstantTypes
      <3>3. QED
        BY ONLY <1>g, <3>1, <3>2
    <2>3. unfed' <= clock' + Period /\ now' <= clock' /\ backlog' <= PacketLines
      BY ONLY <2>1, ConstantTypes
    <2>4. QED
      BY ONLY <2>1, <2>2, <2>3 DEF FedInv
  <1>17. CASE UNCHANGED vars
    BY <1>17 DEF vars
  <1>18. QED
    BY <1>1, <1>2, <1>3, <1>4, <1>5, <1>6, <1>7, <1>8, <1>9, <1>10, <1>11, <1>12,
       <1>13, <1>14, <1>15, <1>16, <1>17 DEF Next, Loop, Session, Restart

(* The bounds of all places are within the longest gap of their kind. *)
LEMMA FedInvBounds ==
    ASSUME TypeOK, FedInv, pc \in Working
    PROVE  unfed <= UnfedAfter(Waited)
  <1>1. /\ unfed \in Nat /\ now \in Int
        /\ backlog \in Nat /\ backlog <= StreamLines
    BY ConstantTypes DEF TypeOK
  <1>2. /\ Waited \in Nat
        /\ (burst => LineCost(StreamLines, 0) + UsbTime <= Waited)
        /\ LineCost(PacketLines, 0) \in Nat /\ LineCost(StreamLines, 0) \in Nat
        /\ UnfedAfter(Waited) \in Nat
    BY ConstantTypes, WaitFacts, DrainedFacts, UnfedMonotone DEF Waited
  <1>3. /\ UnfedAfter(Waited) >= Waited + WfiTime + LineCost(PacketLines, 0) + UsbTime
        /\ UnfedAfter(Waited) >= Waited + WfiTime + LineCost(PacketLines, 1) + StepTime
    <2>1. LineCost(PacketLines, 0) + UsbTime = DrainTime(PacketLines)
      BY ConstantTypes, DrainedFacts
    <2>2. LineTime * (PacketLines - 1) = LineCost(PacketLines, 1)
      BY DEF LineCost
    <2>3. LineCost(PacketLines, 0) = LineCost(PacketLines, 1) + LineTime
      <3>1. LineCost(PacketLines, 1 - 1) = LineCost(PacketLines, 1) + LineTime
        BY ConstantTypes, DrainedFacts
      <3>2. QED
        BY <3>1
    <2>4. LineCost(PacketLines, 1) \in Int
      BY ConstantTypes DEF LineCost
    <2>5. QED
      BY <1>2, <2>1, <2>2, <2>4, ConstantTypes DEF UnfedAfter, Longer
  <1>4. CASE pc \in {"tls", "cleanup"}
    <2>1. ASSUME NEW n \in Nat
          PROVE  /\ LineCost(n, backlog + 1) <= LineCost(n, 1)
                 /\ LineCost(n, 1) + LineTime = LineCost(n, 0)
                 /\ LineCost(n, 1) \in Int /\ LineCost(n, backlog + 1) \in Int
      <3>1. LineTime * (n - 1) = LineTime * (n - (backlog + 1)) + LineTime * backlog
        BY <1>1, ConstantTypes
      <3>2. LineTime * backlog \in Nat
        BY <1>1, ConstantTypes
      <3>3. LineTime * (n - 1) + LineTime = LineTime * (n - 0)
        BY ConstantTypes
      <3>4. LineTime * (n - 1) \in Int /\ LineTime * (n - (backlog + 1)) \in Int
        BY <1>1, ConstantTypes
      <3>5. QED
        BY <3>1, <3>2, <3>3, <3>4 DEF LineCost
    <2>2. QED
      BY <1>1, <1>2, <1>3, <1>4, <2>1, ConstantTypes DEF FedInv, DrainBound
  <1>5. CASE pc = "drain"
    <2>1. ASSUME NEW n \in Nat
          PROVE  LineCost(n, backlog) <= LineCost(n, 0) /\ LineCost(n, backlog) \in Int
      <3>1. LineTime * (n - 0) = LineTime * (n - backlog) + LineTime * backlog
        BY <1>1, ConstantTypes
      <3>2. LineTime * backlog \in Nat /\ LineTime * (n - backlog) \in Int
        BY <1>1, ConstantTypes
      <3>3. QED
        BY <3>1, <3>2 DEF LineCost
    <2>2. QED
      BY <1>1, <1>2, <1>3, <1>5, <2>1, ConstantTypes DEF FedInv, DrainBound
  <1>6. CASE pc \in {"top", "usb", "check", "poll", "wfi"}
    BY <1>1, <1>2, <1>3, <1>6, ConstantTypes DEF FedInv, DrainBound
  <1>7. QED
    BY <1>4, <1>5, <1>6 DEF Working

(* The place in the pass and the lines left bound the gap, in every reachable state. *)
LEMMA FedInvHolds == Spec => []FedInv
  BY TypeCorrect, InitFedInv, NextFedInv, PTL DEF Spec

(* Whatever the host sends, and however many sessions, polls, hangs and resets
   there are, a program that works feeds the watchdog within LongestUnfed. *)
THEOREM Fed == Spec => []FedInTime
  <1>1. TypeOK /\ FedInv => FedInTime
    <2>1. Waited \in Nat /\ Waited <= BurstWait
      BY WaitFacts DEF Waited
    <2>2. UnfedAfter(Waited) \in Nat /\ UnfedAfter(Waited) <= LongestUnfed
          /\ LongestUnfed \in Nat
      BY <2>1, WaitFacts, UnfedMonotone DEF LongestUnfed
    <2>3. ASSUME TypeOK, FedInv, pc \in Working PROVE unfed <= LongestUnfed
      <3>1. unfed <= UnfedAfter(Waited)
        BY <2>3, FedInvBounds
      <3>2. unfed \in Nat
        BY <2>3 DEF TypeOK
      <3>3. QED
        BY <2>2, <3>1, <3>2
    <2>4. QED
      BY <2>3 DEF FedInTime
  <1>2. QED
    BY <1>1, TypeCorrect, FedInvHolds, PTL

(* When a pass with a packet of lines fits in the watchdog's time, whatever the
   stream buffer may hold, the watchdog resets a program that works only if a
   session's cleanup has let lines in since the block ran.                 *)
THEOREM OnlyBurstsReset ==
    ASSUME PlainUnfed <= Timeout
    PROVE  Spec => []BiteNeedsBurst
  <1>1. Init => BiteNeedsBurst
    BY DEF Init, BiteNeedsBurst
  <1>2. TypeOK /\ FedInv /\ BiteNeedsBurst /\ [Next]_vars => BiteNeedsBurst'
    <2> SUFFICES ASSUME TypeOK, FedInv, BiteNeedsBurst, [Next]_vars
                 PROVE  BiteNeedsBurst'
      OBVIOUS
    <2>1. CASE Bite
      <3>1. CASE pc = "hung" \/ burst
        BY <2>1, <3>1 DEF Bite, BiteNeedsBurst
      <3>2. CASE pc # "hung" /\ ~burst
        <4>1. pc \in Working
          BY <2>1, <3>2 DEF Bite, TypeOK
        <4>2. unfed <= PlainUnfed
          <5>1. Waited = PlainWait
            BY <3>2 DEF Waited
          <5>2. QED
            BY <4>1, <5>1, FedInvBounds DEF PlainUnfed
        <4>3. PlainUnfed \in Nat
          BY UnfedMonotone, WaitFacts DEF PlainUnfed
        <4>4. unfed > Timeout /\ unfed \in Nat
          BY <2>1, Zenon DEF Bite, TypeOK
        <4>5. QED
          BY <4>2, <4>3, <4>4, ConstantTypes
      <3>3. QED
        BY <3>1, <3>2
    <2>2. CASE died' = died
      BY <2>2 DEF BiteNeedsBurst
    <2>3. QED
      BY <2>1, <2>2 DEF Next, Loop, Session, Restart, vars, ReadNow, ExecLine, TlsLine,
         TlsPoll, TlsLeave, TlsCleanup, Drained, UsbPass, Block, NoBlock, SpiPoll,
         SpiHang, Spin, Sleep, Boot
  <1>3. QED
    BY <1>1, <1>2, TypeCorrect, FedInvHolds, PTL DEF Spec
=============================================================================

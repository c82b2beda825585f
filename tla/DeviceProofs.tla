--------------------------- MODULE DeviceProofs ---------------------------
(***************************************************************************)
(* Boot, Seed, and the two within the device.                              *)
(*                                                                         *)
(* Boot: main() tells the watchdog's resets and the host's from all others *)
(* and from each other, whichever resets come from outside and whichever   *)
(* devices fail.  Seed: wolfSSL's seed is filled exactly, for every word   *)
(* size, alignment and length.                                             *)
(*                                                                         *)
(* The lamp and the seed leave the start-up alone, so that the device      *)
(* implements Boot and keeps what is proved of it.  A seed, however, may   *)
(* be cut off by a reset, which Seed does not have: its invariant is taken *)
(* through that step here.                                                 *)
(***************************************************************************)
EXTENDS Device, TLAPS

(* The registers and the history: the backup register holds a request, and the
   flags name the watchdog, exactly as long as that has happened.          *)
CauseInv ==
    /\ wdid = "RQ" <=> "request" \in since
    /\ "IWDG" \in csr <=> "bite" \in since
    /\ WatchdogReported
    /\ RequestReported

BootInv == TypeOK /\ CauseInv

-----------------------------------------------------------------------------
(* The initial state satisfies the invariant. *)
LEMMA InitBootInv == Init => BootInv
<1> SUFFICES ASSUME Init PROVE BootInv
  OBVIOUS
<1>1. TypeOK
  <2>1. connected \in BOOLEAN
    BY Zenon DEF Init
  <2> QED
    BY <2>1 DEF Init, TypeOK, Places
<1>2. CauseInv
  BY DEF Init, CauseInv, WatchdogReported, RequestReported, Known, Told
<1> QED
  BY <1>1, <1>2 DEF BootInv

(* A reset from outside, or the watchdog's, leaves the types as they are. *)
LEMMA RestartTypeOK ==
    ASSUME TypeOK, Restart, csr' \subseteq {"PIN", "BOR", "IWDG"}, wdid' \in {"0", "RQ"},
           since' \subseteq {"power", "pin", "brownout", "bite", "request"}
    PROVE  TypeOK'
<1>1. connected' \in BOOLEAN
  BY Zenon DEF Restart
<1> QED
  BY <1>1 DEF Restart, TypeOK, Places

(* Every step keeps the types. *)
LEMMA NextTypeOK == BootInv /\ [Next]_vars => TypeOK'
<1> SUFFICES ASSUME BootInv, [Next]_vars PROVE TypeOK'
  OBVIOUS
<1>0. TypeOK
  BY DEF BootInv
<1>1. CASE PowerOn
  BY <1>0, <1>1, RestartTypeOK DEF PowerOn
<1>2. CASE External("pin", "PIN")
  BY <1>0, <1>2, RestartTypeOK DEF External, TypeOK
<1>3. CASE External("brownout", "BOR")
  BY <1>0, <1>3, RestartTypeOK DEF External, TypeOK
<1>4. CASE Bite
  BY <1>0, <1>4, RestartTypeOK DEF Bite, TypeOK
<1>5. CASE Connect
  <2>1. connected' \in BOOLEAN
    BY <1>5, Zenon DEF Connect
  <2> QED
    BY <1>0, <1>5, <2>1 DEF Connect, TypeOK
<1>6. CASE Request
  BY <1>0, <1>6 DEF Request, Step, TypeOK, Places
<1>7. CASE Boots
  <2>1. UNCHANGED connected
    BY <1>7 DEF Boots, Clock, Rng, WdRun, GetType, Banner, ClearFlags, ClearWdid,
                InitDevices, Hasten
  <2>2. pc' \in Places
    BY <1>7 DEF Boots, Clock, Rng, WdRun, GetType, Banner, ClearFlags, ClearWdid,
                InitDevices, Hasten, Step, Places
  <2>3. reset_type' \in {"POWER_ON", "USER_RQ", "WDT", "BOD"}
    BY <1>0, <1>7 DEF Boots, Clock, Rng, WdRun, GetType, Banner, ClearFlags, ClearWdid,
                InitDevices, Hasten, Type, TypeOK
  <2>4. /\ csr' \subseteq {"PIN", "BOR", "IWDG"} /\ wdid' \in {"0", "RQ"}
        /\ iwdg' \in {"off", "slow", "fast"} /\ banner' \in {"none", "sent", "lost"}
        /\ since' \subseteq {"power", "pin", "brownout", "bite", "request"}
    BY <1>0, <1>7 DEF Boots, Clock, Rng, WdRun, GetType, Banner, ClearFlags, ClearWdid,
                InitDevices, Hasten, TypeOK
  <2> QED
    BY <1>0, <2>1, <2>2, <2>3, <2>4 DEF TypeOK
<1>8. CASE UNCHANGED vars
  BY <1>0, <1>8 DEF vars, TypeOK
<1> QED
  BY <1>1, <1>2, <1>3, <1>4, <1>5, <1>6, <1>7, <1>8 DEF Next

(* Every step keeps the registers and the history together. *)
LEMMA NextCauseInv == BootInv /\ [Next]_vars => CauseInv'
<1> SUFFICES ASSUME BootInv, [Next]_vars PROVE CauseInv'
  OBVIOUS
<1> USE DEF CauseInv, WatchdogReported, RequestReported, Known, Told
<1>0. TypeOK /\ CauseInv
  BY DEF BootInv
<1>1. CASE PowerOn
  BY <1>1 DEF PowerOn, Restart
<1>2. CASE External("pin", "PIN")
  BY <1>0, <1>2 DEF External, Restart
<1>3. CASE External("brownout", "BOR")
  BY <1>0, <1>3 DEF External, Restart
<1>4. CASE Bite
  BY <1>0, <1>4 DEF Bite, Restart
<1>5. CASE Connect
  BY <1>0, <1>5 DEF Connect
<1>6. CASE Request
  BY <1>0, <1>6 DEF Request, Step
<1>7. CASE Clock
  BY <1>0, <1>7 DEF Clock, Step
<1>8. CASE Rng
  BY <1>0, <1>8 DEF Rng, Step
<1>9. CASE WdRun
  BY <1>0, <1>9 DEF WdRun, Step
<1>10. CASE GetType
  BY <1>0, <1>10 DEF GetType, Type, Step, TypeOK
<1>11. CASE Banner
  BY <1>0, <1>11 DEF Banner, Step
<1>12. CASE ClearFlags
  BY <1>0, <1>12 DEF ClearFlags, Step
<1>13. CASE ClearWdid
  BY <1>0, <1>13 DEF ClearWdid, Step
<1>14. CASE InitDevices
  BY <1>0, <1>14 DEF InitDevices, Step
<1>15. CASE Hasten
  BY <1>0, <1>15 DEF Hasten, Step
<1>16. CASE UNCHANGED vars
  BY <1>0, <1>16 DEF vars
<1> QED
  BY <1>1, <1>2, <1>3, <1>4, <1>5, <1>6, <1>7, <1>8, <1>9, <1>10, <1>11, <1>12,
     <1>13, <1>14, <1>15, <1>16 DEF Next, Boots

(* It holds throughout. *)
LEMMA Invariance == Spec => []BootInv
<1>1. BootInv /\ [Next]_vars => BootInv'
  BY NextTypeOK, NextCauseInv DEF BootInv
<1> QED
  BY InitBootInv, <1>1, PTL DEF Spec

(* The variables keep their types. *)
THEOREM TypeCorrect == Spec => []TypeOK
<1>1. BootInv => TypeOK
  BY DEF BootInv
<1> QED
  BY Invariance, <1>1, PTL

(* main() reports a reset of the watchdog exactly when there was one that nobody had
   asked for, whenever resets interrupt the boot or the clearing of the causes
   (reset.c:5-31).                                                         *)
THEOREM WatchdogNamed == Spec => []WatchdogReported
<1>1. BootInv => WatchdogReported
  BY DEF BootInv, CauseInv
<1> QED
  BY Invariance, <1>1, PTL

(* And it reports the host's RESET before the watchdog that carried it out
   (reset.c:11-17).                                                        *)
THEOREM RequestNamed == Spec => []RequestReported
<1>1. BootInv => RequestReported
  BY DEF BootInv, CauseInv
<1> QED
  BY Invariance, <1>1, PTL

-----------------------------------------------------------------------------
(* The first i bytes of the output are random and no others, and i does not pass
   the size.                                                                *)
FilledInv ==
    /\ SeedTypeOK
    /\ i <= sz
    /\ \A a \in Addresses : mem[a] = "random" <=> a \in output .. output + i - 1
    /\ ret = "0" => i = sz

(* The constants, one by one. *)
LEMMA ConstantFacts ==
    /\ Word \in Nat /\ Word > 0
    /\ Memory \in Nat /\ MaxBase \in Nat /\ MaxSize \in Nat
    /\ MaxBase + MaxSize < Memory
  BY SeedAssumption

(* The initial state satisfies the invariant. *)
LEMMA InitFilled == SeedInit => FilledInv
  BY ConstantFacts DEF SeedInit, FilledInv, SeedTypeOK, Addresses

(* A number of n bytes that fits keeps it. *)
LEMMA GenerateFills ==
    ASSUME NEW n \in Nat, FilledInv, n > 0, i + n <= sz, ret = "none", Generate(n)
    PROVE  FilledInv'
<1> USE ConstantFacts
<1>1. /\ output \in Nat /\ sz \in Nat /\ i \in Nat
      /\ output + sz < Memory
  BY DEF FilledInv, SeedTypeOK
<1>2. /\ output' = output /\ sz' = sz /\ ret' = ret /\ i' = i + n
  BY DEF Generate
<1>3. mem' \in [Addresses -> {"old", "random"}]
  BY DEF Generate, FilledInv, SeedTypeOK
<1>4. SeedTypeOK'
  BY <1>1, <1>2, <1>3 DEF FilledInv, SeedTypeOK
<1>5. ASSUME NEW a \in Addresses
      PROVE  mem'[a] = "random" <=> a \in output' .. output' + i' - 1
  <2>1. mem'[a] = IF a \in output + i .. output + i + n - 1 THEN "random" ELSE mem[a]
    BY DEF Generate
  <2>2. mem[a] = "random" <=> a \in output .. output + i - 1
    BY DEF FilledInv
  <2>3. a \in Nat
    BY DEF Addresses
  <2> QED
    BY <1>1, <1>2, <2>1, <2>2, <2>3
<1> QED
  BY <1>1, <1>2, <1>4, <1>5 DEF FilledInv

(* Every step keeps it. *)
LEMMA NextFilled == FilledInv /\ [SeedNext]_seed_vars => FilledInv'
<1> SUFFICES ASSUME FilledInv, [SeedNext]_seed_vars PROVE FilledInv'
  OBVIOUS
<1> USE ConstantFacts
<1>1. CASE Refuse
  BY <1>1 DEF Refuse, FilledInv, SeedTypeOK
<1>2. CASE One
  <2>1. i + 1 <= sz /\ ret = "none" /\ Generate(1)
    BY <1>2 DEF One, Busy, FilledInv, SeedTypeOK
  <2> QED
    BY <2>1, GenerateFills
<1>3. CASE Four
  <2>1. i + Word <= sz /\ ret = "none" /\ Generate(Word)
    BY <1>3 DEF Four, Busy, Single, FilledInv, SeedTypeOK
  <2> QED
    BY <2>1, GenerateFills
<1>4. CASE Fail
  BY <1>4 DEF Fail, Busy, FilledInv, SeedTypeOK
<1>5. CASE Done
  BY <1>5 DEF Done, FilledInv, SeedTypeOK
<1>6. CASE Call
  <2>1. NewCall
    BY <1>6 DEF Call
  <2>2. SeedTypeOK'
    BY <2>1 DEF NewCall, SeedTypeOK, Addresses
  <2>3. i' <= sz' /\ ret' # "0"
    BY <2>1 DEF NewCall
  <2>4. ASSUME NEW a \in Addresses
        PROVE  mem'[a] = "random" <=> a \in output' .. output' + i' - 1
    <3>1. mem'[a] = "old" /\ i' = 0 /\ output' \in Nat
      BY <2>1 DEF NewCall
    <3>2. a \notin output' .. output' + i' - 1
      BY <3>1
    <3> QED
      BY <3>1, <3>2
  <2> QED
    BY <2>2, <2>3, <2>4 DEF FilledInv, Addresses
<1>7. CASE UNCHANGED seed_vars
  BY <1>7 DEF seed_vars, FilledInv, SeedTypeOK
<1> QED
  BY <1>1, <1>2, <1>3, <1>4, <1>5, <1>6, <1>7 DEF SeedNext

(* It holds throughout. *)
LEMMA SeedInvariance == SeedSpec => []FilledInv
  BY InitFilled, NextFilled, PTL DEF SeedSpec

(* No byte outside the output is written (main.c:137-154). *)
LEMMA StaysInside == SeedSpec => []OnlyTheOutput
<1>1. FilledInv => OnlyTheOutput
  BY ConstantFacts DEF FilledInv, OnlyTheOutput, SeedTypeOK, Addresses
<1> QED
  BY SeedInvariance, <1>1, PTL

(* A seed that is returned as good is random in every byte (main.c:135-157). *)
LEMMA FillsAll == SeedSpec => []EveryByte
<1>1. FilledInv => EveryByte
  BY ConstantFacts DEF FilledInv, EveryByte, SeedTypeOK, Addresses
<1> QED
  BY SeedInvariance, <1>1, PTL

(* Both together, in every state of every call (main.c:124-158). *)
THEOREM Exact == SeedSpec => []FilledExactly
<1>1. OnlyTheOutput /\ EveryByte => FilledExactly
  BY DEF FilledExactly
<1> QED
  BY StaysInside, FillsAll, <1>1, PTL

-----------------------------------------------------------------------------
(* A step of the device is a step of Boot, or leaves Boot's variables alone. *)
LEMMA StepsOfBoot == [DeviceNext]_device_vars => [Next]_vars
<1> SUFFICES ASSUME [DeviceNext]_device_vars PROVE [Next]_vars
  OBVIOUS
<1>1. CASE StartStep
  BY <1>1 DEF StartStep
<1>2. CASE LampStep
  BY <1>2 DEF LampStep
<1>3. CASE SeedStep
  BY <1>3 DEF SeedStep
<1>4. CASE UNCHANGED device_vars
  BY <1>4 DEF device_vars
<1> QED
  BY <1>1, <1>2, <1>3, <1>4 DEF DeviceNext

(* The device implements Boot: whatever the lamp and the seed do, the start-up runs
   as it does alone (main.c:256-340).                                      *)
THEOREM ImplementsBoot == DeviceSpec => Spec
<1>1. DeviceInit => Init
  BY DEF DeviceInit
<1> QED
  BY <1>1, StepsOfBoot, PTL DEF DeviceSpec, Spec

(* A reset in the middle of a seed leaves the invariant of the seed as it was at
   the beginning of a call.                                                *)
LEMMA ForgottenFilled ==
    ASSUME FilledInv, Forgotten
    PROVE  FilledInv'
<1> USE ConstantFacts
<1>1. /\ i' = 0 /\ ret' = "none" /\ output' = output /\ sz' = sz
      /\ mem' = [a \in Addresses |-> "old"]
  BY DEF Forgotten
<1>2. output \in Nat /\ sz \in Nat
  BY DEF FilledInv, SeedTypeOK
<1>3. SeedTypeOK'
  BY <1>1 DEF FilledInv, SeedTypeOK
<1>4. ASSUME NEW a \in Addresses
      PROVE  mem'[a] = "random" <=> a \in output' .. output' + i' - 1
  BY <1>1, <1>2
<1> QED
  BY <1>1, <1>2, <1>3, <1>4 DEF FilledInv

(* Every step of the device keeps the invariant of the seed. *)
LEMMA DeviceFilled == FilledInv /\ [DeviceNext]_device_vars => FilledInv'
<1> SUFFICES ASSUME FilledInv, [DeviceNext]_device_vars PROVE FilledInv'
  OBVIOUS
<1>1. CASE Forgotten
  BY <1>1, ForgottenFilled
<1>2. CASE UNCHANGED seed_vars
  BY <1>2, NextFilled
<1>3. CASE SeedNext
  BY <1>3, NextFilled
<1>4. StartStep => Forgotten \/ UNCHANGED seed_vars
  BY DEF StartStep
<1>5. LampStep => UNCHANGED seed_vars
  BY DEF LampStep
<1>6. SeedStep => SeedNext
  BY DEF SeedStep
<1>7. UNCHANGED device_vars => UNCHANGED seed_vars
  BY DEF device_vars
<1> QED
  BY <1>1, <1>2, <1>3, <1>4, <1>5, <1>6, <1>7 DEF DeviceNext

(* In the device too, main() tells the watchdog's resets from all others
   (reset.c:5-31).                                                         *)
THEOREM DeviceWatchdogNamed == DeviceSpec => []WatchdogReported
  BY ImplementsBoot, WatchdogNamed, PTL

(* And names the host's RESET (reset.c:11-17). *)
THEOREM DeviceRequestNamed == DeviceSpec => []RequestReported
  BY ImplementsBoot, RequestNamed, PTL

(* A seed is filled exactly, whatever resets cut off the calls before it
   (main.c:124-158).                                                       *)
THEOREM DeviceExact == DeviceSpec => []FilledExactly
<1>1. DeviceInit => FilledInv
  BY InitFilled DEF DeviceInit
<1>2. FilledInv => FilledExactly
  BY ConstantFacts DEF FilledInv, FilledExactly, OnlyTheOutput, EveryByte, SeedTypeOK,
                       Addresses
<1> QED
  BY <1>1, <1>2, DeviceFilled, PTL DEF DeviceSpec

-----------------------------------------------------------------------------
(* The lamp.  The tick of the sequence that the copy shows next is one more than
   the ticks shown since it was taken.                                     *)
Tick == Length - 1 - count

(* The tick of a sequence that was shown k ticks ago, when t is the next one. *)
Ago(t, k) == IF k <= t THEN t - k ELSE t - k + Length

(* From the first block on, the copy is the mask of the present connection, shifted
   by the ticks shown of it; in the first period they are those since the change,
   and what was shown since is that mask, read backwards.                  *)
LampInv ==
    /\ Lamp!TypeOK
    /\ mask = Lamp!Mode(prev_state) /\ length = Length - 1
    /\ settled = -1 => count = 0 /\ lit = <<>>
    /\ settled >= 0 =>
           /\ \A b \in Nat : b \in mask_run <=> b + Tick \in mask
           /\ settled < Length => Tick = settled
           /\ settled <= Len(lit)
           /\ \A k \in 1 .. settled : lit[k] = 1 <=> Ago(Tick, k) \in mask

(* The remainder of a division by the length of a sequence. *)
LEMMA AgoIsRemainder ==
    ASSUME NEW t \in 0 .. Length - 1, NEW k \in 1 .. Length
    PROVE  (t - k) % Length = Ago(t, k)
  BY LampAssumption DEF Ago

(* At the start, and after a reset. *)
LEMMA LampIsFresh ==
    ASSUME mask = Idle, mask_run = {}, prev_state = FALSE, length = Length - 1,
           count = 0, lit = <<>>, settled = -1
    PROVE  LampInv
<1>1. Lamp!TypeOK
  <2>1. prev_state \in BOOLEAN
    BY Zenon
  <2>2. mask \in SUBSET (0 .. 31) /\ mask_run \in SUBSET (0 .. 31)
    BY LampAssumption
  <2>3. length \in 0 .. Length - 1 /\ count \in 0 .. Length - 1
    BY LampAssumption
  <2>4. lit \in Seq({0, 1}) /\ Len(lit) <= Length /\ settled \in -1 .. Length
    BY LampAssumption
  <2>5. QED
    BY <2>1, <2>2, <2>3, <2>4 DEF Lamp!TypeOK
<1>2. mask = Lamp!Mode(prev_state)
  BY DEF Lamp!Mode
<1>3. QED
  BY <1>1, <1>2 DEF LampInv

(* A reset leaves the lamp as it is at the beginning. *)
LEMMA RestartIsFresh ==
    ASSUME Lamp!Restarted
    PROVE  LampInv'
<1>1. /\ mask' = Idle /\ mask_run' = {} /\ length' = Length - 1
      /\ count' = 0 /\ lit' = <<>> /\ settled' = -1
  BY DEF Lamp!Restarted
<1>2. prev_state' = FALSE
  BY Zenon DEF Lamp!Restarted
<1>3. Lamp!TypeOK'
  <2>1. prev_state' \in BOOLEAN
    BY <1>2, Zenon
  <2>2. mask' \in SUBSET (0 .. 31) /\ mask_run' \in SUBSET (0 .. 31)
    BY <1>1, LampAssumption
  <2>3. length' \in 0 .. Length - 1 /\ count' \in 0 .. Length - 1
    BY <1>1, LampAssumption
  <2>4. lit' \in Seq({0, 1}) /\ Len(lit') <= Length /\ settled' \in -1 .. Length
    BY <1>1, LampAssumption
  <2>5. QED
    BY <2>1, <2>2, <2>3, <2>4 DEF Lamp!TypeOK
<1>4. mask' = Lamp!Mode(prev_state)'
  BY <1>1, <1>2 DEF Lamp!Mode
<1>5. QED
  BY <1>1, <1>3, <1>4 DEF LampInv

(* What the invariant says of the types, one by one. *)
LEMMA LampTypes ==
    ASSUME LampInv
    PROVE  /\ Length \in Nat \ {0} /\ count \in 0 .. Length - 1 /\ length = Length - 1
           /\ settled \in -1 .. Length
           /\ mask \in SUBSET (0 .. 31) /\ mask_run \in SUBSET (0 .. 31)
           /\ mask \in SUBSET Nat /\ mask_run \in SUBSET Nat
           /\ lit \in Seq({0, 1}) /\ Len(lit) \in Nat /\ Len(lit) <= Length
           /\ Tick \in 0 .. Length - 1 /\ (count = 0 <=> Tick = Length - 1)
<1>1. Length \in Nat \ {0}
  BY LampAssumption
<1>2. Lamp!TypeOK /\ length = Length - 1
  BY DEF LampInv
<1>3. count \in 0 .. Length - 1 /\ settled \in -1 .. Length /\ Len(lit) <= Length
      /\ lit \in Seq({0, 1})
  BY <1>2 DEF Lamp!TypeOK
<1>4. mask \in SUBSET (0 .. 31) /\ mask_run \in SUBSET (0 .. 31)
  BY <1>2 DEF Lamp!TypeOK
<1>5. 0 .. 31 \subseteq Nat
  OBVIOUS
<1>6. mask \in SUBSET Nat /\ mask_run \in SUBSET Nat
  BY <1>4, <1>5
<1>7. Tick \in 0 .. Length - 1 /\ (count = 0 <=> Tick = Length - 1)
  BY <1>1, <1>3 DEF Tick
<1>8. QED
  BY <1>1, <1>2, <1>3, <1>4, <1>6, <1>7

(* One tick shows what the copy holds, and moves the history by one. *)
LEMMA TickShows ==
    ASSUME LampInv, Lamp!Block
    PROVE  /\ lit' \in Seq({0, 1}) /\ Len(lit') <= Length
           /\ Len(lit') >= 1
           /\ Len(lit) < Length => Len(lit') = Len(lit) + 1
           /\ Len(lit) = Length => Len(lit') = Length
           /\ lit'[1] = 1 <=> 0 \in mask_run
           /\ \A k \in 1 .. Len(lit') - 1 : lit'[k + 1] = lit[k]
<1> DEFINE x == IF 0 \in mask_run THEN 1 ELSE 0
           n == IF Len(lit) < Length THEN Len(lit) + 1 ELSE Length
           s == <<x>> \o lit
<1>1. lit' = SubSeq(s, 1, n)
  BY DEF Lamp!Block
<1>2. /\ lit \in Seq({0, 1}) /\ Len(lit) \in Nat /\ Len(lit) <= Length
      /\ Length \in Nat \ {0} /\ x \in {0, 1}
  BY LampAssumption DEF LampInv, Lamp!TypeOK
<1> HIDE DEF x
<1>3. /\ s \in Seq({0, 1}) /\ Len(s) = Len(lit) + 1 /\ s[1] = x
      /\ \A k \in 1 .. Len(lit) : s[k + 1] = lit[k]
  BY <1>2
<1>4. n \in 1 .. Len(s) /\ n <= Length
  BY <1>2, <1>3
<1> HIDE DEF s, n
<1>5. /\ lit' \in Seq({0, 1}) /\ Len(lit') = n
      /\ \A k \in 1 .. n : lit'[k] = s[k]
  BY <1>1, <1>3, <1>4
<1>6. lit'[1] = 1 <=> 0 \in mask_run
  BY <1>2, <1>3, <1>4, <1>5 DEF x
<1>7. \A k \in 1 .. Len(lit') - 1 : lit'[k + 1] = lit[k]
  <2>1. \A k \in 1 .. n - 1 : k + 1 \in 1 .. n /\ k \in 1 .. Len(lit)
    BY <1>2, <1>3, <1>4
  <2>2. QED
    BY <1>3, <1>5, <2>1
<1>8. QED
  BY <1>2, <1>4, <1>5, <1>6, <1>7 DEF n

(* The bits of a shifted mask. *)
LEMMA ShiftedIs ==
    ASSUME NEW m \in SUBSET Nat
    PROVE  /\ \A b \in Nat : b \in Lamp!Shifted(m) <=> b + 1 \in m
           /\ m \subseteq 0 .. 31 => Lamp!Shifted(m) \subseteq 0 .. 31
  BY DEF Lamp!Shifted

(* The block keeps the types. *)
LEMMA BlockTypes ==
    ASSUME LampInv, Lamp!Block, connected \in BOOLEAN
    PROVE  Lamp!TypeOK'
<1> DEFINE changed == connected # prev_state
           now == IF changed THEN Lamp!CyclicSequence(Lamp!Mode(connected))
                  ELSE [mask |-> mask, length |-> length, count |-> count]
<1>1. /\ mask \in SUBSET (0 .. 31) /\ mask_run \in SUBSET (0 .. 31)
      /\ Lamp!Mode(connected) \in SUBSET (0 .. 31)
      /\ length \in 0 .. Length - 1 /\ count \in 0 .. Length - 1 /\ Length \in Nat \ {0}
      /\ settled \in -1 .. Length
  <2>1. Lamp!Mode(connected) \in SUBSET (0 .. 31)
    BY LampAssumption DEF Lamp!Mode
  <2>2. QED
    BY <2>1, LampTypes
<1>2. now.mask \in SUBSET (0 .. 31) /\ now.length \in 0 .. Length - 1
      /\ now.count \in 0 .. Length - 1
  <2>1. /\ now.mask = IF changed THEN Lamp!Mode(connected) ELSE mask
        /\ now.length = IF changed THEN Length - 1 ELSE length
        /\ now.count = IF changed THEN 0 ELSE count
    BY DEF Lamp!CyclicSequence
  <2> HIDE DEF now, changed
  <2>2. now.mask \in SUBSET (0 .. 31)
    <3>1. now.mask = Lamp!Mode(connected) \/ now.mask = mask
      BY <2>1
    <3>2. QED
      BY <1>1, <3>1, Zenon
  <2>3. now.length \in 0 .. Length - 1 /\ now.count \in 0 .. Length - 1
    BY <1>1, <2>1
  <2>4. QED
    BY <2>2, <2>3
<1>3. /\ prev_state' = connected /\ mask' = now.mask /\ length' = now.length
      /\ mask_run' = IF now.count = 0 THEN now.mask ELSE Lamp!Shifted(mask_run)
      /\ count' = IF now.count = 0 THEN now.length ELSE now.count - 1
      /\ settled' = IF changed THEN 0 ELSE IF settled < Length THEN settled + 1 ELSE Length
  BY DEF Lamp!Block
<1> HIDE DEF now, changed
<1>4. Lamp!Shifted(mask_run) \subseteq 0 .. 31
  BY <1>1, ShiftedIs
<1>5. mask' \in SUBSET (0 .. 31) /\ mask_run' \in SUBSET (0 .. 31)
  <2>1. Lamp!Shifted(mask_run) \in SUBSET (0 .. 31)
    BY <1>4
  <2>2. mask_run' = now.mask \/ mask_run' = Lamp!Shifted(mask_run)
    BY <1>3
  <2>3. QED
    BY <1>2, <1>3, <2>1, <2>2, Zenon
<1>6. length' \in 0 .. Length - 1 /\ count' \in 0 .. Length - 1
  BY <1>1, <1>2, <1>3
<1>7. settled' \in -1 .. Length
  BY <1>1, <1>3
<1>8. prev_state' \in BOOLEAN
  BY <1>3, Zenon
<1>9. QED
  BY <1>5, <1>6, <1>7, <1>8, TickShows DEF Lamp!TypeOK

(* The block keeps the invariant, in a new sequence or in the old one. *)
LEMMA BlockShows ==
    ASSUME LampInv, Lamp!Block, connected \in BOOLEAN
    PROVE  LampInv'
<1>1. /\ mask = Lamp!Mode(prev_state) /\ length = Length - 1
      /\ Length \in Nat \ {0} /\ count \in 0 .. Length - 1 /\ settled \in -1 .. Length
      /\ mask \in SUBSET Nat /\ mask_run \in SUBSET Nat /\ Len(lit) \in Nat
      /\ Len(lit) <= Length
  BY LampTypes DEF LampInv
<1>2. Lamp!TypeOK'
  BY BlockTypes
<1>3. CASE connected # prev_state
  <2>1. /\ mask' = Lamp!Mode(connected) /\ length' = Length - 1 /\ prev_state' = connected
        /\ mask_run' = mask' /\ count' = Length - 1 /\ settled' = 0
    BY <1>3 DEF Lamp!Block, Lamp!CyclicSequence
  <2>2. Tick' = 0
    BY <1>1, <2>1 DEF Tick
  <2>4. \A b \in Nat : b \in mask_run' <=> b + Tick' \in mask'
    BY <2>1, <2>2
  <2>5. mask' = Lamp!Mode(prev_state')
    BY <2>1
  <2>6. settled' <= Len(lit') /\ 1 .. settled' = {}
    BY <2>1, TickShows
  <2>7. QED
    BY <1>1, <1>2, <2>1, <2>2, <2>4, <2>5, <2>6 DEF LampInv, Lamp!Mode
<1>4. CASE connected = prev_state
  <2>1. /\ mask' = mask /\ length' = length /\ prev_state' = prev_state
        /\ mask_run' = IF count = 0 THEN mask ELSE Lamp!Shifted(mask_run)
        /\ count' = IF count = 0 THEN length ELSE count - 1
        /\ settled' = IF settled < Length THEN settled + 1 ELSE Length
    BY <1>4 DEF Lamp!Block
  <2>2. mask' = Lamp!Mode(prev_state') /\ Lamp!Mode(prev_state)' = Lamp!Mode(prev_state)
    BY <1>1, <2>1 DEF Lamp!Mode
  <2>3. Tick \in 0 .. Length - 1 /\ Tick' = IF count = 0 THEN 0 ELSE Tick + 1
    BY <1>1, <2>1 DEF Tick
  <2>4. CASE settled = -1
    <3>1. settled' = 0 /\ Tick' = 0 /\ mask_run' = mask'
      BY <1>1, <2>1, <2>3, <2>4 DEF LampInv
    <3>2. \A b \in Nat : b \in mask_run' <=> b + Tick' \in mask'
      BY <3>1
    <3>3. settled' <= Len(lit') /\ 1 .. settled' = {}
      BY <3>1, TickShows
    <3>4. QED
      BY <1>1, <1>2, <2>1, <2>2, <3>1, <3>2, <3>3 DEF LampInv
  <2>5. CASE settled >= 0
    <3>1. /\ \A b \in Nat : b \in mask_run <=> b + Tick \in mask
          /\ settled < Length => Tick = settled
          /\ settled <= Len(lit)
          /\ \A k \in 1 .. settled : lit[k] = 1 <=> Ago(Tick, k) \in mask
      BY <2>5 DEF LampInv
    <3>2. \A b \in Nat : b \in mask_run' <=> b + Tick' \in mask'
      <4>1. CASE count = 0
        BY <2>1, <2>3, <4>1
      <4>2. CASE count # 0
        <5>1. \A b \in Nat : b \in mask_run' <=> b + 1 \in mask_run
          BY <1>1, <2>1, <4>2, ShiftedIs
        <5>2. \A b \in Nat : b + 1 \in Nat /\ b + 1 + Tick = b + Tick'
          BY <2>3, <4>2
        <5>3. QED
          BY <2>1, <3>1, <5>1, <5>2
      <4>3. QED
        BY <4>1, <4>2
    <3>3. settled' < Length => Tick' = settled'
      BY <1>1, <2>1, <2>3, <2>5, <3>1, LampTypes
    <3>4. settled' <= Len(lit')
      BY <1>1, <2>1, <2>5, <3>1, TickShows
    <3>5. ASSUME NEW k \in 1 .. settled'
          PROVE  lit'[k] = 1 <=> Ago(Tick', k) \in mask
      <4>1. CASE k = 1
        <5>1. lit'[1] = 1 <=> 0 + Tick \in mask
          BY <3>1, TickShows
        <5>2. Ago(Tick', 1) = Tick /\ 0 + Tick = Tick
          BY <1>1, <2>3 DEF Ago, Tick
        <5>3. QED
          BY <4>1, <5>1, <5>2
      <4>2. CASE k # 1
        <5>1. k - 1 \in 1 .. settled /\ k - 1 \in 1 .. Len(lit') - 1 /\ k - 1 + 1 = k
          BY <1>1, <2>1, <2>5, <3>4, <4>2, TickShows
        <5>2. lit'[k] = lit[k - 1]
          BY <5>1, TickShows
        <5>3. Ago(Tick', k) = Ago(Tick, k - 1)
          BY <1>1, <2>1, <2>3, <2>5, <4>2, <5>1 DEF Ago, Tick
        <5>4. QED
          BY <3>1, <5>1, <5>2, <5>3
      <4>3. QED
        BY <4>1, <4>2
    <3>6. \A k \in 1 .. settled' : lit'[k] = 1 <=> Ago(Tick', k) \in mask'
      BY <2>1, <3>5
    <3>7. settled' >= 0
      BY <1>1, <2>1, <2>5
    <3>8. QED
      BY <1>1, <1>2, <2>1, <2>2, <3>2, <3>3, <3>4, <3>6, <3>7 DEF LampInv, Ago
  <2>6. QED
    BY <1>1, <2>4, <2>5
<1>5. QED
  BY <1>3, <1>4

(* Every step of the device keeps it: the block, or a reset that begins anew. *)
LEMMA DeviceLamp == TypeOK /\ LampInv /\ [DeviceNext]_device_vars => LampInv'
<1> SUFFICES ASSUME TypeOK, LampInv, [DeviceNext]_device_vars PROVE LampInv'
  OBVIOUS
<1>1. CASE Lamp!Restarted
  BY <1>1, RestartIsFresh
<1>2. CASE Lamp!Block
  BY <1>2, BlockShows DEF TypeOK
<1>3. CASE UNCHANGED lamp_vars
  BY <1>3 DEF lamp_vars, LampInv, Lamp!TypeOK, Lamp!Mode, Tick, Ago
<1>4. StartStep => Lamp!Restarted \/ UNCHANGED lamp_vars
  BY DEF StartStep
<1>5. LampStep => Lamp!Block
  BY DEF LampStep
<1>6. SeedStep \/ UNCHANGED device_vars => UNCHANGED lamp_vars
  BY DEF SeedStep, device_vars
<1>7. QED
  BY <1>1, <1>2, <1>3, <1>4, <1>5, <1>6 DEF DeviceNext

(* One period after the lamp was last told something else, any period of ticks
   shows the present connection's sequence, begun somewhere, for every length of
   a sequence and any two masks (led.c:46-74, main.c:235-249).             *)
THEOREM LampTells == DeviceSpec => []LampShows
<1>1. DeviceInit => LampInv
  BY LampIsFresh DEF DeviceInit, Lamp!Init
<1>2. DeviceSpec => []TypeOK
  BY ImplementsBoot, TypeCorrect, PTL
<1>3. LampInv => LampShows
  <2> SUFFICES ASSUME LampInv, settled = Length
               PROVE  \E first \in 0 .. Length - 1 :
                          \A k \in 1 .. Length :
                              lit[k] = 1 <=> (first - k) % Length \in Lamp!Mode(prev_state)
    BY DEF LampShows, Lamp!ShowsConnection
  <2>1. Length \in Nat \ {0} /\ Tick \in 0 .. Length - 1
    BY LampTypes
  <2>2. ASSUME NEW k \in 1 .. Length
        PROVE  lit[k] = 1 <=> (Tick - k) % Length \in Lamp!Mode(prev_state)
    <3>1. (Tick - k) % Length = Ago(Tick, k)
      BY <2>1, AgoIsRemainder
    <3>2. lit[k] = 1 <=> Ago(Tick, k) \in mask
      BY <2>1 DEF LampInv
    <3>3. QED
      BY <3>1, <3>2 DEF LampInv
  <2>3. QED
    BY <2>1, <2>2
<1>4. QED
  BY <1>1, <1>2, <1>3, DeviceLamp, PTL DEF DeviceSpec
=============================================================================

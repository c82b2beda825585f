----------------------------- MODULE MainLoop -----------------------------
(***************************************************************************)
(* The main loop in time: its 100 ms block, the watchdog it feeds there,   *)
(* and what keeps it away from the block.                                  *)
(*                                                                         *)
(* A pass reads the time, drains the received lines, makes one pass of the *)
(* USB stack, and runs the block when the time it read is past             *)
(* timer_100ms.  A line may take long (a host that does not read costs 100 *)
(* attempts of 1 ms per print), a TLS command as long as its session; the  *)
(* session feeds the watchdog itself.  A SPI transfer whose interrupt does *)
(* not come never returns.                                                 *)
(*                                                                         *)
(* Times are measured from timer_100ms, so that the state does not grow    *)
(* with the running time: clock is the present, now what the pass has read.*)
(***************************************************************************)
EXTENDS Integers, Sequences, FiniteSets

CONSTANTS
    Period,       \* 100 ms
    Timeout,      \* the watchdog's 20 s
    BootTime,     \* longest time from wd_run to the loop
    LineTime,     \* longest time one line takes
    StepTime,     \* longest time between two feeds of a TLS session
    UsbTime,      \* longest pass of the USB stack
    PollTime,     \* longest AUTO poll
    WfiTime,      \* longest sleep (a timer interrupt every 1 ms)
    PacketLines,  \* lines one packet can hold
    BurstLines,   \* lines the cleanup of a TLS session can let in
    StreamLines,  \* lines the stream buffer can hold
    MaxLines,     \* bound: lines the host sends
    MaxClock      \* bound: how late a session may make the block

ASSUME MainLoopAssumption ==
    /\ Period \in Nat \ {0}
    /\ {Timeout, BootTime, LineTime, StepTime, UsbTime, PollTime, WfiTime,
        BurstLines, MaxLines, MaxClock} \subseteq Nat
    /\ BootTime <= Period
    /\ StreamLines \in Nat
    /\ PacketLines \in 0 .. StreamLines

VARIABLES
    clock,    \* the time, from timer_100ms
    now,      \* the time this pass has read, from timer_100ms
    unfed,    \* time since the watchdog was fed
    backlog,  \* lines in the stream buffer
    quota,    \* lines the host has still to send
    auto,     \* main_spi_auto
    pc,       \* where the loop is
    died,     \* what the last watchdog reset interrupted
    burst,    \* a session's cleanup has let lines in since the block ran
    blocks    \* ages of the last three runs of the block, newest first

vars == <<clock, now, unfed, backlog, quota, auto, pc, died, burst, blocks>>

-----------------------------------------------------------------------------
Working == {"top", "drain", "tls", "cleanup", "usb", "check", "poll", "wfi"}

(* Ages past a period are not told apart. *)
Aged(ages, d) ==
    [i \in DOMAIN ages |-> IF ages[i] + d > Period THEN Period + 1 ELSE ages[i] + d]

(* Time passes; the watchdog counts it. *)
Elapse(d) ==
    /\ clock' = clock + d
    /\ unfed' = unfed + d
    /\ blocks' = Aged(blocks, d)

(* The program makes a step only while the watchdog leaves it alone. *)
At(p) == pc = p /\ unfed <= Timeout

Init ==
    /\ clock = 0
    /\ now = 0
    /\ unfed \in 0 .. BootTime
    /\ backlog = 0
    /\ quota = MaxLines
    /\ auto = FALSE
    /\ pc = "top"
    /\ died = "no"
    /\ burst = FALSE
    /\ blocks = <<>>

-----------------------------------------------------------------------------
(* now = timer_get_time() *)
ReadNow ==
    /\ At("top")
    /\ now' = clock
    /\ pc' = "drain"
    /\ UNCHANGED <<clock, unfed, backlog, quota, auto, died, burst, blocks>>

(* tty_rx_task executes a line; the line may be an AUTO command. *)
ExecLine(d) ==
    /\ At("drain")
    /\ backlog > 0
    /\ Elapse(d)
    /\ backlog' = backlog - 1
    /\ auto' \in BOOLEAN
    /\ UNCHANGED <<now, quota, pc, died, burst>>

(* The line is a TLS command: the session runs inside the drain. *)
TlsLine ==
    /\ At("drain")
    /\ backlog > 0
    /\ backlog' = backlog - 1
    /\ pc' = "tls"
    /\ UNCHANGED <<clock, now, unfed, quota, auto, died, burst, blocks>>

\* mutant: the handshake loop leaves the watchdog to the main loop
TlsPollUnfed(d) ==
    /\ At("tls")
    /\ clock + d <= MaxClock
    /\ Elapse(d)
    /\ UNCHANGED <<now, backlog, quota, auto, pc, died, burst>>

(* A turn of the handshake loop, fed at its end.  It has no time-out. *)
TlsPoll(d) ==
    /\ At("tls")
    /\ clock + d <= MaxClock
    /\ clock' = clock + d
    /\ unfed' = 0
    /\ blocks' = Aged(blocks, d)
    /\ UNCHANGED <<now, backlog, quota, auto, pc, died, burst>>

(* The handshake is over, in success or failure. *)
TlsLeave(d) ==
    /\ At("tls")
    /\ Elapse(d)
    /\ pc' = "cleanup"
    /\ UNCHANGED <<now, backlog, quota, auto, died, burst>>

\* mutant: the stream buffer takes a packet it has no room for
TlsCleanupFull(k) ==
    /\ At("cleanup")
    /\ k <= quota
    /\ backlog' = backlog + k
    /\ quota' = quota - k
    /\ unfed' = 0
    /\ pc' = "drain"
    /\ burst' = (burst \/ k > 0)
    /\ UNCHANGED <<clock, now, auto, died, blocks>>

(* The ten passes at the end of cleanup let command lines in and feed. *)
TlsCleanup(k) ==
    /\ At("cleanup")
    /\ k <= quota
    /\ backlog + k <= StreamLines
    /\ backlog' = backlog + k
    /\ quota' = quota - k
    /\ unfed' = 0
    /\ pc' = "drain"
    /\ burst' = (burst \/ k > 0)
    /\ UNCHANGED <<clock, now, auto, died, blocks>>

Drained ==
    /\ At("drain")
    /\ backlog = 0
    /\ pc' = "usb"
    /\ UNCHANGED <<clock, now, unfed, backlog, quota, auto, died, burst, blocks>>

(* usb_device_task delivers at most one packet. *)
UsbPass(d, k) ==
    /\ At("usb")
    /\ k <= quota
    /\ Elapse(d)
    /\ backlog' = k
    /\ quota' = quota - k
    /\ pc' = "check"
    /\ UNCHANGED <<now, auto, died, burst>>

(* if (now > timer_100ms) *)
BlockDue == now > 0

\* mutant: the deadline moves by one tick
AdvanceTick ==
    /\ clock' = clock - 1
    /\ now' = now - 1

(* timer_100ms += 100 ms: both times are now measured from the new deadline *)
Advance ==
    /\ clock' = clock - Period
    /\ now' = now - Period

\* mutant: the block feeds the watchdog only when there is no poll to make
BlockUnfed ==
    /\ At("check")
    /\ BlockDue
    /\ Advance
    /\ unfed' = IF auto THEN unfed ELSE 0
    /\ blocks' = <<0>> \o SubSeq(blocks, 1, IF Len(blocks) < 2 THEN Len(blocks) ELSE 2)
    /\ pc' = IF auto THEN "poll" ELSE "wfi"
    /\ burst' = FALSE
    /\ UNCHANGED <<backlog, quota, auto, died>>

(* The block: deadline, LED, watchdog, and the AUTO poll. *)
Block ==
    /\ At("check")
    /\ BlockDue
    /\ Advance
    /\ unfed' = 0
    /\ blocks' = <<0>> \o SubSeq(blocks, 1, IF Len(blocks) < 2 THEN Len(blocks) ELSE 2)
    /\ pc' = IF auto THEN "poll" ELSE "wfi"
    /\ burst' = FALSE
    /\ UNCHANGED <<backlog, quota, auto, died>>

NoBlock ==
    /\ At("check")
    /\ ~BlockDue
    /\ pc' = "wfi"
    /\ UNCHANGED <<clock, now, unfed, backlog, quota, auto, died, burst, blocks>>

SpiPoll(d) ==
    /\ At("poll")
    /\ Elapse(d)
    /\ pc' = "wfi"
    /\ UNCHANGED <<now, backlog, quota, auto, died, burst>>

(* A transfer whose completion interrupt does not come. *)
SpiHang ==
    /\ At("poll")
    /\ pc' = "hung"
    /\ UNCHANGED <<clock, now, unfed, backlog, quota, auto, died, burst, blocks>>

\* mutant: the watchdog is fed from the timer interrupt
SpinFed ==
    /\ At("hung")
    /\ unfed' = 0
    /\ UNCHANGED <<clock, now, backlog, quota, auto, pc, died, burst, blocks>>

(* while (_spi_transfer_done == false) *)
Spin ==
    /\ At("hung")
    /\ Elapse(1)
    /\ UNCHANGED <<now, backlog, quota, auto, pc, died, burst>>

Sleep(d) ==
    /\ At("wfi")
    /\ Elapse(d)
    /\ pc' = "top"
    /\ UNCHANGED <<now, backlog, quota, auto, died, burst>>

(* The watchdog resets the chip, whatever the program does. *)
Bite ==
    /\ unfed > Timeout
    /\ pc # "reset"
    /\ died' = IF pc = "hung" THEN "hung" ELSE IF burst THEN "burst" ELSE "working"
    /\ pc' = "reset"
    /\ UNCHANGED <<clock, now, unfed, backlog, quota, auto, burst, blocks>>

(* main starts again: RAM is new, the host's lines in it are gone. *)
Boot ==
    /\ pc = "reset"
    /\ clock' = 0
    /\ now' = 0
    /\ unfed' \in 0 .. BootTime
    /\ backlog' = 0
    /\ auto' = FALSE
    /\ pc' = "top"
    /\ burst' = FALSE
    /\ blocks' = <<>>
    /\ UNCHANGED <<quota, died>>

-----------------------------------------------------------------------------
Loop ==
    \/ ReadNow \/ Drained \/ Block \/ NoBlock
    \/ \E d \in 0 .. LineTime : ExecLine(d)
    \/ TlsLine
    \/ \E d \in 0 .. UsbTime, k \in 0 .. PacketLines : UsbPass(d, k)
    \/ \E d \in 0 .. PollTime : SpiPoll(d)
    \/ \E d \in 0 .. WfiTime : Sleep(d)

Session ==
    \/ \E d \in 0 .. StepTime : TlsPoll(d) \/ TlsLeave(d)
    \/ \E k \in 0 .. BurstLines : TlsCleanup(k)

Restart == Spin \/ Bite \/ Boot

Next == Loop \/ Session \/ SpiHang \/ Restart

Spec == Init /\ [][Next]_vars

(* The processor executes and the watchdog counts.  That sessions end is an
   assumption on the host: the handshake loop has no time-out of its own.  *)
Fairness ==
    /\ WF_vars(Loop)
    /\ WF_vars(Restart)
    /\ WF_vars(\E d \in 0 .. StepTime : TlsLeave(d))
    /\ WF_vars(\E k \in 0 .. BurstLines : TlsCleanup(k))

FairSpec == Spec /\ Fairness

-----------------------------------------------------------------------------
TypeOK ==
    /\ clock \in Int
    /\ now \in Int
    /\ unfed \in Nat
    /\ backlog \in 0 .. StreamLines
    /\ quota \in 0 .. MaxLines
    /\ auto \in BOOLEAN
    /\ pc \in Working \cup {"hung", "reset"}
    /\ died \in {"no", "hung", "burst", "working"}
    /\ burst \in BOOLEAN
    /\ blocks \in Seq(0 .. Period + 1)
    /\ Len(blocks) <= 3

Longer(a, b) == IF a < b THEN b ELSE a

(* From the reading of the time to the check of the block, with n lines. *)
DrainTime(n) == LineTime * n + UsbTime

(* now is read before the drain, so a block that the drain has made due waits
   for the next pass, and for that pass's drain.  Before the sleep between the
   two, the watchdog has gone without for a period and a drain, or for a poll,
   or for the lines that the cleanup of a session let in.                  *)
PlainWait == Longer(Period + DrainTime(PacketLines), PollTime)
BurstWait == Longer(PlainWait, DrainTime(StreamLines))

(* After the sleep come the lines of a packet, or those before its TLS line and
   the part of the session that is not fed.                                *)
UnfedAfter(wait) ==
    wait + WfiTime
         + Longer(DrainTime(PacketLines), LineTime * (PacketLines - 1) + StepTime)

LongestUnfed == UnfedAfter(BurstWait)
PlainUnfed == UnfedAfter(PlainWait)

(* While the program works the watchdog is fed within LongestUnfed, however
   lines, sessions, polls and reboots follow each other: the feed of the block
   and those of the session leave no longer gap between them.              *)
FedInTime == pc \in Working => unfed <= LongestUnfed

(* What fits in the watchdog's time is a pass with a packet of lines (PlainUnfed),
   not one with a stream buffer full of them (LongestUnfed).  A program that
   works is still not reset by its lines, polls and sessions as such: when it
   is, the cleanup of a session had let lines in since the block last ran. *)
BiteNeedsBurst == died # "working"

(* A transfer that never completes ends in a reset and a new start of the loop:
   nothing feeds the watchdog outside the loop and the session.            *)
HangRecovers == (pc = "hung") ~> (pc = "top")

(* Once the host is silent, and its sessions have ended, the block returns to
   its schedule: the deadline is at most a period behind the clock.        *)
CatchesUp == <>[](pc = "top" => clock <= Period)

(* CODE_STRUCTURE.md:39: "Every 100 ms: ... optional SPI auto-response task".
   Allowing for jitter, a period never holds three runs of the block.      *)
PollsPaced == Len(blocks) = 3 => blocks[3] >= Period

(* tty.c:23: the buffer "supports pipelining up to this input data size": the
   lines it holds are executed, rather than lost in a watchdog reset.      *)
PipeliningSupported == died \in {"burst", "working"} => backlog = 0
=============================================================================

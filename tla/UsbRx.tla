------------------------------- MODULE UsbRx -------------------------------
(***************************************************************************)
(* The receive path from the USB host: command lines and TLS bytes.        *)
(*                                                                         *)
(* One OUT endpoint feeds two readers.  _usb_rx_handler puts a packet into *)
(* the stream buffer of the command interpreter, or into the ring of the   *)
(* TLS task while tls_active is set.  The main loop alternates between     *)
(* tty_rx_task, which drains the stream buffer into lines and executes     *)
(* them, and one pass of the USB stack, which delivers at most one packet. *)
(* A TLS command runs the whole TLS session inside tty_rx_task; the passes *)
(* it makes over the USB stack deliver packets too.                        *)
(*                                                                         *)
(* Characters are symbols: "nl" ends a line (CR, LF, NUL), "bs" erases,    *)
(* "T" is the text "TLS=", the others stand for themselves.                *)
(***************************************************************************)
EXTENDS Integers, Sequences, FiniteSets

CONSTANTS
    Plain,        \* characters without a meaning of their own
    Input,        \* symbols the host sends in a behaviour
    PacketLen,    \* longest packet (64 bytes in the build)
    StreamSize,   \* USB_TTY_BUFFER_SIZE (4096)
    LineSize,     \* TTY_BUF_SIZE (1024)
    RingSize,     \* RING_BUF_SIZE (32768)
    FlushPolls,   \* passes cleanup makes while TLS still owns the input (5)
    AfterPolls,   \* passes cleanup makes after it gave the input back (10)
    MaxBytes      \* bound: bytes the host sends in a behaviour

(* A packet fits into the empty stream buffer, and the passes after a session let in
   no less than the two symbols of the shortest TLS line.                  *)
ASSUME UsbRxAssumption ==
    /\ PacketLen \in Nat \ {0}
    /\ StreamSize \in Nat \ {0, 1}
    /\ LineSize \in Nat \ {0, 1}
    /\ RingSize \in Nat \ {0, 1}
    /\ FlushPolls \in Nat
    /\ AfterPolls \in Nat
    /\ MaxBytes \in Nat \ {0}
    /\ PacketLen < StreamSize
    /\ AfterPolls * PacketLen >= 2
    /\ Plain \cap {"nl", "bs", "T"} = {}
    /\ Input \subseteq Plain \cup {"nl", "bs", "T"}

VARIABLES
    wire,         \* packets the host sent that the stack has not delivered
    sent,         \* bytes the host has sent
    stream,       \* _usb_stream_buffer with its write and read index
    line,         \* usb_rx_buf: the line being assembled
    ring,         \* rxRing: contents, head, tail, overflow_count
    tls_active,
    pc,           \* where the main loop is
    polls,        \* passes of the USB stack cleanup has still to make
    session,      \* TLS sessions begun
    burst,        \* TLS sessions begun since tty_rx_task was entered
    parsed,       \* bytes tty_rx_task has consumed
    executed,     \* lines handed to the command interpreter
    lost,         \* whether the stream buffer ever refused a packet
    got,          \* bytes wolfSSL has read in this session
    reported      \* whether this session reported an overflow of its ring

vars == <<wire, sent, stream, line, ring, tls_active, pc, polls, session, burst,
          parsed, executed, lost, got, reported>>

host    == <<wire, sent>>
input   == <<stream, ring, lost>>
console == <<line, parsed, executed>>
tls     == <<tls_active, session, burst, got, reported>>

-----------------------------------------------------------------------------
Symbols == Plain \cup {"nl", "bs", "T"}

(* A byte on its way: its symbol, its number, the end of its packet it may be
   at, and whether the host sent it while a TLS session owned the input.   *)
Byte == [sym : Symbols, num : 1 .. MaxBytes, edge : SUBSET {"first", "last"},
         tls : BOOLEAN]

(* A byte in the ring carries the session that received it. *)
TlsByte == [num : 0 .. MaxBytes, session : 0 .. MaxBytes]
NoTlsByte == [num |-> 0, session |-> 0]
NoByte == [sym |-> "nl", num |-> 1, edge |-> {}, tls |-> FALSE]

Init ==
    /\ wire = <<>>
    /\ sent = 0
    /\ stream = [buf |-> [i \in 0 .. StreamSize - 1 |-> NoByte], wr |-> 0, rd |-> 0]
    /\ line = <<>>
    /\ ring = [buf |-> [i \in 0 .. RingSize - 1 |-> NoTlsByte],
               head |-> 0, tail |-> 0, overflow |-> 0]
    /\ tls_active = FALSE
    /\ pc = "drain"
    /\ polls = 0
    /\ session = 0
    /\ burst = 0
    /\ parsed = <<>>
    /\ executed = <<>>
    /\ lost = FALSE
    /\ got = <<>>
    /\ reported = FALSE

-----------------------------------------------------------------------------
MaxWire == 2   \* bound: packets the host has under way

(* The host sends a packet; the endpoint takes it when it gets to it. *)
HostSend(syms) ==
    /\ sent + Len(syms) <= MaxBytes
    /\ Len(wire) < MaxWire
    /\ wire' = Append(wire, [k \in 1 .. Len(syms) |->
                  [sym |-> syms[k], num |-> sent + k, tls |-> tls_active,
                   edge |-> (IF k = 1 THEN {"first"} ELSE {}) \cup
                            (IF k = Len(syms) THEN {"last"} ELSE {})]])
    /\ sent' = sent + Len(syms)
    /\ UNCHANGED <<input, console, tls, pc, polls>>

Lower(a, b) == IF a < b THEN a ELSE b

(* Bytes between a read and a write index of a circular buffer of size n. *)
Distance(wr, rd, n) == (wr - rd) % n

(* A circular buffer with the bytes of p written from index i on. *)
Written(buf, i, p, k, n) ==
    [j \in 0 .. n - 1 |->
        LET d == Distance(j, i, n) IN IF d < k THEN p[d + 1] ELSE buf[j]]

RingFill   == Distance(ring.head, ring.tail, RingSize)
StreamFill == Distance(stream.wr, stream.rd, StreamSize)

RB_WriteSilent(p) ==   \* mutant: the bytes that find no room are not counted
    LET n == Lower(Len(p), RingSize - 1 - RingFill)
        q == [k \in DOMAIN p |-> [num |-> p[k].num, session |-> session]]
    IN  ring' = [ring EXCEPT !.buf = Written(@, ring.head, q, n, RingSize),
                             !.head = (@ + n) % RingSize]

(* RB_Write: what fits is stored, the rest is dropped and counted. *)
RB_Write(p) ==
    LET n == Lower(Len(p), RingSize - 1 - RingFill)
        q == [k \in DOMAIN p |-> [num |-> p[k].num, session |-> session]]
    IN  ring' = [ring EXCEPT !.buf = Written(@, ring.head, q, n, RingSize),
                             !.head = (@ + n) % RingSize,
                             !.overflow = @ + (Len(p) - n)]

StreamWritePartly(p) ==   \* mutant: the part of a packet that fits is kept
    LET n == Lower(Len(p), StreamSize - 1 - StreamFill)
    IN  /\ stream' = [stream EXCEPT
                        !.buf = Written(@, (stream.wr + 1) % StreamSize, p, n, StreamSize),
                        !.wr = (@ + n) % StreamSize]
        /\ lost' = (lost \/ n < Len(p))

(* _usb_rx_handler outside of TLS: a packet that does not fit is written as far
   as it fits, but the write index is not moved: all of it is dropped.     *)
StreamWrite(p) ==
    LET n == Lower(Len(p), StreamSize - 1 - StreamFill)
    IN  /\ stream' = [stream EXCEPT
                        !.buf = Written(@, (stream.wr + 1) % StreamSize, p, n, StreamSize),
                        !.wr = IF n < Len(p) THEN @ ELSE (@ + n) % StreamSize]
        /\ lost' = (lost \/ n < Len(p))

(* _usb_rx_handler: the flag decides at delivery. *)
RxHandler(p) ==
    \/ tls_active /\ RB_Write(p) /\ UNCHANGED <<stream, lost>>
    \/ ~tls_active /\ StreamWrite(p) /\ UNCHANGED ring

(* usb_device_task: at most one packet per pass, or none yet. *)
DeviceTask ==
    \/ /\ wire # <<>>
       /\ RxHandler(Head(wire))
       /\ wire' = Tail(wire)
    \/ UNCHANGED <<wire, input>>

-----------------------------------------------------------------------------
NextCharAtIndex == stream.buf[stream.rd]   \* mutant: the index is not incremented first

(* _usb_getchar: pre-increment of the read index, as of the write index. *)
NextChar == stream.buf[(stream.rd + 1) % StreamSize]

GetChar ==
    /\ stream.rd # stream.wr
    /\ stream' = [stream EXCEPT !.rd = (@ + 1) % StreamSize]
    /\ parsed' = Append(parsed, NextChar)

FeedUnbounded(c) ==   \* mutant: the length of the line is not tested
    CASE c = "nl" -> <<>>
      [] c = "bs" -> SubSeq(line, 1, Len(line) - 1)
      [] OTHER    -> Append(line, c)

(* _rx_feed, the line it leaves: an over-long line keeps its beginning. *)
Feed(c) ==
    CASE c = "nl" -> <<>>
      [] c = "bs" -> SubSeq(line, 1, Len(line) - 1)
      [] OTHER    -> IF Len(line) < LineSize - 1 THEN Append(line, c) ELSE line

EndsLine(c) == c = "nl" /\ line # <<>>

IsTls(l) == Head(l) = "T"

(* One character of tty_rx_task; a complete line is executed at once. *)
RxTask ==
    /\ pc = "drain"
    /\ GetChar
    /\ line' = Feed(NextChar.sym)
    /\ executed' = IF EndsLine(NextChar.sym) THEN Append(executed, line) ELSE executed
    /\ ~(EndsLine(NextChar.sym) /\ IsTls(line))
    /\ UNCHANGED <<host, ring, lost, tls, pc, polls>>

(* The line is a TLS command: tls_pqc_task takes the input over. *)
TlsCommand ==
    /\ pc = "drain"
    /\ GetChar
    /\ EndsLine(NextChar.sym) /\ IsTls(line)
    /\ line' = Feed(NextChar.sym)
    /\ executed' = Append(executed, line)
    /\ tls_active' = TRUE
    /\ session' = session + 1
    /\ burst' = burst + 1
    /\ got' = <<>>
    /\ reported' = FALSE
    /\ pc' = "setup"
    /\ UNCHANGED <<host, ring, lost, polls>>

DrainedEarly ==   \* mutant: tty_rx_task may return with characters left
    /\ pc = "drain"
    /\ pc' = "poll"
    /\ UNCHANGED <<host, input, console, tls, polls>>

(* tty_rx_task returns: the stream buffer is empty. *)
Drained ==
    /\ pc = "drain"
    /\ stream.rd = stream.wr
    /\ pc' = "poll"
    /\ UNCHANGED <<host, input, console, tls, polls>>

(* The main loop's own pass of the USB stack, before the next tty_rx_task. *)
Poll ==
    /\ pc = "poll"
    /\ DeviceTask
    /\ pc' = "drain"
    /\ burst' = 0
    /\ UNCHANGED <<sent, console, polls, tls_active, session, got, reported>>

-----------------------------------------------------------------------------
RingReset == [ring EXCEPT !.head = 0, !.tail = 0, !.overflow = 0]

StartHandshakeStale ==   \* mutant: the ring is not reset before the handshake
    /\ pc = "setup"
    /\ pc' = "connect"
    /\ UNCHANGED <<host, input, console, tls, polls>>

(* tls_pqc_task, certificates and keys loaded: the ring starts empty. *)
StartHandshake ==
    /\ pc = "setup"
    /\ ring' = RingReset
    /\ pc' = "connect"
    /\ UNCHANGED <<host, stream, lost, console, tls, polls>>

(* EmbedReceive, called by wolfSSL_connect: an overflow is reported first, then
   as many bytes as wolfSSL asked for and the ring holds are handed over.  *)
EmbedReceive(n) ==
    /\ pc = "connect"
    /\ n <= RingFill
    /\ n > 0 \/ (RingFill = 0 /\ ring.overflow > 0)
    /\ ring' = [ring EXCEPT !.tail = (@ + n) % RingSize, !.overflow = 0]
    /\ got' = got \o [k \in 1 .. n |-> ring.buf[(ring.tail + k - 1) % RingSize]]
    /\ reported' = (reported \/ ring.overflow > 0)
    /\ UNCHANGED <<host, stream, lost, console, pc, polls, tls_active, session, burst>>

(* wolfSSL wants to read or write: one pass of the USB stack, then again. *)
HandshakePoll ==
    /\ pc = "connect"
    /\ DeviceTask
    /\ UNCHANGED <<sent, console, tls, pc, polls>>

(* The handshake is over, well or badly, or never began: cleanup. *)
Cleanup ==
    /\ pc \in {"setup", "connect"}
    /\ ring' = RingReset
    /\ polls' = FlushPolls
    /\ pc' = "flush"
    /\ UNCHANGED <<host, stream, lost, console, tls>>

FlushPoll ==
    /\ pc = "flush" /\ polls > 0
    /\ DeviceTask
    /\ polls' = polls - 1
    /\ UNCHANGED <<sent, console, tls, pc>>

ReleaseFlushed ==   \* mutant: tty_flush_usb_rx is called at the end of a session
    /\ pc = "flush" /\ polls = 0
    /\ tls_active' = FALSE
    /\ polls' = AfterPolls
    /\ pc' = "after"
    /\ stream' = [stream EXCEPT !.wr = 0, !.rd = 0]
    /\ UNCHANGED <<host, ring, lost, console, session, burst, got, reported>>

(* The input goes back to the command interpreter. *)
Release ==
    /\ pc = "flush" /\ polls = 0
    /\ tls_active' = FALSE
    /\ polls' = AfterPolls
    /\ pc' = "after"
    /\ UNCHANGED <<host, input, console, session, burst, got, reported>>

AfterPoll ==
    /\ pc = "after" /\ polls > 0
    /\ DeviceTask
    /\ polls' = polls - 1
    /\ UNCHANGED <<sent, console, tls, pc>>

(* The TLS command returns into tty_rx_task. *)
TlsDone ==
    /\ pc = "after" /\ polls = 0
    /\ pc' = "drain"
    /\ UNCHANGED <<host, input, console, tls, polls>>

-----------------------------------------------------------------------------
Packets == UNION {[1 .. n -> Input] : n \in 1 .. PacketLen}

MainStep ==
    \/ RxTask \/ TlsCommand \/ Drained \/ Poll
    \/ StartHandshake \/ HandshakePoll \/ Cleanup
    \/ \E n \in 0 .. RingSize - 1 : EmbedReceive(n)
    \/ FlushPoll \/ Release \/ AfterPoll \/ TlsDone

Next == MainStep \/ \E p \in Packets : HostSend(p)

Spec == Init /\ [][Next]_vars

(* The main loop is never stuck, and a TLS session ends: its peer answers, or
   sends something that makes wolfSSL give up.                             *)
ServedSpec == Spec /\ WF_vars(MainStep) /\ SF_vars(Cleanup)

-----------------------------------------------------------------------------
TypeOK ==
    /\ wire \in Seq(Seq(Byte)) /\ sent \in 0 .. MaxBytes
    /\ stream \in [buf : [0 .. StreamSize - 1 -> Byte],
                   wr : 0 .. StreamSize - 1, rd : 0 .. StreamSize - 1]
    /\ line \in Seq(Symbols \ {"nl", "bs"}) /\ Len(line) < LineSize
    /\ ring \in [buf : [0 .. RingSize - 1 -> TlsByte], head : 0 .. RingSize - 1,
                 tail : 0 .. RingSize - 1, overflow : Nat]
    /\ tls_active = (pc \in {"setup", "connect", "flush"})
    /\ pc \in {"drain", "poll", "setup", "connect", "flush", "after"}
    /\ polls \in Nat /\ session \in Nat /\ burst \in 0 .. session
    /\ parsed \in Seq(Byte) /\ executed \in Seq(Seq(Symbols))
    /\ lost \in BOOLEAN /\ reported \in BOOLEAN
    /\ got \in Seq(TlsByte)

(* The bytes the command interpreter has taken or will take, oldest first. *)
Pending == [k \in 1 .. StreamFill |-> stream.buf[(stream.rd + k) % StreamSize]]
Accepted == parsed \o Pending

(* wolfSSL reads only bytes that arrived in its own session: what the flush of
   an earlier cleanup took into the ring is never read.                    *)
FreshSession == \A k \in DOMAIN got : got[k].session = session

(* wolfSSL's bytes are in order, and where some are missing the overflow has
   been reported before wolfSSL gets to read past the gap.                 *)
GapReported ==
    \A k \in 1 .. Len(got) - 1 :
        /\ got[k].num < got[k + 1].num
        /\ got[k + 1].num # got[k].num + 1 => reported

(* The command interpreter gets every byte at most once and in order, and what
   it misses is whole packets: those a TLS session received, and those the
   stream buffer refused.                                                  *)
WholePacketsInOrder ==
    \A k \in 1 .. Len(Accepted) - 1 :
        LET a == Accepted[k]  b == Accepted[k + 1]
        IN  /\ a.num < b.num
            /\ b.num # a.num + 1 => "last" \in a.edge /\ "first" \in b.edge

(* Until the first TLS session nothing is missing: every byte sent is parsed,
   buffered, or not delivered yet.                                         *)
CommandsComplete ==
    session = 0 =>
        /\ \A k \in DOMAIN Accepted : Accepted[k].num = k
        /\ \A p \in DOMAIN wire : \A k \in DOMAIN wire[p] : wire[p][k].num > Len(Accepted)
        /\ wire = <<>> => Len(Accepted) = sent

(* The stream buffer refuses a packet only when TLS commands were pipelined: one
   drain must run so many sessions that the packets their cleanups let in
   exceed the buffer, with a TLS line of two symbols to pay for each.      *)
OverflowNeedsBurst ==
    /\ burst = 0 => StreamFill <= PacketLen
    /\ StreamFill <= PacketLen + 1 + burst * (AfterPolls * PacketLen - 2)
    /\ lost => PacketLen + 1 + session * (AfterPolls * PacketLen - 2) > StreamSize - 1

-----------------------------------------------------------------------------
(* The reference for the line editor, by positions in the text p. *)
Count(S) == Cardinality(S)

(* The i-th of a set of positions. *)
Nth(S, i) == CHOOSE k \in S : Count({l \in S : l < k}) = i - 1

(* The line that goes on up to e. *)
Segment(p, e) == {k \in 1 .. e - 1 : \A j \in k .. e - 1 : p[j].sym # "nl"}

Erased(p, S) == Count({k \in S : p[k].sym = "bs"})
Typed(p, S)  == Count({k \in S : p[k].sym # "bs"})

(* A character stays unless more erasures than characters follow it at some
   point before the end of the line.                                       *)
Stays(p, k, e) ==
    /\ p[k].sym # "bs"
    /\ \A j \in k + 1 .. e - 1 : Erased(p, k + 1 .. j) <= Typed(p, k + 1 .. j)

Kept(p, e) == {k \in Segment(p, e) : Stays(p, k, e)}

LineAt(p, e) ==
    [i \in 1 .. Lower(Count(Kept(p, e)), LineSize - 1) |-> p[Nth(Kept(p, e), i)].sym]

(* An erasure after characters that no longer fitted erases one that did. *)
Plainly(p, e) == Erased(p, Segment(p, e)) = 0 \/ Typed(p, Segment(p, e)) < LineSize

LineEnds(p) == {k \in DOMAIN p : p[k].sym = "nl" /\ LineAt(p, k) # <<>>}

(* The lines executed are the lines parsed, each cut to what the line buffer
   holds, with the erasures done and empty lines left out.                 *)
LinesAsParsed ==
    (\A e \in DOMAIN parsed : parsed[e].sym = "nl" => Plainly(parsed, e))
        => executed = [i \in 1 .. Count(LineEnds(parsed)) |->
                          LineAt(parsed, Nth(LineEnds(parsed), i))]

(* Every byte in the stream buffer is parsed in the end, if sessions end. *)
StreamServed ==
    \A n \in 1 .. MaxBytes :
        (\E k \in DOMAIN Pending : Pending[k].num = n)
            ~> (\E k \in DOMAIN parsed : parsed[k].num = n)

-----------------------------------------------------------------------------
(* What a comment in the code promises and the code does not keep: cleanup is
   to leave a clean state, so that no byte sent to the TLS session is taken
   for a command after it.                                                 *)
CleanAfterTls == \A k \in DOMAIN parsed : ~parsed[k].tls
=============================================================================

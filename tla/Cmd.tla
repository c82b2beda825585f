------------------------------- MODULE Cmd -------------------------------
(***************************************************************************)
(* The command interpreter, the AUTO poll, and the texts they print.       *)
(*                                                                         *)
(* One loop runs both: a line is parsed and executed, what it prints goes  *)
(* to stdout's buffer, and the buffer is flushed after each line.  The poll*)
(* prints into the same buffer and flushes nothing; OS_ERROR sends past it.*)
(* A text that is flushed is taken as received: how the transmit path can  *)
(* lose it is the subject of CdcTx.  How a parameter is parsed is the      *)
(* subject of Parse: here it is a value, or "bad".                         *)
(***************************************************************************)
EXTENDS Naturals, FiniteSetsExt, SequencesExt

CONSTANTS
    Bytes,      \* values of get_resp, no_resp and of a response's header
    Divs,       \* divisors that CLKDIV may be set to
    OtherDivs,  \* numbers a host may ask for that are no divisor
    StdoutSize, \* texts that fit in stdout's buffer
    MaxLines,   \* bound: lines the host sends
    MaxPolls    \* bound: AUTO polls that print

ASSUME CmdAssumption ==
    /\ "FF" \in Bytes /\ "00" \in Bytes
    /\ Divs \cap OtherDivs = {}
    /\ 32 \in Divs
    /\ StdoutSize \in Nat \ {0}
    /\ MaxLines \in Nat
    /\ MaxPolls \in Nat

VARIABLES
    auto,    \* main_spi_auto, main_spi_get_resp, main_spi_no_resp
    div,     \* the SPI prescaler
    pwr,     \* the chip's supply and _pwr_state
    cs,      \* chip select and _spi1_cs_state: who drives it low, or "none"
    stdout,  \* texts in stdout's buffer
    host,    \* texts the host has received
    pc,      \* "loop", or "reset" while wd_reset waits for the watchdog
    lines,   \* history: the lines executed
    booted,  \* history: lines executed before the last start
    polls,   \* history: polls that printed
    polled,  \* history: lines executed before the last poll
    printed  \* history: texts in the order in which they were printed

vars == <<auto, div, pwr, cs, stdout, host, pc, lines, booted, polls, polled, printed>>

settings == <<auto, div, pwr, cs>>

-----------------------------------------------------------------------------
AutoSettings == [on : BOOLEAN, get : Bytes, no : Bytes]
AutoDefault == [on |-> FALSE, get |-> "00", no |-> "00"]

Readers == {"ID"}     \* ID, SN, VER, GPO, BUTTON, HELP: print and return TRUE
Setters == {"AUTO", "CLKDIV", "CS", "PWR"}

(* A line, as _find_cmd and _process_cmd see it: the command, and whether what
   follows is "=", another text, or nothing ("?" included).  A command with a
   handler for parameters treats "=" and another text alike.               *)
Line(name, form, value) == [name |-> name, form |-> form, value |-> value]

(* The value a parameter parses to, by its kind. *)
None      == [none |-> TRUE]
Bad       == [bad |-> TRUE]
Triple(v) == [auto |-> v]
Number(v) == [number |-> v]
Flag(v)   == [flag |-> v]

(* A text: what printed it (a line by its number, a poll by its number and its
   first byte, or the packet handler) and what it says.                    *)
Text(by, n, says) == [by |-> by, num |-> n, says |-> says]

Init ==
    /\ auto = AutoDefault
    /\ div = 32
    /\ pwr = TRUE
    /\ cs = "none"
    /\ stdout = <<>>
    /\ host = <<>>
    /\ pc = "loop"
    /\ lines = <<>>
    /\ booted = 0
    /\ polls = 0
    /\ polled = 0
    /\ printed = <<>>

-----------------------------------------------------------------------------
(* printf: the buffer is written out when it is full. *)
Spilled(texts) ==
    LET all == stdout \o texts
        out == IF Len(all) < StdoutSize THEN 0 ELSE (Len(all) \div StdoutSize) * StdoutSize
    IN  [out |-> SubSeq(all, 1, out), left |-> SubSeq(all, out + 1, Len(all))]

(* OS_PRINTF without a flush behind it *)
Printf(texts) ==
    /\ host' = host \o Spilled(texts).out
    /\ stdout' = Spilled(texts).left
    /\ printed' = printed \o texts

\* mutant: the answer is sent before what waits in the buffer
PrintPast(texts) ==
    /\ host' = host \o texts \o stdout
    /\ stdout' = <<>>
    /\ printed' = printed \o texts

(* OS_PRINTF, then OS_FLUSH when the line has been executed *)
PrintAndFlush(texts) ==
    /\ host' = host \o stdout \o texts
    /\ stdout' = <<>>
    /\ printed' = printed \o texts

LineNo == Len(lines) + 1

(* The answers of the handlers, by what they return and print. *)
Ok(texts)    == texts \o <<Text("line", LineNo, "OK")>>
Value        == <<Text("line", LineNo, "value")>>
Error(texts) == texts \o <<Text("line", LineNo, "ERROR")>>

(* cmd_parse executes a line; OS_FLUSH follows in _tty_rx_parser. *)
Execute(l) ==
    /\ pc = "loop"
    /\ Len(lines) < MaxLines
    /\ lines' = Append(lines, l)
    /\ UNCHANGED <<booted, polls, polled>>

Same == UNCHANGED settings

(* A remark is skipped. *)
Remark ==
    /\ Execute(Line("remark", "none", None))
    /\ PrintAndFlush(<<>>)
    /\ Same /\ UNCHANGED pc

(* An unknown name is refused, and so is a parameter for a command that has no
   handler for one.                                                        *)
Refuse(name) ==
    /\ Execute(Line(name, "set", None))
    /\ PrintAndFlush(Error(<<>>))
    /\ Same /\ UNCHANGED pc

(* Show a setting or a fact. *)
Show(name) ==
    /\ Execute(Line(name, "none", None))
    /\ PrintAndFlush(Ok(Value))
    /\ Same /\ UNCHANGED pc

\* mutant: the handler reports the error and returns TRUE
SetBadTwice(name) ==
    /\ Execute(Line(name, "set", Bad))
    /\ PrintAndFlush(Ok(Error(<<>>)))
    /\ Same /\ UNCHANGED pc

(* A parameter that does not parse. *)
SetBad(name) ==
    /\ Execute(Line(name, "set", Bad))
    /\ PrintAndFlush(Error(<<>>))
    /\ Same /\ UNCHANGED pc

\* mutant: the switch is thrown before the other parameters are read
SetAutoEarly(v) ==
    /\ Execute(Line("AUTO", "set", Triple(v)))
    /\ auto' = [auto EXCEPT !.on = v.on]
    /\ PrintAndFlush(Ok(<<>>))
    /\ UNCHANGED <<div, pwr, cs, pc>>

(* _cmd_auto_set: the three values together *)
SetAuto(v) ==
    /\ Execute(Line("AUTO", "set", Triple(v)))
    /\ auto' = v
    /\ PrintAndFlush(Ok(<<>>))
    /\ UNCHANGED <<div, pwr, cs, pc>>

(* A number that is no divisor is refused by the driver. *)
SetClkdiv(v) ==
    /\ Execute(Line("CLKDIV", "set", Number(v)))
    /\ div' = IF v \in Divs THEN v ELSE div
    /\ PrintAndFlush(IF v \in Divs THEN Ok(<<>>) ELSE Error(<<>>))
    /\ UNCHANGED <<auto, pwr, cs, pc>>

(* spi1_cs: the pin and the driver's own flag; _spi_cs_active is not touched *)
SetCs(v) ==
    /\ Execute(Line("CS", "set", Flag(v)))
    /\ cs' = IF v THEN "host" ELSE "none"
    /\ PrintAndFlush(Ok(<<>>))
    /\ UNCHANGED <<auto, div, pwr, pc>>

SetPwr(v) ==
    /\ Execute(Line("PWR", "set", Flag(v)))
    /\ pwr' = v
    /\ PrintAndFlush(Ok(<<>>))
    /\ UNCHANGED <<auto, div, cs, pc>>

(* TLS: without a parameter nothing happens; with one a session runs, whose
   messages are flushed one by one.  Neither prints OK.                    *)
Tls(form) ==
    /\ Execute(Line("TLS", form, None))
    /\ PrintAndFlush(IF form = "none" THEN <<>> ELSE Value)
    /\ Same /\ UNCHANGED pc

(* RESET: the handler prints and never returns, so nothing is flushed. *)
Reset ==
    /\ Execute(Line("RESET", "none", None))
    /\ Printf(Value)
    /\ pc' = "reset"
    /\ Same

(* The watchdog bites: RAM, settings and pins start again. *)
Reboot ==
    /\ pc = "reset"
    /\ auto' = AutoDefault
    /\ div' = 32
    /\ pwr' = TRUE
    /\ cs' = "none"
    /\ stdout' = <<>>
    /\ pc' = "loop"
    /\ booted' = Len(lines)
    /\ UNCHANGED <<host, lines, polls, polled, printed>>

(* A chip without supply leaves MISO to its pull-up. *)
Headers == IF pwr THEN Bytes ELSE {"FF"}

(* _spi_auto_task, for a chip that answers h as its header.  _spi_cs_active,
   which guards it, is set only inside it: the poll always runs, and it leaves
   the chip select idle whoever had it.                                    *)
Poll(h) ==
    /\ pc = "loop"
    /\ auto.on
    /\ polled' = Len(lines)
    /\ UNCHANGED <<auto, div, pwr, pc, lines, booted>>

\* mutant: the early return forgets the chip select
PollEmptyOpen(h) ==
    /\ h = auto.no
    /\ Poll(h)
    /\ cs' = "poll"
    /\ UNCHANGED <<stdout, host, polls, printed>>

\* mutant: the early return leaves the chip select as it was
PollEmptyKeeps(h) ==
    /\ h = auto.no
    /\ Poll(h)
    /\ UNCHANGED <<cs, stdout, host, polls, printed>>

PollEmpty(h) ==
    /\ h = auto.no
    /\ Poll(h)
    /\ cs' = "none"
    /\ UNCHANGED <<stdout, host, polls, printed>>

PollResponse(h) ==
    /\ h # auto.no
    /\ polls < MaxPolls
    /\ Poll(h)
    /\ cs' = "none"
    /\ polls' = polls + 1
    /\ Printf(<<Text("poll", polls + 1, h)>>)

MaxErrors == 1   \* bound: errors of the packet handler

(* A full stream buffer: OS_ERROR sends at once, past stdout's buffer. *)
RxOverflow ==
    /\ pc = "loop"
    /\ Cardinality({i \in DOMAIN host : host[i].by = "rx"}) < MaxErrors
    /\ host' = Append(host, Text("rx", 0, "ERROR"))
    /\ printed' = Append(printed, Text("rx", 0, "ERROR"))
    /\ UNCHANGED <<settings, stdout, pc, lines, booted, polls, polled>>

-----------------------------------------------------------------------------
Parse ==
    \/ Remark
    \/ \E name \in Readers \cup {"RESET", "unknown"} : Refuse(name)
    \/ \E name \in Readers \cup Setters : Show(name)
    \/ \E name \in Setters : SetBad(name)
    \/ \E v \in AutoSettings : SetAuto(v)
    \/ \E v \in Divs \cup OtherDivs : SetClkdiv(v)
    \/ \E v \in BOOLEAN : SetCs(v) \/ SetPwr(v)
    \/ \E form \in {"none", "set"} : Tls(form)
    \/ Reset

PollChip == \E h \in Headers : PollEmpty(h) \/ PollResponse(h)

Next == Parse \/ PollChip \/ RxOverflow \/ Reboot

Spec == Init /\ [][Next]_vars

(* The loop polls, and a watchdog that is not fed bites. *)
FairSpec == Spec /\ WF_vars(PollChip) /\ WF_vars(Reboot)

-----------------------------------------------------------------------------
TypeOK ==
    /\ auto \in AutoSettings
    /\ div \in Divs
    /\ pwr \in BOOLEAN
    /\ cs \in {"none", "host"}
    /\ Len(stdout) < StdoutSize
    /\ pc \in {"loop", "reset"}
    /\ booted <= Len(lines) /\ polled <= Len(lines)
    /\ Len(lines) <= MaxLines /\ polls <= MaxPolls

Received(t) == t \in Range(host)

(* Lines since the last start that set s and that the host has seen acknowledged. *)
Acknowledged(s) ==
    {n \in booted + 1 .. Len(lines) :
        lines[n].name = s /\ lines[n].form = "set" /\ Received(Text("line", n, "OK"))}

(* The setting the host has reason to believe in. *)
Believed(s, default) ==
    IF Acknowledged(s) = {} THEN default ELSE lines[Max(Acknowledged(s))].value

(* At rest the settings are those of the last acknowledged commands: what was
   answered with ERROR changed nothing, what was answered with OK changed
   everything it named, and a restart went back to the defaults.           *)
SettingsAsAcknowledged ==
    pc = "loop" =>
        /\ Triple(auto) = Believed("AUTO", Triple(AutoDefault))
        /\ Number(div) = Believed("CLKDIV", Number(32))
        /\ Flag(pwr) = Believed("PWR", Flag(TRUE))

(* The chip select is low exactly when the host set it so and no AUTO poll has
   run since: a poll never leaves it low, whichever way it returns.        *)
FrameAsSet ==
    pc = "loop" =>
        (cs = "host" <=> /\ Believed("CS", Flag(FALSE)) = Flag(TRUE)
                         /\ Max(Acknowledged("CS")) > polled)

(* The lines the code ends with OK or ERROR: RESET and TLS print neither. *)
Ends(l) ==
    /\ l.name \notin {"remark", "TLS"}
    /\ ~(l.name = "RESET" /\ l.form = "none")

EndOf(n) == {i \in DOMAIN host : host[i].by = "line" /\ host[i].num = n
                                 /\ host[i].says \in {"OK", "ERROR"}}

(* API.md:53, when the next line is read: no command has two ends, and each that
   the code answers has its end, behind everything else it printed.  What such
   a command printed the host has, whatever a RESET after it throws away.  That
   RESET and TLS are answered is not claimed here but in EveryCommandAnswered.  *)
AnsweredOnce ==
    pc = "loop" =>
        \A n \in DOMAIN lines :
            /\ \A i, j \in EndOf(n) : i = j
            /\ Ends(lines[n]) =>
                /\ \E i \in EndOf(n) : \A j \in i + 1 .. Len(host) :
                       ~(host[j].by = "line" /\ host[j].num <= n)
                /\ \A t \in Range(printed) : (t.by = "line" /\ t.num = n) => Received(t)

(* Nothing but an error of the packet handler overtakes a text printed earlier:
   the answers of commands and the responses of polls reach the host in the
   order in which the program printed them.                                *)
OnlyErrorsOvertake ==
    \A i, j \in DOMAIN host :
        (i < j /\ host[i].by # "rx" /\ host[j].by # "rx") =>
            \E k, m \in DOMAIN printed :
                k < m /\ printed[k] = host[i] /\ printed[m] = host[j]

(* API.md:53: "Execution of any command is finished with message OK or ERROR".
   (TLS is left out: cmd.c says that it prints nothing on purpose.)        *)
EveryCommandAnswered ==
    pc = "loop" =>
        \A n \in DOMAIN lines : lines[n].name \notin {"remark", "TLS"} => EndOf(n) # {}

(* API.md:41: CS "Set SPI CS state": a frame the host opened is closed by its
   command (or by a restart), not by anything else.                        *)
HostFrameKept ==
    [][(cs = "host" /\ cs' # "host") => (Len(lines') > Len(lines) \/ pc = "reset")]_vars

(* CODE_STRUCTURE.md:44: "printf and OS_PUTTEXT are routed to USB CDC": what a
   poll prints reaches the host, unless the program is restarted.          *)
PollTextArrives ==
    \A n \in 1 .. MaxPolls :
        (polls >= n) ~> (pc = "reset" \/ \E i \in DOMAIN host : host[i].by = "poll" /\ host[i].num = n)
=============================================================================

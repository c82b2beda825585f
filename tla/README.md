# Verification of the one-time-pad keychain firmware

The repository holds the firmware of an STM32U535 USB dongle: a USB CDC-ACM
device with a text command interface, a SPI master for a secure chip, and a
TLS 1.3 client (wolfSSL, hybrid certificates) that runs its session over the
same USB serial channel; a host bridge and a test server complete it.  This
directory holds TLA+ models of that system, TLC configurations that check them
on small instances, and TLAPS proofs of what holds on every instance.

The firmware has **one main loop and a few interrupts**, no operating system.
What makes it hard is not parallelism but sharing: one IN endpoint and one
resumable write state machine for the console and for TLS, one OUT endpoint
whose bytes go to the command parser or to TLS depending on a flag, a main loop
that is entered again from inside a command handler, and a USB host that may
stop reading, reset the bus or leave at any instruction.

## Inventory

| component | state it keeps | operations | talks to |
|---|---|---|---|
| USB transmit path (`sdk/hal/tty.c`, `app/tls_pqc.c` EmbedSend, `usb/ux_device_cdc_acm.c`, USBX `write_run`, `stack_transfer_run`, `ux_dcd_stm32_transfer_run`, HAL callbacks) | `write_state`, captured buffer and lengths, endpoint status word, endpoint buffer, retry counter | `_usb_send_data`, `EmbedSend`, `write_run`, `transfer_run`; DataInStage, Reset, Disconnect interrupts | console, TLS task, USB host |
| USB receive path (`ux_device_cdc_acm_task`, `_usb_rx_handler`, `_usb_getchar`, `_rx_feed`) | stream buffer and its two indices, the line being assembled | one call per packet, one per character | host, command parser, TLS ring |
| TLS task (`app/tls_pqc.c`) | `tls_active`, `rxRing` (head, tail, overflow count), wolfSSL's session | handshake loop, EmbedReceive, cleanup | both USB paths, watchdog |
| Command interpreter (`app/cmd.c`) | settings: AUTO, power | 11 commands, number and hex parsers | SPI, console, TLS, reset |
| Main loop and SPI (`app/main.c`, `sdk/drv_u5/spi.c`) | `_spi_cs_active`, `_spi1_cs_state`, `main_spi_*`, the 100 ms timer | `_main_task`, AUTO poll, DMA transfer and its callback | chip, LED, watchdog |
| UART driver (`sdk/drv_u5/uart.c`) | two rings with indices and free-running counters, `tx_run` | putchar, getchar, interrupt handler | (compiled; nothing calls it in this build, so it is not modelled) |
| Watchdog and reset (`wd.c`, `reset.c`, backup registers) | `_wd_clr_enable`, GPREG words, RCC flags | feed, reset, type at start | everything |
| Time base (`time.c`) | `timer_ms`, the TIM2 counter | 1 ms interrupt, `timer_get_time`, delays | main loop |
| LED (`led.c`) | masks, position, priority | sequence, tick | main loop |
| Log, GPIO, clocks, DMA set-up, descriptors | static configuration | | |
| RNG seed (`custom_wc_GenerateSeed`) | hardware RNG handle | fill a buffer | wolfSSL |
| Host bridge (`tls_usb_test/usb_tcp_bridge.py`), test server and client, key tools, `flash_tool.sh` | sockets, a "TLS seen" flag | forward, filter | device, server |
| Vendored: CMSIS, the rest of USBX, liboqs; the STM32 HAL, PQClean and wolfSSL are submodules without source here | | | |

### Interactions

Everything but the interrupts runs in `_main_task` (`app/main.c:269-294`): drain
the received characters, execute the lines they complete, one pass of the USB
stack, and every 100 ms the connection state, the LED, the watchdog and the AUTO
poll. Three things make this loop less simple than it looks.

* **Re-entry.** A TLS command runs the whole session inside `tty_rx_task`. The
  session calls `usb_device_task` from the handshake loop, from `EmbedSend` and
  from the cleanup, so packets are delivered while the drain is in progress.
* **Shared resumable state.** `ux_device_class_cdc_acm_write_run` keeps the buffer
  and length of the call that found it idle. The console (`_usb_send_data`, at
  most 100 attempts) and TLS (`EmbedSend`, retried by `wolfSSL_connect`) step it
  in turn, and `ux_device_cdc_acm_tx` tells them apart by length only.
* **Interrupts.** A packet completes, the bus is reset or the cable is pulled
  between any two steps of the above. SETUP requests, by contrast, are
  processed by `usb_device_task` in the main loop (the stack is built
  UX_STANDALONE), and so is the receive handler: the stream buffer and the ring
  are never touched by an interrupt.

### What makes each component correct, and what is hard about it

| component | correct when | hard because |
|---|---|---|
| USB transmit | a message reported sent was received; nothing is sent twice or out of order; the controller's buffer is left alone while it sends; a print returns | state survives the call, the caller's buffer, the session and the connection |
| USB receive | each reader gets its bytes once and in order; overflow loses whole packets or is reported; lines are what was typed; nothing accepted is forgotten | routing is decided at delivery; the drain is re-entered |
| TLS task | a session reads only its own bytes; the input goes back clean; records are taken or refused | no timeout; ring kept across sessions |
| Command interpreter | a setting is changed completely or not at all; no command is answered twice, and none but RESET and TLS not at all; numbers mean what they say | errors half-way through a parameter list; signed overflow |
| Main loop and SPI | chip select frames are not torn; the watchdog is fed only while the loop turns, and is fed in time | two chip-select flags; blocking commands; a deadline that catches up |
| UART | a bounded FIFO in each direction, and a non-empty transmit buffer is drained | the enable bit is read, modified and written from both sides |
| Watchdog and reset | the watchdog's resets and the host's are reported, and nothing else as them | registers that survive resets and are cleared late |
| Time base | time never goes backwards | counter and interrupt are read apart |
| Bridge | the server gets the device's TLS bytes and nothing else | reads split anywhere; text and records share the channel |

The hazards, each at its line and with the properties aimed at it, are listed in
`PROJECT.json`.

## Plan

Order of work: the two directions of the USB channel first, since every other part
speaks through them.

1. `CdcTx`, the transmit path, with `CdcTxProofs` (**done**).
2. `UsbRx`, the receive path, the routing between console and TLS, the TLS
   session's hold on the input, with `UsbRxProofs` (**done**).
3. `MainLoop`: the 100 ms block, time consumed by lines and sessions, and the
   watchdog, with `MainLoopProofs` (**done**).
4. `Cmd` and `Parse`: settings with their error paths, answers, the AUTO poll and
   its chip select; table lookup and parsers against reference definitions; with
   `CmdProofs` (**done**).
5. `TimerClock`, refining `MonotonicClock`, with `TimerClockProofs`; `Boot`, `Seed`
   and `Led`, and `Device`, which composes the three, with `DeviceProofs` about
   `Boot`, `Seed` and `Device` (**done**).
6. `CdcRead`: the `read_run` state machine below `UsbRx`, through resets, refining
   `PacketSlot`, with `CdcReadProofs` (**done**).
7. `Bridge`: the host's filter between the device and the TLS server, with
   `BridgeProofs` (**done**).
8. The references of the line editor and of `parse_number`, and the lamp's masks, restated
   so that they can be proved about, and the proofs: `LinesAsParsed` in `UsbRxProofs`,
   `NumberAsWritten` in `CmdProofs`, `LampShows` in `DeviceProofs` (**done**). With them
   every invariant of the runs is a theorem.

A module that puts `CdcTx` and `UsbRx` under one main loop was considered and left
out: what the two share is the flag `tls_active`, which `UsbRx` has and which
`CdcTx` does not read, and the text printed during a session, which `CdcTx` has.
Each of the two overapproximates the other, so that what holds of either holds of
both together; their product is out of TLC's reach.

## Modules

### CdcTx — the transmit path

| state | code |
|---|---|
| `dev`, `enum` | `ux_slave_device_state` and the control transfers an enumeration still needs |
| `write_state`, `wr` | `ux_device_class_cdc_acm_write_state`, `_buffer`, `_requested_length`, `_actual_length` and the request of the current chunk |
| `ed`, `armed`, `ebuf` | the endpoint's TRANSFER and DONE bits, the packet the controller holds, the endpoint buffer |
| `mem` | the callers' buffers, stdout's and wolfSSL's, by owner of each byte |
| `pc`, `cur`, `limit`, `tls` | where `_usb_send_data` or `EmbedSend` is, for which message, with how many attempts left, and the record wolfSSL still has to send |
| `msgs`, `host` | history: what each sender was told, what the host received in each session |

A call of `usb_cdc_tx` is four kinds of steps, because interrupts fall between
them: `CdcAcmTx` (the connection test), `WriteRunDown`/`WriteRunDone`/`WriteRunCopy`/
`WriteRunWait` (the state machine up to the driver), and `TransferRun` (the driver,
which holds interrupts off). `Busy` and `Settle` are what the two clients do with
the result. `SendData`, `StartRecord`, `EmbedSend`, `EmbedPoll`, `TlsPoll`,
`WolfFree` and `Poll` are the clients and the loop; `DataInStage`, `UsbReset` and
`UsbDisconnect` are interrupts. A message is its index and a byte is the pair of
message and offset, so that splices, repeats and reads of freed memory (message
0) are visible in `host`.

### UsbRx — the receive path

| state | code |
|---|---|
| `wire`, `sent` | packets the host has sent and the stack has not delivered |
| `stream` | `_usb_stream_buffer`, `_usb_stream_wr_ptr`, `_usb_stream_rd_ptr` |
| `line` | `usb_rx_buf` of `tty_rx_task` |
| `ring`, `tls_active` | `rxRing` and the flag in `tls_pqc.c` |
| `pc`, `polls` | drain, the loop's pass, or the phase of the TLS command; passes cleanup has left |
| `session`, `burst`, `parsed`, `executed`, `lost`, `got`, `reported` | history |

`HostSend` is the host. `DeviceTask` is one pass of the stack, used by `Poll` (main
loop), `HandshakePoll`, `FlushPoll` and `AfterPoll`; it delivers one packet through
`RxHandler` to `RB_Write` or `StreamWrite`. `RxTask` and `TlsCommand` consume one
character of the drain, `StartHandshake`, `EmbedReceive`, `Cleanup`, `Release` and
`TlsDone` are the TLS command. The text `TLS=` is one symbol, so that a line which
starts a session costs two symbols rather than five.

What `executed` must be is defined by positions in the text, with none of the editor's
steps: a character stays unless more erasures than characters follow it at some point
before the end of its line (`Stays`, `Kept`), and a line is what stays of it, cut to the
buffer (`LineAt`).

### CdcRead — below the packet handler

| state | code |
|---|---|
| `dev`, `session` | `ux_slave_device_state`, and how many times the device was configured |
| `pc`, `read_state`, `actual` | where `usb_device_task` is; `..._cdc_acm_read_state`, `..._read_actual_length` |
| `ed`, `armed`, `ebuf` | the OUT endpoint's status bits, whether the controller accepts a packet, its buffer |
| `rx_buffer` | `acm_rx_buffer` |
| `sent`, `given` | history: packets received, calls of the handler |

`DeviceTasks` and `CdcAcmTask` are the two halves of `usb_device_task`;
`ReadRunDown`, `ReadRunStart`, `ReadRunWait`, `ReadRunDone` and `ReadRunCopy` are
`read_run`, `TransferRun` the driver with interrupts off, `DataOutStage`, `UsbReset`
and `UsbDisconnect` interrupts. The refinement `OnePlace` maps endpoint buffer,
application buffer and state machine to the one place of `PacketSlot`; this is the
single delivery per pass that `UsbRx` has of this path. A delivery after a reset
belongs to the later connection, which `UsbRx` does not tell apart.

### MainLoop — the pass in time, and the watchdog

| state | code |
|---|---|
| `clock`, `now` | the time and the local `now`, both from `timer_100ms`, so that `timer_100ms += 100` moves both |
| `unfed`, `died` | the watchdog's counter, and what its last reset interrupted |
| `backlog`, `quota` | lines in the stream buffer; lines the host has left |
| `auto`, `pc` | `main_spi_auto`; where the loop, a session, a poll or a hanging transfer is |
| `burst`, `blocks` | history: whether a session's cleanup has let lines in since the block ran; ages of the last runs of the block |

A step that takes time chooses its duration up to a constant: `ExecLine` (a line
with a host that does not read costs 100 attempts for each print), `TlsPoll`,
`UsbPass`, `SpiPoll`, `Sleep`. `TlsLine`, `TlsPoll`, `TlsLeave`, `TlsCleanup` are a session, which
runs inside the drain and lets further lines in at its end. `SpiHang` and `Spin`
are a transfer whose interrupt does not come, `Bite` and `Boot` the watchdog's reset.

### Cmd — settings, answers, AUTO poll

| state | code |
|---|---|
| `auto`, `div`, `pwr`, `cs` | `main_spi_*`, the prescaler, `_pwr_state`, `_spi1_cs_state` with who set it |
| `stdout`, `host` | newlib's buffer; texts the host has |
| `pc` | the loop, or `wd_reset` waiting |
| `lines`, `booted`, `polls`, `polled`, `printed` | history |

One action per kind of line: `Remark`, `Refuse`, `Show`, `SetBad`, `SetAuto`,
`SetClkdiv`, `SetCs`, `SetPwr`, `Tls`, `Reset`. Each is the whole of
`_tty_rx_parser`: lookup, handler, answer, flush. `PollEmpty` and `PollResponse` are the two
returns of `_spi_auto_task`, which print without a flush; `RxOverflow` is the
`OS_ERROR` of the packet handler, which goes past the buffer.

### Parse — text to values

The functions of `cmd.c` and `util.c` one step per table entry, digit or parameter, on
every text over a given alphabet (a small one in the run, any in the theorems): `Find` (`_find_cmd`), `Sign`, `Digit`, `DigitsEnd`
(`parse_number`, on the integers from `-Half` to `Half - 1`), `FetchState`, `FetchGet`, `FetchNo`,
`Assign` (`_cmd_auto_set`). `CmdProofs` extends `Cmd` and `Parse`, which is why the
names of the second are apart from those of the first (`TextSpec`, `stage`). The properties compare the result with a description
of the text by positions, which uses none of these steps.

### TimerClock, Boot, Seed, Led and Device — drivers and their composition

* `TimerClock`: `cnt`, `uif`, `timer_ms`, `primask`; `Tick` is the hardware,
  `TIM2_IRQHandler` the handler, `Call`, `ReadCnt`, `ReadSr`, `Return` the steps of
  `timer_get_time`, `CallIrq`, `Flag`, `Count` those of `timer_get_time_irq`, `Delay`
  and `Taken` a delay. It implements `MonotonicClock`: an answer is a time between
  call and return. The time is the one the program counts: `TIM2->ARR` is
  1000, so that a period of the counter is 1001 ticks and counts as 1000.
* `Boot`: `csr`, `wdid`, `iwdg` are the RCC flags, the backup register and the
  watchdog; the steps are `main` from `sys_init` to the loop. Resets of every
  cause come between any two of them.
* `Seed`: `mem` is memory with the output somewhere in it; `One` and `Four` are the
  two branches of the loop, `Fail` the generator's error.
* `Led`: `mask`, `mask_run`, `length`, `count` as in `led_t`, a mask as the set of the ticks
  whose bit is one, so that `mask_run >>= 1` takes one from each (`Shifted`); `Block` is
  `_usb_update_state` and `led_tick`. `led_instant_sequence` has no caller in
  this build, and no action.
* `Device` puts the three together from reset to reset: it extends `Boot` and `Seed`
  and instantiates `Led` as `Lamp`. They share the main loop, the connection
  (`connected`, which `Boot` has and the lamp looks at) and the RAM: a reset of any
  cause leads to `pc = "clock"` and initialises the variables of the other two
  (`Forgotten`, `Restarted`), in the middle of a seed or a lamp sequence as well. The
  block does not run while a seed is drawn, as that is inside a TLS command.

### Bridge — the host's side

`emitted` is what the device has sent, `read` how far the bridge has read it;
`forwarded` and `shown` are places in it. `ReadDebug`, `ReadSerial`, `SocketFull`
are the serial branch for a chunk of any length, `ServerSends` and `ServerCloses`
the socket's.

The modules named `MC...` are those TLC runs; the values are in the `.cfg` files.
An operator commented "mutant" is a wrong version of its neighbour, used to
confirm that the properties notice it; no specification refers to it.

## Runs

| run | result | what it shows |
|---|---|---|
| `cdc_tx_delivery` | holds | an `ok` for an undelivered message needs an abandoned message of the same length (`ReportedIsDelivered`); a console message begins at most once per session, however long it is (`ConsoleOnce`); a record is repeated only when console text was sent while it waited (`RecordTwiceNeedsConsole`); the console goes back only for the tail of a message that was given up or printed unconnected (`ConsoleInOrder`); freed memory is not sent in the host's first session (`FreedOnlyAfterReconnect`) |
| `cdc_tx_live` | holds | types, and ownership and bounds of the endpoint buffer (`IInv`, the proved invariant); the controller's buffer is left alone (`NoOverwriteInFlight`); every print comes back (`ConsoleReturns`); a record is taken or refused, if the host collects what is offered (`RecordSettles`) |
| `cdc_tx_answer` | violated | `AnswerArrives`: an answer reported sent is lost |
| `usb_rx_bytes` | holds | a session reads only bytes that arrived in it (`FreshSession`); a gap in them was reported first (`GapReported`); before the first session nothing is missing (`CommandsComplete`); the lines executed are those a definition by positions gives, for every text of up to six symbols (`LinesAsParsed`); the buffer overflows only through pipelined TLS commands, and how many it takes (`OverflowNeedsBurst`) |
| `usb_rx_served` | holds | with a buffer small enough to hold a packet in part: the interpreter gets bytes in order and misses whole packets only (`WholePacketsInOrder`); what the buffer accepted is parsed (`StreamServed`) |
| `cdc_read_order` | holds | packets whole, once, in order (`WholeAndInOrder`); a late one is full and the first of its session (`LateOnlyFull`); the path is one place (`OnePlace`, refinement); what was received is handed on while the connection lasts (`Received`) |
| `main_loop_watchdog` | holds | the watchdog is fed within `LongestUnfed` (`FedInTime`), which is longer than `Timeout` here; a working program is reset only when the cleanup of a session had let lines in since the block last ran (`BiteNeedsBurst`), and so it is; a hang ends in a new start (`HangRecovers`); the block catches up (`CatchesUp`) |
| `cmd_answers` | holds | settings are those acknowledged (`SettingsAsAcknowledged`), the chip select is low exactly when the host set it and no poll ran since (`FrameAsSet`), no command has two ends, and those the code answers have theirs behind all they printed, which the host has (`AnsweredOnce`), texts keep their order but for errors (`OnlyErrorsOvertake`) |
| `parse_texts` | holds | `FoundIsWord`: whole names, in any case; `NumberAsWritten`: the number, or the number modulo the word; `AutoAsWritten`: the three values the text says, or none |
| `timer_clock_reads` | holds | an answer is a time between call and return (`ReadsTheClock`, refinement); a delay lasts as long as asked (`DelayLongEnough`) |
| `device_resets` | holds | WDT is reported exactly of the watchdog's resets that nobody asked for, and USER_RQ of requests only (`WatchdogReported`), a requested reset is named (`RequestReported`); a device that fails behind `wd_run` does not stop the program for good (`DeviceErrorsPass`), which the RNG, before it, does; the seed is written from the first byte on and nothing around it (`FilledExactly`); a period after a change the lamp shows the connection (`LampShows`) |
| `bridge_stream` | holds | the bridge engages at the first byte 0x16 that no DEBUG read has taken, which is the head of the handshake unless such a read took that (`EngagesAtFirst`); the server's stream lacks only what went to the screen (`StreamIntact`) |

Type invariants are definitions `TypeOK` of each module. Those of `CdcTx` (within
`IInv`) are part of a run; those of the other modules are proved instead.

### The disagreements

The first of these is the run `cdc_tx_answer`. Each other one is stated as a
definition of its module, named in brackets, which no run has on its list: given
as INVARIANT or PROPERTY in the module's configuration, it is violated.

* **A lost answer** (`API.md:53`, `ux_device_cdc_acm.c:102`). `usb_cdc_tx` compares
  lengths. If an earlier message was given up, by 100 attempts or a reset,
  its transfer is finished by the next call; when both have the same length, as
  the answers `OK` have, the second is reported sent and is not.
* **A dead transmitter** (`ux_dcd_stm32_transfer_run.c:122`; `CdcTx!TransferMeansInProgress`). The driver refuses
  only a device in RESET. After a bus reset the device is ATTACHED and the
  endpoint destroyed, so a transfer that was being set up leaves TRANSFER set with
  no packet. The next configuration does not clear it.
* **TLS bytes as commands** (`tls_pqc.c:219`; `UsbRx!CleanAfterTls`). The flush is five passes of the
  stack; packets that arrive after them reach the command interpreter, and
  `tty_flush_usb_rx`, written against this, is called nowhere.
* **Deaf after a reset** (`ux_dcd_stm32_transfer_run.c:122`; `CdcRead!Listens`). The
  same window on the OUT endpoint: a bus reset after `read_run`'s test leaves
  TRANSFER set on a destroyed endpoint, the next enumeration keeps it, and the
  device waits for a packet it never armed. The HAL has no source here; the model
  takes `HAL_PCD_EP_Open` to leave the endpoint closed until a receive is started.
* **A block that is not paced** (`main.c:280`, `CODE_STRUCTURE.md:39`; `MainLoop!PollsPaced`). After a session
  of n periods the block, with its poll of the chip, runs on n passes in a row.
* **Pipelining and the watchdog** (`tty.c:23`, `tty.c:158`; `MainLoop!PipeliningSupported`). With a host that does not
  read, each line costs at least 100 ms, and all lines in the buffer are
  executed before the next feed. A session's cleanup lets ten packets in, which
  hold hundreds of lines: the 20 s pass, and the watchdog discards the rest. In proportion: the
  values of the run, with `BurstLines` and `StreamLines` 7 and `MaxLines` 8.
* **RESET is not answered** (`cmd.c:332`, `API.md:53`; `Cmd!EveryCommandAnswered`). Neither OK nor even the text
  RESET leaves the device, as nothing is flushed.
* **Torn frames** (`main.c:285`, `API.md:41`; `Cmd!HostFrameKept`). The poll looks at a flag that the CS
  command does not set, runs into the host's frame and ends it.
* **Poll text that waits** (`main.c:214`, `CODE_STRUCTURE.md:44`; `Cmd!PollTextArrives`). The response of an
  AUTO poll is sent with the answer of the next command, or when the buffer is full.
* **CLKDIV by overflow** (`cmd.c:68`, `API.md:38`; `Parse!ClkdivOnlyDivisors`). `CLKDIV=4294967298` is taken as 2.
* **A banner nobody sees** (`main.c:317`, `BUILD_AND_FLASH.md:98`; `Boot!BannerSeen`). It is printed before
  USB exists.
* **A brown-out by another name** (`reset.c:19`, `reset.h:9`, `main.c:329`; `Boot!BrownoutNamed`).
  The enumeration and the banner have BOD, but the flag that is tested for it,
  `LPWRRSTF`, is that of an illegal low-power mode and no brown-out sets it. BOD is
  never reported; brown-outs and the reset pin are reported as POWER_ON.
* **A stream without its head** (`usb_tcp_bridge.py:78`; `Bridge!BeginsWithHello`). "Check for TLS
  ClientHello (0x16) to engage bridge": any byte 0x16 of a read engages it. When a
  read with DEBUG text has taken the head of the ClientHello to the screen, the
  next 0x16 among the record's bytes does, and the server gets the rest from there.
* **The bridge** (`usb_tcp_bridge.py`; `Bridge!EverythingForwarded`, `AllShown`,
  `ClaimIsTrue`). Line 74 forwards "everything once TLS has
  started", but a chunk with DEBUG text is skipped as a whole; line 35 promises
  all output on the screen, of which only DEBUG chunks are shown; line 101 reports
  bytes that a port opened with `write_timeout=0` need not have taken.

Without a definition: `API.md:68` describes short flashes during SPI transactions, and no
code asks for them (`led_instant_sequence` is called by nobody).

`LinesAsParsed` excludes one case by its premise: erasing in a line that has grown
past the buffer removes a character that was kept, since the dropped ones are
not counted. No document says otherwise, so the property states the rest.

### Bounds, and why they are enough

* `CdcTx`: three messages (two in `cdc_tx_live`, whose properties are about one
  transfer, or proved) over a buffer of two units, of up to four units in
  `cdc_tx_delivery`, so that a message takes one chunk or two, the second short or full: that
  is the first length at which a message that was given up shows an old tail behind
  two chunks. `Lengths` names the lengths in a behaviour: 1, 3 and 4 there (one
  chunk, one and a half, two), 1 to 3 in the other two runs, which have the single
  full chunk. Two sessions; five attempts. The attempts needed
  for k chunks are 2k + 1 when the host is quick, so five lets a long message
  succeed, or be given up at any point, as the build's 100 with 512 bytes.
  Three messages are one to be left behind, one to be spliced with it and one to
  see the consequence. `EnumPolls` is 3: an enumeration needs at least
  SET_ADDRESS, a GET_DESCRIPTOR and SET_CONFIGURATION, each in a pass of its own.
  The value matters: were an enumeration to fit in the two passes that lie
  between two connection tests of a waiting record, the record could be split over
  two sessions and be reported sent.
* `UsbRx`: buffers of two or three places and packets of up to two symbols, so that
  indices wrap, packets straddle the end and either buffer can be full or nearly;
  six symbols are two sessions with text before, between or after them, or a line
  longer than its buffer with erasures. `usb_rx_bytes` has a stream buffer of
  capacity three and cleanups of two passes: one session can overflow it,
  and none cannot. `usb_rx_served` has capacity two, small enough for a
  packet to fit in part with a byte to come after it, and only the symbols that
  sessions are made of. The host has at most `MaxWire` (2) packets under way.
* `CdcRead`: packets of up to two units over `PacketLen` 2, so that empty, short and
  full packets differ; four packets and three sessions are one session to leave a
  packet behind, one that begins with it and one after.
* `MainLoop`: a period of 3 with lines of 2, session steps of 4, polls and sleeps of 1
  lets every order of "due" and "late" happen. Packets hold one line and the stream
  buffer three, so that `PlainUnfed` is 3 + 2 + 1 + 4 = 10, exactly `Timeout`, and
  `LongestUnfed`, with a burst of three lines, is 6 + 1 + 4 = 11: both are
  reached, and the watchdog does reset a program that works through a burst. Five
  lines are a session, its burst and another session behind it.
  `MaxClock` bounds how late a session may make the block.
* `Cmd`: three lines and two polls are a setting, its change or a restart, and a
  reading; two texts of stdout let it fill up.
* `Parse`: each task has its alphabet and length in `MCParse`: four characters for
  names, five for numbers, eight for three values; a word of six bits overflows with two
  digits. The names are one, two and three letters, one of them the beginning of another.
* `TimerClock`: a reload of 9 and a window of 3 with a latency of 2; three wraps.
  `ClockAssumption` is what the code relies on: the flag is read within the
  window.
* `Device`: three causes of reset, two devices that may fail; a seed of words of four
  with all alignments and sizes to eight, so that both branches run, alone and
  mixed; the build's lamp sequences. The state is finite without further bounds.
* `Bridge`: eight bytes hold a DEBUG line, a hello and data behind it, each with a 0x16
  inside, or texts in their place. Records begin with a hello's type (`TypeFirst`).
* Deadlock is checked except where the modelled program stops: `cmd_answers` (the
  host has sent its lines), `parse_texts` (the function has returned),
  `timer_clock_reads` (the clock's bound) and `bridge_stream` (the bridge has ended).

### Fairness

* `WF(MainStep)` (`cdc_tx_live`, `cdc_read_order`): the processor runs. Nothing is
  assumed about interrupts or the host.
* `WF(DataInStage)`, as a premise of `RecordSettles`: the host collects a packet that
  stays offered. The property fails without it, since the handshake waits for good.
  Its other premise is one connection: a reset takes the record's transfer away, and
  the properties of `cdc_tx_delivery` are about what becomes of it.
* `WF(Loop)`, `WF(Restart)`, `WF(TlsLeave)`, `WF(TlsCleanup)` (`main_loop_watchdog`): the
  processor executes, the watchdog counts whatever the program does, and
  sessions end, which is an assumption on the host.
* `WF(Boots)`, `WF(Bite)` (`device_resets`): the program goes on, an unfed watchdog bites.
* `SF(Cleanup)` (`usb_rx_served`): a TLS session ends. The code has no timeout: it
  ends because the peer answers, or closes. Strong, because `Cleanup` is enabled
  between the steps of the handshake and not during them.

## Proofs

Every theorem is for all values of the constants that the module's assumption allows.
The assumptions are evaluated by each run, for the values of that run; they are the ranges of
the constants except where the text says more.

| module | theorem | states |
|---|---|---|
| `CdcTxProofs` | `Invariance`, `TypeCorrect` | `IInv` in every reachable state; `[]TypeOK` |
| | `PacketOwned` | `[]BufferOwned`: a packet in the controller belongs to the transfer the state machine waits for |
| | `NeverOverrun` | `[]TransferBounded`: what was sent and is being sent stays within the captured length |
| | `InFlightUntouched` | `NoOverwriteInFlight`: the endpoint buffer is not rewritten under the controller |
| | `Histories` | `[]HistoryInv`: who is being served, what the callers' buffers hold, what a transfer looks like |
| | `NoFreedMemory` | `[]FreedOnlyAfterReconnect` |
| | `InOrder`, `ConsoleBeginsOnce` | `[]ConsoleInOrder`, `[]ConsoleOnce` |
| | `RepeatedForConsole` | `[]RecordTwiceNeedsConsole` |
| | `Reported` | `[]ReportedIsDelivered`, if `EnumPolls >= 3` |
| `CdcReadProofs` | `TypeCorrect` | `[]TypeOK` |
| | `InOrder`, `LateOnes` | `[]WholeAndInOrder`, `[]LateOnlyFull` |
| | `Implements` | `OnePlace`: the state machine implements `PacketSlot` |
| `UsbRxProofs` | `Invariance`, `TypeCorrect` | `[]RxInv`, `[]TypeOK` |
| | `Fresh`, `GapsReported` | `[]FreshSession`, `[]GapReported`: what wolfSSL reads |
| | `InWholePackets`, `NothingMissing` | `[]WholePacketsInOrder`, `[]CommandsComplete`: what the interpreter gets |
| | `OnlyBursts` | `[]OverflowNeedsBurst`: when the stream buffer refuses a packet |
| | `LinesParsed` | `[]LinesAsParsed`: the lines executed are what is left of the lines typed |
| `CmdProofs` | `Invariance`, `TypeCorrect` | `[]CmdInv`, `[]TypeOK` |
| | `Acknowledges`, `Framed` | `[]SettingsAsAcknowledged`, `[]FrameAsSet` |
| | `Answered`, `KeepsOrder` | `[]AnsweredOnce`, `[]OnlyErrorsOvertake` |
| | `FoundWord`, `AutoWritten` | `[]FoundIsWord`, `[]AutoAsWritten`, for `Parse` |
| | `NumberWritten` | `[]NumberAsWritten`, for `Parse`: the number, or what an s32 holds of it |
| | `StaysInside`, `TextTypes` | `[]InsideText`, `[]TextTypeOK`, for `Parse`: no function moves behind the NUL; types |
| `MainLoopProofs` | `TypeCorrect` | `[]TypeOK` |
| | `Fed` | `[]FedInTime`: fed within a period and a drain (or a poll, or a burst), a sleep, the lines of a packet and a step of a session |
| | `OnlyBurstsReset` | `[]BiteNeedsBurst`, if that bound without the burst (`PlainUnfed`) is within the timeout |
| `TimerClockProofs` | `TypeCorrect` | `[]TypeOK` |
| | `Implements` | `ReadsTheClock`: `TimerClock` implements `MonotonicClock` |
| | `Monotone`, `Lasts` | `NeverBack`, `DelayLongEnough` |
| `DeviceProofs` | `TypeCorrect` | `[]TypeOK` of `Boot` |
| | `WatchdogNamed`, `RequestNamed` | `[]WatchdogReported`, `[]RequestReported`, for `Boot` |
| | `Exact` | `[]FilledExactly` for `Seed`: `OnlyTheOutput` and `EveryByte` |
| | `ImplementsBoot` | `DeviceSpec => Boot!Spec`: every step of the device is one of the start-up, or leaves it alone |
| | `DeviceWatchdogNamed`, `DeviceRequestNamed`, `DeviceExact` | the three above, for the composed device |
| | `LampTells` | `[]LampShows`: `ShowsConnection` of `Led`, in the composed device |
| `BridgeProofs` | `Invariance`, `TypeCorrect` | `[]BridgeInv`, `[]TypeOK` |
| | `HelloFirst`, `Intact` | `[]EngagesAtFirst`, `[]StreamIntact` |

### The arguments

* `CdcTx`, the endpoint. `IInv` is `TypeOK /\ BufferOwned /\ TransferBounded`, and none of the
  three is inductive alone. The type of `wr.act` needs the bound on `wr.act + wr.xfer`, as
  `TransferRun` adds the two; the bound needs to know that the driver is entered in
  WAIT only (`pc = "hw"` in `BufferOwned`), for that is when the chunk is the one the
  bound speaks of; `BufferOwned` needs the types. `InFlightUntouched` follows because
  only `WriteRunCopy` writes the buffer, and it requires a state other than WAIT.
* `CdcTx`, the histories. `HistoryInv` says who is being served (`CallersInv`: a message is
  open exactly while it is the one `usb_cdc_tx` is called with or the record wolfSSL waits
  to send, and a console call may come between the retries of a record), what is in the
  callers' buffers (`BuffersInv`: at the place of a console message that message
  or a later one, and in wolfSSL's the record that waits, as long as it waits)
  and that the endpoint buffer is the chunk at `wr.act` (`ShapeInv`). On it rest
  four invariants, one for each question:
  * `FreedInv`: over the first connection what is still to copy is not freed, and if it
    is wolfSSL's its record waits. Only a reset makes `EmbedSend` give up.
  * `OrderInv`: what is still to copy from stdout's buffer is of messages not reported sent,
    and a unit in the endpoint may follow what the session has shown (`Fits`).
  * `OnceInv`: a message whose first unit the session has seen and that still waits has its
    transfer in the state machine, with its own length, unless the console has called
    since (`Disturbed`). The retries therefore resume it.
  * `OwnedInv`: a transfer is of a message that was left behind, or the session ends with
    what was collected of it. `ReportedIsDelivered` needs that a record whose connection
    was lost is refused before there is a new one: `EmbedSend` tests the connection
    every two passes, and an enumeration takes `EnumPolls`, which is why the theorem has
    `EnumPolls >= 3` for a hypothesis. SET_ADDRESS, one GET_DESCRIPTOR
    and SET_CONFIGURATION are three passes, so that every host satisfies it.
* `CdcRead`. `ReadInv` says who has the packet at each step: `EndpointInv` ties the
  endpoint's bits to WAIT and to the present connection, `ReaderInv` the application's buffer
  to START, `OrderInv` has the packet in between younger than those handed on, and
  `SessionInv` lets a packet of an earlier session wait only until the first delivery of the
  present one. A step then maps to `TakeIn`, `HandOn`, `Lose` or a stutter of `PacketSlot`.
* `UsbRx`. `RxInv` speaks of two queues, without the indices: what was parsed with what the stream
  buffer holds behind it, and what wolfSSL has read with what the ring holds. The lemmas of the first
  section say what a write and a read of a circular buffer do to such a queue, for every
  size and every position of the indices. `WireInv`, `AccInv` and `ReadInv` have the packets
  under way and the two queues in order; `BurstInv` is the account behind
  `OverflowNeedsBurst`: each session costs a line of at least two symbols and lets in at most
  `AfterPolls` packets. `UsbRxAssumption` has a packet fit in the empty buffer (64 and 4096)
  and `AfterPolls * PacketLen >= 2` (10 and 64); without the second a session would take
  more out of the buffer than it lets in, and the account would not hold for
  several.
* `UsbRx`, the line editor. The code forgets what is erased; the reference looks at the whole
  text again for every line. `EditInv` says that the two agree: the line being
  assembled is the one the reference has so far, if that one is plain (`Plainly`, the
  premise of the property, which holds up to a position if it holds one further), and the
  lines executed are those that have ended. It is not inductive without `Balanced`: behind
  a character that stays, exactly as many are kept as characters exceed erasures there.
  From it follows that an erasure takes the last kept character and no other
  (`KeptErased`), and a character typed is behind all of them (`KeptTyped`). The reference
  picks the i-th of a set of positions; that a set has one, and which it is when the set
  grows at its end, is the first section's (`NthIs`, `NthGrows`).
* `Cmd`. `CmdInv` has the same statements for all places of the program that the
  properties make for `pc = "loop"`, since a RESET that waits for the watchdog answers and
  sets nothing any more. `AnswersInv` needs `TextsInv`: a line's text in stdout would
  be written out later, behind the answer of another, and there is none, since every
  handler's end is followed by a flush. `KeptInv` has what those lines printed with the host
  from the line's own step on, so that a RESET after it takes nothing of it away. `OrderInv` is about what
  the host has with what stdout still holds behind it, of which a full buffer
  moves a multiple of its size (`SpilledIs`).
* `Parse`. `MatchIsWord`: the comparison over the length of a name, with no character of a
  word behind it, is the comparison of the whole word; it needs that a table's names are made
  of such characters (`ParseAssumption`; those of `_CMD_TABLE` are letters), and that
  folding the case neither makes nor unmakes one (`FoldStays`). `FindInv` adds that no
  earlier entry was the word. For AUTO, `SaysIs` reads the description by positions
  from left to right: there is one place where the first byte may begin and,
  given it, one for the second; `AutoInv` says at each step that the position is there and
  the parameters are what was said so far. That positions exist at all is the
  well-foundedness of the numbers (`LeastIs`). For `parse_number`, `NumberInv` says that
  `tmp` is what an s32 holds of the value of the digits passed (`Wrap`): two s32 with the
  same remainder are the same (`CongruentIsEqual`), and multiplication by ten, addition
  of a digit and the sign keep the remainder. The value is a recursive function; that it
  exists for every number of digits is shown by the least number for which it would not
  (`ValueExists`), which is how an induction is written without the library's theorem.
* `MainLoop`. `FedInTime` is not inductive: what an unfed counter may be depends on the
  place in the pass and on the lines left to drain. `FedInv` gives a bound for each
  place; in the drain the lines left are those of a packet or of a burst, the bound is linear
  in them, and better for a pass whose block was not due when it began (`DrainBound`). What
  has been waited before the sleep depends on whether a burst came in (`Waited`).
  `OnlyBurstsReset` assumes `PlainUnfed <= Timeout`, and nothing of `LongestUnfed`. The build
  satisfies it, for a host that does not read as well: a packet of 64 bytes holds 32 lines at most,
  of about 100 ms each, or 12 of `HELP` at about 200 ms, so that two packets and the
  start of a session are below 10 s. A burst of hundreds of lines is beyond the 20 s: see
  `PipeliningSupported` above.
* `TimerClock`. `ReadingInv` says what the counter and the flag may be at each step of a
  reading: a counter read below the window has not wrapped since if the flag is
  down. From it `Corrected` lies between the time of the call and the present, which
  is the step of `MonotonicClock`'s `Return`. `CallerInv` adds what a delay has
  measured so far. `ClockAssumption` bounds the latency by the window.
* `Device`. For `Boot`, `CauseInv`: the backup register holds a request, and the flags the
  watchdog's, exactly as long as that has happened since the one or the other was cleared. For
  `Seed`, `FilledInv`: what is random is exactly the first `i` bytes, and `i` is at most
  the size. `Boot`'s theorems hold of the device by the refinement. Those of `Seed` do not
  follow so: a reset in the middle of a call is no step of `Seed`, and `DeviceFilled` takes
  `FilledInv` through it. For the lamp, `LampInv`: the copy that runs is the mask shifted
  by `Tick`, the ticks since it was taken, and each of the ticks shown since the last
  change is the bit of the mask at its distance back in the period (`Ago`). A change does
  not touch the copy but takes a new one in the same block, so that `Tick` begins at 0
  with it.
* `Bridge`. What a read passes on is a stretch of consecutive places up to its end
  (`ForwardIs`), which begins with the first byte 0x16 of the read unless TLS has started.
  Before that the bridge has forwarded nothing (`NothingBefore`) and passed over a 0x16
  only to show it (`NonePassed`, afterwards `NoneInFront`), and after it it has forwarded
  something, as long as it runs (`SomethingAfter`). That what engages it is the head of the
  handshake, unless the head was shown, follows from `TypeFirst`: a 0x16 inside a
  record is behind the type of the first one.

### What the proofs changed

`ConsoleInOrder` used to say that the console never goes back, and was checked for messages of
up to three units. The attempt to prove it for every length found the case of four: the
second chunk of a message that was given up, copied during the next call, holds
the end of the new message and behind it the tail of the old one. The
property now says what may come back, and `cdc_tx_delivery` has messages of four units.
In the same way the statement that a console message begins once, which was made of messages
that fit the endpoint, holds of all (`ConsoleOnce`). `UsbRxAssumption` got its
last two conditions on sizes, without which `CommandsComplete` and `OverflowNeedsBurst` are
false.

For the last three invariants the models were restated, with the same meaning. The mask of
`Led` was a number; bits as `(m \div 2^k) % 2` are out of the provers' reach, a set of
ticks is not. `Parse` had a width in bits, of which it only needs half the range. The
reference for lines was written with a filter over sequences and is now in terms of
positions and cardinalities; TLC found the two equal on all texts of up to seven symbols.

### Model-checked only

* The liveness properties (`ConsoleReturns`, `RecordSettles`, `StreamServed`, `Received`,
  `HangRecovers`, `CatchesUp`, `DeviceErrorsPass`): the proof system does not reach fairness.
* That the properties can fail, which the wrong versions of the operators show.
* The disagreements with the documents: that `AnswerArrives` and the definitions above
  are violated is shown by a behaviour, which TLC finds.

## Not modelled

* In `CdcTx`: zero-length messages (stdout is not flushed empty and wolfSSL does not
  send empty records), SET_CONFIGURATION(0), endpoint stall and halt, line coding.
  The state of the transfer request repeats the endpoint's bits, and is left
  out. After a reset the class instance has no endpoints; a test of the connection
  that succeeded just before and the load of the first endpoint are one step here.
* In `UsbRx`: `read_run` below the handler is one delivery per pass, see `CdcRead`.
  Text printed during a session belongs to `CdcTx`.
* In `CdcRead`: endpoint stall, the driver's refusal of a stalled endpoint, and the
  same pair of loads as in `CdcTx`.
* In `MainLoop` and `Cmd`: SPI and DMA registers; a transfer is a step or never
  returns. The macros of the SPI output driver (`HW_SPI_OE_ENABLE`,
  `HW_SPI_OE_DISABLE`) are empty for this board, so that power and output driver
  cannot disagree.
* `_write` returns one more than it was given (`tty.c:71`); what newlib makes of it is
  outside of the repository.
* `wd_disable`, `wd_set_timeout`, `uart1_set_state`, `timer3_init`, `tty_flush_usb_rx`:
  called by nobody.
* wolfSSL is external: it asks for any number of bytes, succeeds or fails.
* The UART side of the console, whose macros are empty in this build, and with it
  the UART driver: it is compiled and nothing calls it. `led_instant_sequence`,
  which nobody calls either.
* The bulk of `src/` by lines is vendored: CMSIS register headers, liboqs, and the USBX
  classes and host support this firmware does not compile or never enters. They are
  no part of the program's own logic. Of the firmware and bridge, the parts left
  out are straight-line set-up and the test programs.
* What the component table in `PROJECT.json` marks `not_modelled`, each with its
  reason.

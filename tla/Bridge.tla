------------------------------ MODULE Bridge ------------------------------
(***************************************************************************)
(* usb_tcp_bridge.py, between the device's serial port and the TLS server. *)
(*                                                                         *)
(* The device prints text, lines that begin with "DEBUG: ", and TLS        *)
(* records, all over one channel; a read of the bridge returns any number  *)
(* of the bytes that have arrived, wherever the messages begin and end.    *)
(* A byte is known by its place in the stream.                             *)
(***************************************************************************)
EXTENDS Integers, Sequences, SequencesExt, FiniteSetsExt

CONSTANTS
    Messages,  \* what the device sends: a set of sequences of bytes
    MaxBytes,  \* bound: bytes the device sends
    MaxDown    \* bound: bytes the server sends

(* Bytes: the type of a handshake record, the same value further on in the records,
   what else is in them, the two halves of the word the bridge looks for, and other
   text.                                                                   *)
Bytes == {"type", "0x16", "rec", "DEB", "UG:", "text"}

(* The two that are b'\x16' to the bridge. *)
Hellos == {"type", "0x16"}

ASSUME BridgeAssumption ==
    /\ Messages \subseteq Seq(Bytes)
    /\ MaxBytes \in Nat /\ MaxDown \in Nat

VARIABLES
    emitted,     \* the bytes the device has sent
    read,        \* how many of them the bridge has read
    tls_active,
    running,     \* main() has not returned
    forwarded,   \* what the server has received: places in emitted
    shown,       \* what the screen has shown: places in emitted
    down,        \* bytes the server has sent
    claimed,     \* bytes "forwarded to USB", as the bridge says
    written      \* bytes the serial port has taken

vars == <<emitted, read, tls_active, running, forwarded, shown, down, claimed, written>>

-----------------------------------------------------------------------------
Init ==
    /\ emitted = <<>> /\ read = 0
    /\ tls_active = FALSE /\ running = TRUE
    /\ forwarded = <<>> /\ shown = {}
    /\ down = 0 /\ claimed = 0 /\ written = 0

(* A TLS stream begins with the type of a handshake record. *)
TypeFirst(bytes) ==
    \A k \in DOMAIN bytes :
        bytes[k] \in {"0x16", "rec"} => \E j \in 1 .. k - 1 : bytes[j] = "type"

(* The device prints a text or sends a record. *)
Emit(m) ==
    /\ Len(emitted) + Len(m) <= MaxBytes
    /\ TypeFirst(emitted \o m)
    /\ emitted' = emitted \o m
    /\ UNCHANGED <<read, tls_active, running, forwarded, shown, down, claimed, written>>

Chunk(n) == [k \in 1 .. n |-> read + k]

HasDebug(chunk) ==
    \E k \in 1 .. Len(chunk) - 1 :
        emitted[chunk[k]] = "DEB" /\ emitted[chunk[k + 1]] = "UG:"

(* data[data.find(b'\x16'):], nothing if there is none *)
FromHello(chunk) ==
    LET hellos == {k \in DOMAIN chunk : emitted[chunk[k]] \in Hellos}
    IN  IF hellos = {} THEN <<>> ELSE SubSeq(chunk, Min(hellos), Len(chunk))

\* mutant: the hello is looked for at the beginning of a read only
ForwardStart(chunk) ==
    IF tls_active \/ emitted[chunk[1]] \in Hellos THEN chunk ELSE <<>>

\* mutant: the bridge is engaged again by every byte 0x16
ForwardHellos(chunk) == FromHello(chunk)

(* What goes to the server: all once TLS has started, before that what begins with
   a byte 0x16.                                                            *)
Forward(chunk) == IF tls_active THEN chunk ELSE FromHello(chunk)

(* A chunk with "DEBUG:" in it is printed, and nothing else is done with it. *)
ReadDebug(n) ==
    LET chunk == Chunk(n)
    IN  /\ running
        /\ HasDebug(chunk)
        /\ shown' = shown \cup Range(chunk)
        /\ read' = read + n
        /\ UNCHANGED <<emitted, tls_active, running, forwarded, down, claimed, written>>

ReadSerial(n) ==
    LET chunk == Chunk(n)
    IN  /\ running
        /\ ~HasDebug(chunk)
        /\ forwarded' = forwarded \o Forward(chunk)
        /\ tls_active' = (tls_active \/ Forward(chunk) # <<>>)
        /\ read' = read + n
        /\ UNCHANGED <<emitted, running, shown, down, claimed, written>>

\* mutant: the data is sent again after the exception
SocketFullAgain(n) ==
    LET chunk == Chunk(n)
    IN  /\ running
        /\ ~HasDebug(chunk) /\ Forward(chunk) # <<>>
        /\ \E k \in 0 .. Len(Forward(chunk)) - 1 :
              forwarded' = forwarded \o SubSeq(Forward(chunk), 1, k)
        /\ Len(forwarded) < MaxBytes
        /\ tls_active' = TRUE
        /\ UNCHANGED <<emitted, read, running, shown, down, claimed, written>>

(* sendall on a socket that does not block: the server's side is full, part of the
   data has gone, the exception ends the bridge.                           *)
SocketFull(n) ==
    LET chunk == Chunk(n)
    IN  /\ running
        /\ ~HasDebug(chunk) /\ Forward(chunk) # <<>>
        /\ \E k \in 0 .. Len(Forward(chunk)) - 1 :
              forwarded' = forwarded \o SubSeq(Forward(chunk), 1, k)
        /\ tls_active' = TRUE
        /\ read' = read + n
        /\ running' = FALSE
        /\ UNCHANGED <<emitted, shown, down, claimed, written>>

Read == \E n \in 1 .. Len(emitted) - read : ReadDebug(n) \/ ReadSerial(n) \/ SocketFull(n)

(* The server's data goes to the serial port.  The port was opened with a write
   timeout of 0: write returns at once, with what the driver had room for. *)
ServerSends(n) ==
    /\ running
    /\ down + n <= MaxDown
    /\ down' = down + n
    /\ claimed' = claimed + n
    /\ \E k \in 0 .. n : written' = written + k
    /\ UNCHANGED <<emitted, read, tls_active, running, forwarded, shown>>

ServerCloses ==
    /\ running
    /\ running' = FALSE
    /\ UNCHANGED <<emitted, read, tls_active, forwarded, shown, down, claimed, written>>

Next ==
    \/ \E m \in Messages : Emit(m)
    \/ Read
    \/ \E n \in 1 .. MaxDown : ServerSends(n)
    \/ ServerCloses

Spec == Init /\ [][Next]_vars

-----------------------------------------------------------------------------
TypeOK ==
    /\ emitted \in Seq(Bytes) /\ read \in 0 .. Len(emitted)
    /\ tls_active \in BOOLEAN /\ running \in BOOLEAN
    /\ Range(forwarded) \cup shown \subseteq 1 .. read
    /\ {down, claimed} \subseteq 0 .. MaxDown /\ written \in 0 .. down

(* The bridge passes over a byte 0x16 only in a read that went to the screen: it
   engages at the first other one, wherever the reads cut, and that is the head of
   the handshake unless the head itself went to the screen with a DEBUG text
   (usb_tcp_bridge.py:67-84).                                              *)
EngagesAtFirst ==
    /\ ~tls_active => \A k \in 1 .. read : emitted[k] \in Hellos => k \in shown
    /\ forwarded # <<>> =>
           LET first == forwarded[1]
           IN  /\ emitted[first] \in Hellos
               /\ \A k \in 1 .. first - 1 : emitted[k] \in Hellos => k \in shown
               /\ \/ emitted[first] = "type"
                  \/ \E k \in 1 .. first - 1 : emitted[k] = "type" /\ k \in shown

(* From the hello on the server gets what was read, once and in order, but for the
   reads that went to the screen (usb_tcp_bridge.py:61-84).                *)
StreamIntact ==
    (tls_active /\ running) =>
        /\ Range(forwarded) = (forwarded[1] .. read) \ shown
        /\ \A i, j \in DOMAIN forwarded : i < j => forwarded[i] < forwarded[j]

(* usb_tcp_bridge.py:78: "Check for TLS ClientHello (0x16) to engage bridge". *)
BeginsWithHello == forwarded # <<>> => emitted[forwarded[1]] = "type"

(* usb_tcp_bridge.py:74: "Forward everything once TLS has started". *)
EverythingForwarded ==
    (tls_active /\ running) =>
        \A k \in forwarded[1] .. read : k \in Range(forwarded)

(* usb_tcp_bridge.py:35: "ALL USB output will be printed to this screen." *)
AllShown == shown = 1 .. read

(* usb_tcp_bridge.py:101: the bridge says how many bytes were "forwarded to USB". *)
ClaimIsTrue == running => written = claimed
=============================================================================

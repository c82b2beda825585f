---------------------------- MODULE UsbRxProofs ----------------------------
(***************************************************************************)
(* Proofs about the receive path: what the command interpreter and wolfSSL *)
(* get of the bytes the host sent, for buffers and packets of any size.    *)
(*                                                                         *)
(* The invariant speaks of two queues: the bytes parsed with those in the  *)
(* stream buffer behind them, and the bytes wolfSSL has read with those in *)
(* the ring behind them.  The first section has what the proofs need of    *)
(* circular buffers.                                                       *)
(*                                                                         *)
(* The last part is about the line editor, which forgets what was erased,  *)
(* while its reference looks at the whole text: that the two agree rests   *)
(* on how many of the characters behind a kept one are kept themselves.    *)
(***************************************************************************)
EXTENDS UsbRx, SequenceTheorems, FiniteSetTheorems, TLAPS

-----------------------------------------------------------------------------
(* The place j after i. *)
Place(i, j, n) == (i + j) % n

(* A distance is below the size of the buffer. *)
LEMMA DistanceIs ==
    ASSUME NEW n \in Nat \ {0}, NEW w \in 0 .. n - 1, NEW r \in 0 .. n - 1
    PROVE  /\ Distance(w, r, n) \in 0 .. n - 1
           /\ Distance(w, r, n) = IF r <= w THEN w - r ELSE w - r + n
<1>1. w - r \in Int /\ 0 - n <= w - r /\ w - r < n
  OBVIOUS
<1>2. (w - r) % n = IF r <= w THEN w - r ELSE w - r + n
  BY <1>1, Z3
<1> QED
  BY <1>2 DEF Distance

(* An index that runs past the end goes on at the beginning. *)
LEMMA PlaceIs ==
    ASSUME NEW n \in Nat \ {0}, NEW i \in 0 .. n - 1, NEW j \in 0 .. n
    PROVE  /\ Place(i, j, n) \in 0 .. n - 1
           /\ Place(i, j, n) = IF i + j < n THEN i + j ELSE i + j - n
<1>1. i + j \in Int /\ 0 <= i + j /\ i + j < n + n
  OBVIOUS
<1>2. (i + j) % n = IF i + j < n THEN i + j ELSE i + j - n
  BY <1>1, Z3
<1> QED
  BY <1>2 DEF Place

(* The place j after i has the distance j from i. *)
LEMMA DistanceOfPlace ==
    ASSUME NEW n \in Nat \ {0}, NEW i \in 0 .. n - 1, NEW j \in 0 .. n - 1
    PROVE  Distance(Place(i, j, n), i, n) = j
<1>1. /\ Place(i, j, n) \in 0 .. n - 1
      /\ Place(i, j, n) = IF i + j < n THEN i + j ELSE i + j - n
  BY PlaceIs
<1> DEFINE w == Place(i, j, n)
<1>2. Distance(w, i, n) = IF i <= w THEN w - i ELSE w - i + n
  BY <1>1, DistanceIs
<1> HIDE DEF w
<1>3. w = IF i + j < n THEN i + j ELSE i + j - n
  BY <1>1 DEF w
<1>4. Distance(w, i, n) = j
  BY <1>2, <1>3
<1> QED
  BY <1>4 DEF w

(* What a write leaves in the places from i on. *)
LEMMA WrittenIs ==
    ASSUME NEW n \in Nat \ {0}, NEW i \in 0 .. n - 1, NEW S, NEW buf \in [0 .. n - 1 -> S],
           NEW p \in Seq(S), NEW k \in 0 .. Len(p)
    PROVE  /\ Written(buf, i, p, k, n) \in [0 .. n - 1 -> S]
           /\ \A j \in 0 .. n - 1 :
                  Written(buf, i, p, k, n)[Place(i, j, n)]
                      = IF j < k THEN p[j + 1] ELSE buf[Place(i, j, n)]
<1>1. ASSUME NEW j \in 0 .. n - 1
      PROVE  (IF Distance(j, i, n) < k THEN p[Distance(j, i, n) + 1] ELSE buf[j]) \in S
  <2>1. Distance(j, i, n) \in Nat
    BY DistanceIs
  <2>2. Distance(j, i, n) < k => Distance(j, i, n) + 1 \in 1 .. Len(p)
    BY <2>1, LenProperties
  <2> QED
    BY <2>2, ElementOfSeq
<1>2. ASSUME NEW j \in 0 .. n - 1
      PROVE  Written(buf, i, p, k, n)[Place(i, j, n)] = IF j < k THEN p[j + 1] ELSE buf[Place(i, j, n)]
  <2>1. Place(i, j, n) \in 0 .. n - 1 /\ Distance(Place(i, j, n), i, n) = j
    BY PlaceIs, DistanceOfPlace
  <2> DEFINE x == Place(i, j, n)
  <2>2. Written(buf, i, p, k, n)[x]
            = IF Distance(x, i, n) < k THEN p[Distance(x, i, n) + 1] ELSE buf[x]
    <3> HIDE DEF x
    <3> QED
      BY <2>1 DEF Written, x
  <2> QED
    BY <2>1, <2>2
<1>3. Written(buf, i, p, k, n) \in [0 .. n - 1 -> S]
  BY <1>1 DEF Written
<1> QED
  BY <1>2, <1>3

(* Behind the f places that are in use, at a distance of f from the read index, a
   write of k fills the next ones; o is the distance of the first place in use.   *)
LEMMA QueuePut ==
    ASSUME NEW n \in Nat \ {0}, NEW rd \in 0 .. n - 1, NEW wr \in 0 .. n - 1, NEW o \in 0 .. 1,
           NEW S, NEW buf \in [0 .. n - 1 -> S],
           NEW p \in Seq(S), NEW k \in 0 .. Len(p),
           Distance(wr, rd, n) + k <= n - 1
    PROVE  /\ Written(buf, Place(wr, o, n), p, k, n) \in [0 .. n - 1 -> S]
           /\ \A j \in 0 .. Distance(wr, rd, n) - 1 :
                  Written(buf, Place(wr, o, n), p, k, n)[Place(rd, o + j, n)]
                      = buf[Place(rd, o + j, n)]
           /\ \A j \in 0 .. k - 1 :
                  Written(buf, Place(wr, o, n), p, k, n)[Place(rd, o + (Distance(wr, rd, n) + j), n)]
                      = p[j + 1]
           /\ Place(wr, k, n) \in 0 .. n - 1
           /\ Distance(Place(wr, k, n), rd, n) = Distance(wr, rd, n) + k
<1> DEFINE f == Distance(wr, rd, n)
           i == Place(wr, o, n)
           b == Written(buf, i, p, k, n)
<1>1. f \in 0 .. n - 1 /\ f = IF rd <= wr THEN wr - rd ELSE wr - rd + n
  BY DistanceIs
<1>0. k \in Nat
  BY LenProperties
<1>2. i \in 0 .. n - 1 /\ i = IF wr + o < n THEN wr + o ELSE wr + o - n
  <2>1. o \in 0 .. n
    OBVIOUS
  <2> QED
    BY <2>1, PlaceIs
<1>3. k \in 0 .. n - 1 /\ k \in 0 .. n /\ f + k \in 0 .. n - 1 /\ f + k \in 0 .. n
  <2>1. n \in Nat /\ f \in Nat
    BY <1>1
  <2>2. f + k <= n - 1
    OBVIOUS
  <2> HIDE DEF f
  <2> QED
    BY ONLY <1>0, <2>1, <2>2
<1> HIDE DEF f, i
<1>4. /\ b \in [0 .. n - 1 -> S]
      /\ \A j \in 0 .. n - 1 : b[Place(i, j, n)] = IF j < k THEN p[j + 1] ELSE buf[Place(i, j, n)]
  BY <1>2, WrittenIs, SMTT(30)
<1> HIDE DEF b
<1>5. ASSUME NEW j \in 0 .. k - 1
      PROVE  b[Place(rd, o + (f + j), n)] = p[j + 1]
  <2>1. j \in 0 .. n - 1 /\ j \in 0 .. n /\ o + (f + j) \in 0 .. n
    BY <1>1, <1>3
  <2>2. Place(i, j, n) = IF i + j < n THEN i + j ELSE i + j - n
    BY <1>2, <2>1, PlaceIs
  <2>3. Place(rd, o + (f + j), n) = IF rd + (o + (f + j)) < n THEN rd + (o + (f + j))
                                   ELSE rd + (o + (f + j)) - n
    BY <2>1, PlaceIs
  <2>4. Place(rd, o + (f + j), n) = Place(i, j, n)
    BY <1>1, <1>2, <2>1, <2>2, <2>3
  <2> QED
    BY <1>4, <2>1, <2>4
<1>6. ASSUME NEW j \in 0 .. f - 1
      PROVE  b[Place(rd, o + j, n)] = buf[Place(rd, o + j, n)]
  <2> DEFINE d == n - f + j
  <2>1. d \in k .. n - 1 /\ o + j \in 0 .. n /\ d \in 0 .. n - 1 /\ d \in 0 .. n
    BY <1>1, <1>3
  <2>0. d = n - f + j /\ j \in Nat /\ j < f /\ o \in {0, 1} /\ n \in Nat
        /\ rd \in 0 .. n - 1 /\ wr \in 0 .. n - 1
    BY <1>1
  <2> HIDE DEF d
  <2>2. Place(i, d, n) = IF i + d < n THEN i + d ELSE i + d - n
    BY <1>2, <2>1, PlaceIs
  <2>3. Place(rd, o + j, n) = IF rd + (o + j) < n THEN rd + (o + j) ELSE rd + (o + j) - n
    BY <2>1, PlaceIs
  <2>4. Place(rd, o + j, n) = Place(i, d, n)
    <3>1. CASE rd <= wr
      <4>1. f = wr - rd
        BY <1>1, <3>1
      <4> QED
        BY ONLY <1>2, <2>0, <2>1, <2>2, <2>3, <3>1, <4>1
    <3>2. CASE ~(rd <= wr)
      <4>1. f = wr - rd + n
        BY <1>1, <3>2
      <4> QED
        BY ONLY <1>2, <2>0, <2>1, <2>2, <2>3, <3>2, <4>1
    <3> QED
      BY <3>1, <3>2
  <2>5. ~(d < k)
    BY <1>0, <2>0, <2>1
  <2> QED
    BY <1>4, <2>1, <2>4, <2>5
<1>7. Place(wr, k, n) \in 0 .. n - 1 /\ Distance(Place(wr, k, n), rd, n) = f + k
  <2>1. Place(wr, k, n) \in 0 .. n - 1 /\ Place(wr, k, n) = IF wr + k < n THEN wr + k ELSE wr + k - n
    BY <1>3, PlaceIs
  <2>2. Place(rd, f + k, n) = IF rd + (f + k) < n THEN rd + (f + k) ELSE rd + (f + k) - n
    BY <1>3, PlaceIs
  <2>3. Place(wr, k, n) = Place(rd, f + k, n)
    BY <1>1, <1>3, <2>1, <2>2
  <2> QED
    BY <1>3, <2>1, <2>3, DistanceOfPlace
<1> QED
  BY <1>4, <1>5, <1>6, <1>7 DEF f, i, b

(* Taking k of the f places in use leaves the others as they are. *)
LEMMA QueueTake ==
    ASSUME NEW n \in Nat \ {0}, NEW rd \in 0 .. n - 1, NEW wr \in 0 .. n - 1,
           NEW k \in 0 .. Distance(wr, rd, n)
    PROVE  /\ Place(rd, k, n) \in 0 .. n - 1
           /\ Distance(wr, Place(rd, k, n), n) = Distance(wr, rd, n) - k
           /\ \A j \in 0 .. Distance(wr, rd, n) - k :
                  Place(Place(rd, k, n), j, n) = Place(rd, k + j, n)
<1> DEFINE f == Distance(wr, rd, n)
           r == Place(rd, k, n)
<1>1. f \in 0 .. n - 1 /\ f = IF rd <= wr THEN wr - rd ELSE wr - rd + n
  BY DistanceIs
<1>2. r \in 0 .. n - 1 /\ r = IF rd + k < n THEN rd + k ELSE rd + k - n
  <2>1. k \in 0 .. n
    BY <1>1
  <2> QED
    BY <2>1, PlaceIs
<1>3. Distance(wr, r, n) = IF r <= wr THEN wr - r ELSE wr - r + n
  BY <1>2, DistanceIs
<1>4. k \in 0 .. f
  OBVIOUS
<1> HIDE DEF f, r
<1>5. Distance(wr, r, n) = f - k
  BY <1>1, <1>2, <1>3, <1>4
<1>6. ASSUME NEW j \in 0 .. f - k
      PROVE  Place(r, j, n) = Place(rd, k + j, n)
  <2>1. j \in 0 .. n /\ k + j \in 0 .. n
    BY <1>1, <1>4
  <2>2. Place(r, j, n) = IF r + j < n THEN r + j ELSE r + j - n
    BY <1>2, <2>1, PlaceIs
  <2>3. Place(rd, k + j, n) = IF rd + (k + j) < n THEN rd + (k + j) ELSE rd + (k + j) - n
    BY <2>1, PlaceIs
  <2> QED
    BY <1>2, <1>4, <2>1, <2>2, <2>3
<1> QED
  BY <1>2, <1>5, <1>6 DEF f, r

-----------------------------------------------------------------------------
(* The number of the next byte that the stack will deliver. *)
NextNum == IF wire = <<>> THEN sent + 1 ELSE wire[1][1].num

(* The queue of the command interpreter: its length, and its k-th byte. *)
AccLen == Len(parsed) + StreamFill
Acc(k) == IF k <= Len(parsed) THEN parsed[k]
          ELSE stream.buf[(stream.rd + (k - Len(parsed))) % StreamSize]

(* The queue of wolfSSL, in this session. *)
ReadLen == Len(got) + RingFill
Read(k) == IF k <= Len(got) THEN got[k]
           ELSE ring.buf[(ring.tail + (k - Len(got) - 1)) % RingSize]

InQueue  == [k \in 1 .. AccLen |-> Acc(k)]
TlsQueue == [k \in 1 .. ReadLen |-> Read(k)]

(* The packets under way are whole, and follow each other without a gap. *)
WireInv ==
    /\ \A p \in 1 .. Len(wire) :
           /\ Len(wire[p]) \in 1 .. PacketLen
           /\ "first" \in wire[p][1].edge /\ "last" \in wire[p][Len(wire[p])].edge
           /\ \A k \in 1 .. Len(wire[p]) : wire[p][k].num = wire[p][1].num + (k - 1)
    /\ \A p, q \in 1 .. Len(wire) :
           p < q => wire[p][1].num + Len(wire[p]) <= wire[q][1].num
    /\ \A p \in 1 .. Len(wire) - 1 :
           wire[p][1].num + Len(wire[p]) = wire[p + 1][1].num
    /\ wire # <<>> => wire[Len(wire)][1].num + Len(wire[Len(wire)]) = sent + 1

(* The interpreter's queue holds delivered packets, the last of them to its end; until
   the first session, all of them.                                         *)
AccInv ==
    /\ \A k \in 1 .. AccLen : k <= InQueue[k].num /\ InQueue[k].num < NextNum
    /\ AccLen > 0 => "last" \in InQueue[AccLen].edge
    /\ \A k \in 1 .. AccLen - 1 :
           /\ InQueue[k].num < InQueue[k + 1].num
           /\ InQueue[k + 1].num # InQueue[k].num + 1 =>
                  "last" \in InQueue[k].edge /\ "first" \in InQueue[k + 1].edge
    /\ session = 0 => AccLen = NextNum - 1 /\ \A k \in 1 .. AccLen : InQueue[k].num = k

(* While wolfSSL reads, its queue is of this session, and what is missing in it has
   been counted or reported.                                               *)
ReadInv ==
    /\ pc = "setup" => got = <<>>
    /\ pc = "connect" =>
           /\ \A k \in 1 .. ReadLen : TlsQueue[k].session = session /\ TlsQueue[k].num < NextNum
           /\ \A k \in 1 .. ReadLen - 1 :
                  /\ TlsQueue[k].num < TlsQueue[k + 1].num
                  /\ TlsQueue[k + 1].num # TlsQueue[k].num + 1 => reported \/ ring.overflow > 0
           /\ ReadLen > 0 =>
                  TlsQueue[ReadLen].num + 1 = NextNum \/ reported \/ ring.overflow > 0

(* What the stream buffer may hold when b sessions have begun in this drain. *)
Room(b) == PacketLen + 1 + b * (AfterPolls * PacketLen - 2)

(* Every session costs a line of two symbols, of which at most one was parsed before
   the drain began, and lets in what its last passes deliver.              *)
BurstInv ==
    /\ session + Len(line) <= Len(parsed)
    /\ burst = 0 => pc \in {"drain", "poll"} /\ StreamFill <= PacketLen
    /\ pc = "drain" => StreamFill + (IF line = <<>> THEN 0 ELSE 1) <= Room(burst)
    /\ pc = "poll" => StreamFill = 0
    /\ pc \in {"setup", "connect", "flush"} =>
           line = <<>> /\ StreamFill + AfterPolls * PacketLen <= Room(burst)
    /\ pc = "after" =>
           line = <<>> /\ polls <= AfterPolls /\ StreamFill + polls * PacketLen <= Room(burst)
    /\ lost => Room(session) > StreamSize - 1

RxInv ==
    /\ TypeOK /\ WireInv /\ AccInv /\ ReadInv /\ BurstInv
    /\ FreshSession /\ GapReported

(* The queues, element by element. *)
LEMMA QueuesAre ==
    /\ \A k \in 1 .. AccLen : InQueue[k] = Acc(k)
    /\ \A k \in 1 .. AccLen' : InQueue'[k] = Acc(k)'
    /\ \A k \in 1 .. ReadLen : TlsQueue[k] = Read(k)
    /\ \A k \in 1 .. ReadLen' : TlsQueue'[k] = Read(k)'
  BY DEF InQueue, TlsQueue

-----------------------------------------------------------------------------
(* The parameters. *)
LEMMA ConstantFacts ==
    /\ PacketLen \in Nat \ {0} /\ StreamSize \in Nat \ {0, 1} /\ LineSize \in Nat \ {0, 1}
    /\ RingSize \in Nat \ {0, 1} /\ FlushPolls \in Nat /\ AfterPolls \in Nat
    /\ MaxBytes \in Nat \ {0} /\ PacketLen < StreamSize /\ AfterPolls * PacketLen >= 2
    /\ StreamSize \in Nat \ {0} /\ RingSize \in Nat \ {0}
    /\ Input \subseteq Symbols
  BY UsbRxAssumption DEF Symbols

(* The types, in groups that steps change together. *)
WireType   == wire \in Seq(Seq(Byte)) /\ sent \in 0 .. MaxBytes
StreamType == /\ stream \in [buf : [0 .. StreamSize - 1 -> Byte],
                             wr : 0 .. StreamSize - 1, rd : 0 .. StreamSize - 1]
              /\ lost \in BOOLEAN
RingType   == ring \in [buf : [0 .. RingSize - 1 -> TlsByte], head : 0 .. RingSize - 1,
                        tail : 0 .. RingSize - 1, overflow : Nat]
LineType   == /\ line \in Seq(Symbols \ {"nl", "bs"}) /\ Len(line) < LineSize
              /\ parsed \in Seq(Byte) /\ executed \in Seq(Seq(Symbols))
PlaceType  == /\ tls_active = (pc \in {"setup", "connect", "flush"})
              /\ pc \in {"drain", "poll", "setup", "connect", "flush", "after"}
              /\ polls \in Nat
TlsType    == /\ session \in Nat /\ burst \in 0 .. session
              /\ got \in Seq(TlsByte) /\ reported \in BOOLEAN

(* The groups make up the types, now *)
LEMMA TypesAre ==
    TypeOK <=> WireType /\ StreamType /\ RingType /\ LineType /\ PlaceType /\ TlsType
  BY Zenon DEF TypeOK, WireType, StreamType, RingType, LineType, PlaceType, TlsType

(* and after a step. *)
LEMMA TypesAreNext ==
    TypeOK' <=> WireType' /\ StreamType' /\ RingType' /\ LineType' /\ PlaceType' /\ TlsType'
  BY Zenon DEF TypeOK, WireType, StreamType, RingType, LineType, PlaceType, TlsType

(* A sequence is empty when its length is 0. *)
LEMMA EmptyIs ==
    ASSUME NEW S, NEW s \in Seq(S)
    PROVE  Len(s) \in Nat /\ (s = <<>> <=> Len(s) = 0)
<1>1. Len(s) \in Nat /\ Len(<<>>) = 0
  BY LenProperties, EmptySeq
<1>2. s # <<>> => Len(s) \in Nat \ {0}
  BY EmptySeq
<1> QED
  BY <1>1, <1>2

(* The packets under way, one by one. *)
LEMMA WireIs ==
    ASSUME WireType
    PROVE  /\ Len(wire) \in Nat
           /\ wire # <<>> => Len(wire) >= 1
           /\ \A p \in 1 .. Len(wire) :
                  /\ wire[p] \in Seq(Byte) /\ Len(wire[p]) \in Nat
                  /\ \A k \in 1 .. Len(wire[p]) : wire[p][k].num \in 1 .. MaxBytes
<1>1. wire \in Seq(Seq(Byte)) /\ Len(wire) \in Nat
  BY LenProperties DEF WireType
<1>2. wire # <<>> => Len(wire) >= 1
  BY <1>1, EmptySeq
<1>3. ASSUME NEW p \in 1 .. Len(wire)
      PROVE  wire[p] \in Seq(Byte) /\ Len(wire[p]) \in Nat
  BY <1>1, ElementOfSeq, LenProperties
<1>4. ASSUME NEW p \in 1 .. Len(wire), NEW k \in 1 .. Len(wire[p])
      PROVE  wire[p][k].num \in 1 .. MaxBytes
  <2>1. wire[p][k] \in Byte
    BY <1>3, ElementOfSeq
  <2> QED
    BY <2>1 DEF Byte
<1> QED
  BY <1>1, <1>2, <1>3, <1>4

(* The next byte to be delivered was sent, or will be the next one sent. *)
LEMMA NextNumIs ==
    ASSUME WireType, WireInv
    PROVE  NextNum \in Nat /\ NextNum <= sent + 1
<1>1. CASE wire = <<>>
  BY <1>1 DEF NextNum, WireType
<1>2. CASE wire # <<>>
  <2>1. /\ Len(wire) \in Nat /\ Len(wire) >= 1
        /\ \A p \in 1 .. Len(wire) : wire[p][1].num \in Nat /\ Len(wire[p]) \in Nat
    BY <1>2, WireIs, ConstantFacts DEF WireInv
  <2>2. ASSUME NEW e \in 1 .. Len(wire)
        PROVE  wire[1][1].num <= wire[e][1].num
    <3>1. 1 \in 1 .. Len(wire)
      BY <2>1
    <3>2. wire[1][1].num \in Nat /\ Len(wire[1]) \in Nat /\ wire[e][1].num \in Nat
      BY ONLY <2>1, <3>1, e \in 1 .. Len(wire)
    <3>3. CASE e = 1
      BY <3>2, <3>3
    <3>4. CASE e # 1
      <4>1. 1 < e
        BY <2>1, <3>4
      <4>2. wire[1][1].num + Len(wire[1]) <= wire[e][1].num
        BY <3>1, <4>1 DEF WireInv
      <4> QED
        BY <3>2, <4>2
    <3> QED
      BY <3>3, <3>4
  <2>3. wire[Len(wire)][1].num <= sent + 1
    BY <1>2, <2>1 DEF WireInv, WireType
  <2>4. NextNum = wire[1][1].num
    BY <1>2 DEF NextNum
  <2>5. /\ wire[1][1].num \in Nat /\ wire[Len(wire)][1].num \in Nat
        /\ sent + 1 \in Nat
    BY <2>1, ConstantFacts DEF WireType
  <2>6. wire[1][1].num <= wire[Len(wire)][1].num
    BY <2>1, <2>2
  <2> QED
    BY ONLY <2>3, <2>4, <2>5, <2>6
<1> QED
  BY <1>1, <1>2

(* A packet of the host, as HostSend puts it under way. *)
Sending(syms) == [k \in 1 .. Len(syms) |->
                     [sym |-> syms[k], num |-> sent + k, tls |-> tls_active,
                      edge |-> (IF k = 1 THEN {"first"} ELSE {}) \cup
                               (IF k = Len(syms) THEN {"last"} ELSE {})]]

(* A packet of the host: its bytes are numbered, and its ends are marked. *)
LEMMA SendingIs ==
    ASSUME WireType, PlaceType, NEW syms \in Packets, sent + Len(syms) <= MaxBytes
    PROVE  /\ Len(syms) \in 1 .. PacketLen
           /\ Sending(syms) \in Seq(Byte) /\ Len(Sending(syms)) = Len(syms)
           /\ "first" \in Sending(syms)[1].edge /\ "last" \in Sending(syms)[Len(syms)].edge
           /\ \A k \in 1 .. Len(syms) : Sending(syms)[k].num = sent + k
<1>1. PICK n \in 1 .. PacketLen : syms \in [1 .. n -> Input]
  BY DEF Packets
<1>2. syms \in Seq(Input) /\ Len(syms) = n /\ n \in Nat /\ n >= 1
  <2>1. n \in Nat /\ n >= 1
    BY ConstantFacts
  <2>2. syms \in Seq(Input)
    BY <1>1, <2>1, SeqDef
  <2>3. DOMAIN syms = 1 .. n /\ DOMAIN syms = 1 .. Len(syms) /\ Len(syms) \in Nat
    BY <1>1, <2>2, LenProperties
  <2> QED
    BY <2>1, <2>2, <2>3
<1>3. tls_active \in BOOLEAN
  <2>1. tls_active = (pc \in {"setup", "connect", "flush"})
    BY DEF PlaceType
  <2> QED
    BY <2>1
<1> DEFINE edge(k) == (IF k = 1 THEN {"first"} ELSE {}) \cup
                      (IF k = Len(syms) THEN {"last"} ELSE {})
           b(k) == [sym |-> syms[k], num |-> sent + k, tls |-> tls_active, edge |-> edge(k)]
<1>4. ASSUME NEW k \in 1 .. n
      PROVE  b(k) \in Byte
  <2>1. syms[k] \in Symbols /\ sent + k \in 1 .. MaxBytes /\ edge(k) \in SUBSET {"first", "last"}
    BY <1>1, <1>2, ConstantFacts DEF WireType
  <2> HIDE DEF edge
  <2> QED
    BY <1>3, <2>1, Zenon DEF Byte
<1>5. Sending(syms) = [k \in 1 .. n |-> b(k)]
  BY <1>2 DEF Sending
<1>6. Sending(syms) \in [1 .. n -> Byte]
  <2> HIDE DEF b
  <2> QED
    BY <1>4, <1>5
<1>7. Sending(syms) \in Seq(Byte)
  BY <1>2, <1>6, SeqDef
<1>8. Len(Sending(syms)) = n
  <2>1. DOMAIN Sending(syms) = 1 .. n /\ DOMAIN Sending(syms) = 1 .. Len(Sending(syms))
        /\ Len(Sending(syms)) \in Nat
    BY <1>6, <1>7, LenProperties
  <2> QED
    BY <1>2, <2>1
<1>9. \A k \in 1 .. n : Sending(syms)[k].num = sent + k /\ Sending(syms)[k].edge = edge(k)
  BY <1>5
<1> QED
  BY <1>2, <1>7, <1>8, <1>9

(* Sending adds a packet behind the others: what comes next stays the same. *)
LEMMA SendKeeps ==
    ASSUME WireType, PlaceType, WireInv, NEW syms \in Packets, HostSend(syms)
    PROVE  WireType' /\ WireInv' /\ NextNum' = NextNum
<1> DEFINE n == Len(wire)
           p == Sending(syms)
           m == Len(syms)
<1>1. sent + m <= MaxBytes /\ wire' = Append(wire, p) /\ sent' = sent + m
  BY DEF HostSend, Sending
<1>2. /\ m \in 1 .. PacketLen /\ p \in Seq(Byte) /\ Len(p) = m
      /\ "first" \in p[1].edge /\ "last" \in p[m].edge
      /\ \A k \in 1 .. m : p[k].num = sent + k
  BY <1>1, SendingIs
<1>3. wire \in Seq(Seq(Byte)) /\ sent \in Nat /\ n \in Nat
  BY LenProperties DEF WireType
<1>4. /\ wire' \in Seq(Seq(Byte)) /\ Len(wire') = n + 1
      /\ \A k \in 1 .. n : wire'[k] = wire[k]
      /\ wire'[n + 1] = p
  BY <1>1, <1>2, <1>3, AppendProperties
<1> HIDE DEF n, p, m
<1>5. m \in Nat /\ m >= 1 /\ m <= PacketLen
  BY <1>2, ConstantFacts
<1>6. WireType'
  BY <1>1, <1>3, <1>4, <1>5, ConstantFacts DEF WireType
<1>7. \A q \in 1 .. n : wire[q][1].num \in Nat /\ Len(wire[q]) \in Nat /\ Len(wire[q]) >= 1
  BY WireIs, ConstantFacts DEF WireInv, n
<1>8. \A q \in 1 .. n : wire[q][1].num + Len(wire[q]) <= sent + 1
  <2> SUFFICES ASSUME NEW q \in 1 .. n PROVE wire[q][1].num + Len(wire[q]) <= sent + 1
    OBVIOUS
  <2>1. n \in 1 .. n /\ wire[n][1].num + Len(wire[n]) = sent + 1
    <3>1. wire # <<>> /\ n \in 1 .. n
      <4>1. n # 0 /\ n \in 1 .. n
        BY <1>3
      <4> QED
        BY <1>3, <4>1, EmptyIs DEF n
    <3> QED
      BY <3>1 DEF WireInv, n
  <2>2. CASE q = n
    BY <1>3, <2>1, <2>2
  <2>3. CASE q # n
    <3>1. q < n
      BY <1>3, <2>3
    <3>2. wire[q][1].num + Len(wire[q]) <= wire[n][1].num
      BY <2>1, <3>1 DEF WireInv, n
    <3>3. /\ wire[q][1].num \in Nat /\ Len(wire[q]) \in Nat
          /\ wire[n][1].num \in Nat /\ Len(wire[n]) \in Nat
      BY <1>7, <2>1
    <3> QED
      <4> DEFINE x == wire[q][1].num + Len(wire[q])
                 y == wire[n][1].num
                 z == Len(wire[n])
      <4>1. x \in Nat /\ y \in Nat /\ z \in Nat /\ x <= y /\ y + z = sent + 1
        BY <2>1, <3>2, <3>3
      <4> HIDE DEF x, y, z
      <4>2. x <= sent + 1
        BY ONLY <1>3, <4>1
      <4> QED
        BY <4>2 DEF x
  <2> QED
    BY <2>2, <2>3
<1>9. wire' # <<>>
  BY <1>3, <1>4, EmptySeq
<1>10. /\ p[1].num = sent + 1 /\ p[1].num + m = sent + m + 1
       /\ \A k \in 1 .. m : p[k].num = p[1].num + (k - 1)
  <2>1. p[1].num = sent + 1
    BY <1>2, <1>5
  <2> QED
    BY <1>2, <1>3, <1>5, <2>1
<1>11. WireInv'
  <2>1. ASSUME NEW q \in 1 .. n + 1
        PROVE  /\ Len(wire'[q]) \in 1 .. PacketLen
               /\ "first" \in wire'[q][1].edge /\ "last" \in wire'[q][Len(wire'[q])].edge
               /\ \A k \in 1 .. Len(wire'[q]) : wire'[q][k].num = wire'[q][1].num + (k - 1)
    <3>1. CASE q \in 1 .. n
      BY <1>4, <3>1 DEF WireInv, n
    <3>2. CASE q = n + 1
      <4>1. wire'[q] = p
        BY <1>4, <3>2
      <4> QED
        BY <1>2, <1>10, <4>1
    <3> QED
      BY <1>3, <3>1, <3>2
  <2>2. ASSUME NEW q \in 1 .. n + 1, NEW r \in 1 .. n + 1, q < r
        PROVE  wire'[q][1].num + Len(wire'[q]) <= wire'[r][1].num
    <3>1. CASE r \in 1 .. n
      <4>1. q \in 1 .. n
        BY <1>3, <2>2, <3>1
      <4> QED
        BY <1>4, <2>2, <3>1, <4>1 DEF WireInv, n
    <3>2. CASE r = n + 1
      <4>1. q \in 1 .. n /\ wire'[q] = wire[q] /\ wire'[r] = p
        BY <1>3, <1>4, <2>2, <3>2
      <4> QED
        BY <1>8, <1>10, <4>1
    <3> QED
      BY <1>3, <3>1, <3>2
  <2>3. ASSUME NEW q \in 1 .. n
        PROVE  wire'[q][1].num + Len(wire'[q]) = wire'[q + 1][1].num
    <3>1. CASE q = n
      <4>1. wire # <<>>
        BY <1>3, <3>1, EmptySeq DEF n
      <4>2. wire[n][1].num + Len(wire[n]) = sent + 1
        BY <4>1 DEF WireInv, n
      <4> QED
        BY <1>4, <1>10, <3>1, <4>2
    <3>2. CASE q # n
      <4>1. q \in 1 .. n - 1 /\ q + 1 \in 1 .. n
        BY <1>3, <3>2
      <4>2. wire[q][1].num + Len(wire[q]) = wire[q + 1][1].num
        BY <4>1 DEF WireInv, n
      <4> QED
        BY <1>4, <4>1, <4>2
    <3> QED
      BY <3>1, <3>2
  <2>4. wire'[n + 1][1].num + Len(wire'[n + 1]) = sent' + 1
    BY <1>1, <1>2, <1>4, <1>10
  <2>5. Len(wire') = n + 1 /\ Len(wire') - 1 = n
    BY <1>3, <1>4
  <2> QED
    BY <2>1, <2>2, <2>3, <2>4, <2>5 DEF WireInv
<1>12. NextNum' = NextNum
  <2>1. CASE wire = <<>>
    <3>1. n = 0
      BY <2>1, EmptySeq DEF n
    <3> QED
      BY <1>4, <1>9, <1>10, <2>1, <3>1 DEF NextNum
  <2>2. CASE wire # <<>>
    <3>1. 1 \in 1 .. n
      BY <1>3, <2>2, EmptySeq DEF n
    <3> QED
      BY <1>4, <1>9, <2>2, <3>1 DEF NextNum
  <2> QED
    BY <2>1, <2>2
<1> QED
  BY <1>6, <1>11, <1>12

(* Delivering takes the first packet off, whole. *)
LEMMA DeliveryKeeps ==
    ASSUME WireType, WireInv, wire # <<>>, wire' = Tail(wire), sent' = sent
    PROVE  /\ WireType' /\ WireInv'
           /\ Head(wire) \in Seq(Byte) /\ Len(Head(wire)) \in 1 .. PacketLen
           /\ "first" \in Head(wire)[1].edge /\ "last" \in Head(wire)[Len(Head(wire))].edge
           /\ \A k \in 1 .. Len(Head(wire)) : Head(wire)[k].num = NextNum + (k - 1)
           /\ NextNum' = NextNum + Len(Head(wire))
<1> DEFINE n == Len(wire)
<1>1. wire \in Seq(Seq(Byte)) /\ sent \in Nat /\ n \in Nat /\ n >= 1
  BY LenProperties, EmptySeq DEF WireType
<1>2. Head(wire) = wire[1]
  BY <1>1
<1>3. /\ wire' \in Seq(Seq(Byte)) /\ Len(wire') = n - 1
      /\ \A k \in 1 .. n - 1 : wire'[k] = wire[k + 1]
  BY <1>1, HeadTailProperties
<1> HIDE DEF n
<1>4. WireType'
  BY <1>3 DEF WireType
<1>5. 1 \in 1 .. n
  BY <1>1
<1>6. /\ wire[1] \in Seq(Byte) /\ Len(wire[1]) \in 1 .. PacketLen
      /\ "first" \in wire[1][1].edge /\ "last" \in wire[1][Len(wire[1])].edge
      /\ \A k \in 1 .. Len(wire[1]) : wire[1][k].num = wire[1][1].num + (k - 1)
  BY <1>5, WireIs DEF WireInv, n
<1>7. WireInv'
  <2>1. ASSUME NEW q \in 1 .. n - 1
        PROVE  /\ Len(wire'[q]) \in 1 .. PacketLen
               /\ "first" \in wire'[q][1].edge /\ "last" \in wire'[q][Len(wire'[q])].edge
               /\ \A k \in 1 .. Len(wire'[q]) : wire'[q][k].num = wire'[q][1].num + (k - 1)
    <3>1. q + 1 \in 1 .. n
      BY <1>1
    <3> QED
      BY <1>3, <3>1 DEF WireInv, n
  <2>2. ASSUME NEW q \in 1 .. n - 1, NEW r \in 1 .. n - 1, q < r
        PROVE  wire'[q][1].num + Len(wire'[q]) <= wire'[r][1].num
    <3>1. q + 1 \in 1 .. n /\ r + 1 \in 1 .. n /\ q + 1 < r + 1
      BY <1>1, <2>2
    <3>2. wire[q + 1][1].num + Len(wire[q + 1]) <= wire[r + 1][1].num
      BY <3>1 DEF WireInv, n
    <3> QED
      BY <1>3, <3>2
  <2>3. ASSUME NEW q \in 1 .. n - 2
        PROVE  wire'[q][1].num + Len(wire'[q]) = wire'[q + 1][1].num
    <3>1. q + 1 \in 1 .. n - 1 /\ q \in 1 .. n - 1
      BY <1>1
    <3>2. wire[q + 1][1].num + Len(wire[q + 1]) = wire[q + 2][1].num
      <4>1. q + 1 + 1 = q + 2
        OBVIOUS
      <4> QED
        BY <3>1, <4>1 DEF WireInv, n
    <3>3. wire'[q] = wire[q + 1] /\ wire'[q + 1] = wire[q + 2]
      <4>1. q + 1 + 1 = q + 2
        OBVIOUS
      <4> QED
        BY <1>3, <3>1, <4>1
    <3> QED
      BY <3>2, <3>3
  <2>4. wire' # <<>> => wire'[n - 1][1].num + Len(wire'[n - 1]) = sent' + 1
    <3>1. ASSUME wire' # <<>> PROVE n - 1 \in 1 .. n - 1 /\ n - 1 + 1 = n
      BY <1>1, <1>3, <3>1, EmptySeq
    <3> QED
      BY <1>3, <3>1 DEF WireInv, n
  <2>5. Len(wire') = n - 1 /\ Len(wire') - 1 = n - 2
    BY <1>1, <1>3
  <2> QED
    BY <2>1, <2>2, <2>3, <2>4, <2>5 DEF WireInv
<1>8. NextNum = wire[1][1].num
  BY DEF NextNum
<1>9. NextNum' = NextNum + Len(wire[1])
  <2>1. CASE n = 1
    <3>1. wire' = <<>>
      <4>1. Len(wire') = 0
        BY <1>3, <2>1
      <4> QED
        BY <1>3, <4>1, EmptyIs
    <3>2. wire[1][1].num + Len(wire[1]) = sent + 1
      BY <2>1 DEF WireInv, n
    <3> QED
      BY <1>8, <3>1, <3>2 DEF NextNum
  <2>2. CASE n # 1
    <3>1. 1 \in 1 .. n - 1
      BY <1>1, <2>2
    <3>2. wire' # <<>> /\ wire'[1] = wire[2]
      <4>1. Len(wire') # 0 /\ 1 + 1 = 2
        BY <1>3, <3>1
      <4>2. wire' # <<>>
        BY <1>3, <4>1, EmptyIs
      <4> QED
        BY <1>3, <3>1, <4>1, <4>2
    <3>3. wire[1][1].num + Len(wire[1]) = wire[2][1].num
      BY <3>1 DEF WireInv, n
    <3> QED
      BY <1>8, <3>2, <3>3 DEF NextNum
  <2> QED
    BY <2>1, <2>2
<1> QED
  BY <1>2, <1>4, <1>6, <1>7, <1>8, <1>9

(* A packet that fits stands behind the others in the interpreter's queue; one that
   does not fit leaves the queue as it is.                                 *)
LEMMA AccAppends ==
    ASSUME StreamType, LineType, NEW p \in Seq(Byte), StreamWrite(p), parsed' = parsed
    PROVE  /\ StreamType' /\ StreamFill \in 0 .. StreamSize - 1 /\ Len(parsed) \in Nat
           /\ \A k \in 1 .. AccLen : InQueue'[k] = InQueue[k]
           /\ StreamFill + Len(p) <= StreamSize - 1 =>
                  /\ lost' = lost /\ StreamFill' = StreamFill + Len(p)
                  /\ \A k \in AccLen + 1 .. AccLen + Len(p) : InQueue'[k] = p[k - AccLen]
           /\ StreamFill + Len(p) > StreamSize - 1 => StreamFill' = StreamFill
<1> DEFINE n == StreamSize
           f == StreamFill
           m == Lower(Len(p), n - 1 - f)
           b == Written(stream.buf, Place(stream.wr, 1, n), p, m, n)
           a == Len(parsed)
<1>1. /\ n \in Nat \ {0} /\ 1 \in 0 .. 1 /\ stream.wr \in 0 .. n - 1 /\ stream.rd \in 0 .. n - 1
      /\ stream.buf \in [0 .. n - 1 -> Byte] /\ Len(p) \in Nat /\ a \in Nat
  BY LenProperties, ConstantFacts DEF StreamType, LineType
<1>2. f \in 0 .. n - 1 /\ f = Distance(stream.wr, stream.rd, n)
  BY <1>1, DistanceIs DEF StreamFill
<1>3. m \in 0 .. Len(p) /\ f + m <= n - 1 /\ (m < Len(p) <=> f + Len(p) > n - 1)
      /\ (~(m < Len(p)) => m = Len(p))
  BY <1>1, <1>2 DEF Lower
<1>4. /\ b \in [0 .. n - 1 -> Byte]
      /\ \A j \in 0 .. f - 1 : b[Place(stream.rd, 1 + j, n)] = stream.buf[Place(stream.rd, 1 + j, n)]
      /\ \A j \in 0 .. m - 1 : b[Place(stream.rd, 1 + (f + j), n)] = p[j + 1]
      /\ Place(stream.wr, m, n) \in 0 .. n - 1
      /\ Distance(Place(stream.wr, m, n), stream.rd, n) = f + m
  <2> HIDE DEF m
  <2>1. Distance(stream.wr, stream.rd, n) + m <= n - 1
    BY <1>2, <1>3
  <2> DEFINE d == Distance(stream.wr, stream.rd, n)
             w == stream.wr
             r == stream.rd
             c == stream.buf
  <2>3. w \in 0 .. n - 1 /\ r \in 0 .. n - 1 /\ c \in [0 .. n - 1 -> Byte] /\ d + m <= n - 1
    BY <1>1, <2>1
  <2> HIDE DEF n, f, w, r, c
  <2>2. /\ Written(c, Place(w, 1, n), p, m, n) \in [0 .. n - 1 -> Byte]
        /\ \A j \in 0 .. d - 1 :
               Written(c, Place(w, 1, n), p, m, n)[Place(r, 1 + j, n)] = c[Place(r, 1 + j, n)]
        /\ \A j \in 0 .. m - 1 :
               Written(c, Place(w, 1, n), p, m, n)[Place(r, 1 + (d + j), n)] = p[j + 1]
        /\ Place(w, m, n) \in 0 .. n - 1
        /\ Distance(Place(w, m, n), r, n) = d + m
    <3>1. Distance(w, r, n) + m <= n - 1 /\ d = Distance(w, r, n)
      BY <2>3 DEF w, r
    <3> HIDE DEF d
    <3> QED
      <4>1. /\ n \in Nat \ {0} /\ 1 \in 0 .. 1 /\ w \in 0 .. n - 1 /\ r \in 0 .. n - 1
            /\ c \in [0 .. n - 1 -> Byte] /\ m \in 0 .. Len(p) /\ p \in Seq(Byte)
            /\ Distance(w, r, n) + m <= n - 1
        BY <1>1, <1>3, <2>3, <3>1
      <4>2. Written(c, Place(w, 1, n), p, m, n) \in [0 .. n - 1 -> Byte]
        BY ONLY <4>1, QueuePut, Zenon
      <4>3. Place(w, m, n) \in 0 .. n - 1
        BY ONLY <4>1, QueuePut, Zenon
      <4>4. Distance(Place(w, m, n), r, n) = Distance(w, r, n) + m
        BY ONLY <4>1, QueuePut, SMTT(30)
      <4>5. \A j \in 0 .. Distance(w, r, n) - 1 :
                Written(c, Place(w, 1, n), p, m, n)[Place(r, 1 + j, n)] = c[Place(r, 1 + j, n)]
        BY ONLY <4>1, QueuePut, SMTT(30)
      <4>6. \A j \in 0 .. m - 1 :
                Written(c, Place(w, 1, n), p, m, n)[Place(r, 1 + (Distance(w, r, n) + j), n)]
                    = p[j + 1]
        BY ONLY <4>1, QueuePut, SMTT(30)
      <4> QED
        BY <3>1, <4>2, <4>3, <4>4, <4>5, <4>6
  <2> QED
    BY <1>2, <2>2 DEF w, r, c
<1>5. /\ stream' = [stream EXCEPT !.buf = b,
                                  !.wr = IF m < Len(p) THEN @ ELSE Place(stream.wr, m, n)]
      /\ lost' = (lost \/ m < Len(p))
  BY DEF StreamWrite, Place, StreamFill
<1> HIDE DEF n, f, m, b, a
<1>6. /\ stream'.buf = b /\ stream'.rd = stream.rd
      /\ m < Len(p) => stream'.wr = stream.wr
      /\ ~(m < Len(p)) => stream'.wr = Place(stream.wr, m, n)
  BY <1>5 DEF StreamType
<1>7. StreamType'
  <2>1. stream' \in [buf : [0 .. n - 1 -> Byte], wr : 0 .. n - 1, rd : 0 .. n - 1]
    BY <1>1, <1>4, <1>5 DEF StreamType, n
  <2>2. lost' \in BOOLEAN
    <3>1. lost \in BOOLEAN
      BY Zenon DEF StreamType
    <3>2. CASE m < Len(p)
      BY <1>5, <3>2, Zenon
    <3>3. CASE ~(m < Len(p))
      BY <1>5, <3>1, <3>3, Zenon
    <3> QED
      BY <3>2, <3>3
  <2> QED
    BY <2>1, <2>2, Zenon DEF StreamType, n
<1>8. ASSUME NEW k \in 1 .. a + f
      PROVE  Acc(k)' = Acc(k)
  <2>1. CASE k <= a
    BY <2>1 DEF Acc, a
  <2>2. CASE ~(k <= a)
    <3>1. k - a - 1 \in 0 .. f - 1 /\ 1 + (k - a - 1) = k - a
      BY <1>1, <1>2, <2>2
    <3>2. b[Place(stream.rd, k - a, n)] = stream.buf[Place(stream.rd, k - a, n)]
      BY <1>4, <3>1
    <3>3. Acc(k)' = stream'.buf[Place(stream'.rd, k - a, n)]
      BY <2>2 DEF Acc, a, n, Place
    <3>4. Acc(k) = stream.buf[Place(stream.rd, k - a, n)]
      BY <2>2 DEF Acc, a, n, Place
    <3> QED
      BY <1>6, <3>2, <3>3, <3>4
  <2> QED
    BY <2>1, <2>2
<1>9. CASE f + Len(p) > n - 1
  <2>1. StreamFill' = f
    BY <1>2, <1>3, <1>6, <1>9 DEF StreamFill, n
  <2>2. AccLen = a + f /\ AccLen' = a + f /\ a + f \in Nat
    BY <1>1, <1>2, <2>1 DEF AccLen, a, f
  <2>3. \A k \in 1 .. AccLen : InQueue'[k] = InQueue[k]
    BY <1>8, <2>2, QueuesAre
  <2> QED
    BY <1>1, <1>2, <1>7, <1>9, <2>1, <2>3 DEF a, f, n
<1>10. CASE f + Len(p) <= n - 1
  <2>1. ~(m < Len(p)) /\ m = Len(p)
    BY <1>1, <1>2, <1>3, <1>10
  <2>2. lost' = lost
    <3>1. lost \in BOOLEAN
      BY DEF StreamType
    <3> QED
      BY <1>5, <2>1, <3>1
  <2>3. StreamFill' = f + Len(p)
    BY <1>4, <1>6, <2>1 DEF StreamFill, n
  <2>4. ASSUME NEW c \in a + f + 1 .. a + f + Len(p)
        PROVE  Acc(c)' = p[c - (a + f)]
    <3> DEFINE k == c - (a + f)
    <3>0. a \in Nat /\ f \in Nat /\ Len(p) \in Nat /\ m = Len(p) /\ c \in Int
      BY <1>1, <1>2, <2>1
    <3>1. k - 1 \in 0 .. m - 1 /\ 1 + (f + (k - 1)) = f + k /\ k - 1 + 1 = k
          /\ ~(c <= a) /\ c - a = f + k
      BY <3>0
    <3> HIDE DEF k
    <3>4. ~(c <= a) /\ c - (a + f) = k
      BY <3>1 DEF k
    <3>2. b[Place(stream.rd, c - a, n)] = p[k]
      BY <1>4, <3>1
    <3>3. Acc(c)' = stream'.buf[Place(stream'.rd, c - a, n)]
      <4>1. ~(c <= Len(parsed)) /\ Len(parsed') = Len(parsed)
        BY <3>4 DEF a
      <4>2. Acc(c)' = stream'.buf[(stream'.rd + (c - Len(parsed))) % StreamSize]
        BY <4>1, Zenon DEF Acc
      <4> QED
        BY <4>2 DEF a, n, Place
    <3>5. Acc(c)' = p[k]
      BY <1>6, <3>2, <3>3
    <3> QED
      BY <3>5 DEF k
  <2>5. /\ AccLen = a + f /\ AccLen' = a + f + Len(p) /\ a + f \in Nat /\ Len(p) \in Nat
    <3>1. AccLen = a + f /\ AccLen' = Len(parsed') + StreamFill' /\ Len(parsed') = a
      BY DEF AccLen, a, f
    <3>2. a \in Nat /\ f \in Nat /\ Len(p) \in Nat
      BY <1>1, <1>2
    <3>3. AccLen' = a + (f + Len(p))
      BY <2>3, <3>1
    <3> QED
      BY ONLY <3>1, <3>2, <3>3
  <2>6. \A k \in 1 .. a + f : k \in 1 .. AccLen'
    BY <2>5
  <2>7. \A k \in a + f + 1 .. a + f + Len(p) : k \in 1 .. AccLen'
    BY <2>5
  <2>8. \A k \in 1 .. AccLen : InQueue'[k] = InQueue[k]
    BY <1>8, <2>5, <2>6, QueuesAre
  <2>9. \A k \in AccLen + 1 .. AccLen + Len(p) : InQueue'[k] = p[k - AccLen]
    BY <2>4, <2>5, <2>7, QueuesAre
  <2> QED
    BY <1>1, <1>2, <1>7, <1>10, <2>2, <2>3, <2>8, <2>9 DEF a, f, n
<1> QED
  BY <1>1, <1>2, <1>9, <1>10

(* The bytes of a packet as the ring takes them. *)
Taken(p) == [k \in DOMAIN p |-> [num |-> p[k].num, session |-> session]]

(* They keep their numbers and get the session. *)
LEMMA TakenIs ==
    ASSUME session \in 0 .. MaxBytes, NEW p \in Seq(Byte)
    PROVE  /\ Taken(p) \in Seq(TlsByte) /\ Len(Taken(p)) = Len(p) /\ Len(p) \in Nat
           /\ \A k \in 1 .. Len(p) : Taken(p)[k] = [num |-> p[k].num, session |-> session]
<1>1. Len(p) \in Nat /\ DOMAIN p = 1 .. Len(p)
  BY LenProperties
<1>2. ASSUME NEW k \in 1 .. Len(p)
      PROVE  [num |-> p[k].num, session |-> session] \in TlsByte
  <2>1. p[k] \in Byte
    BY ElementOfSeq
  <2>2. p[k].num \in 0 .. MaxBytes
    BY <2>1, ConstantFacts DEF Byte
  <2> QED
    BY <2>2 DEF TlsByte
<1>3. Taken(p) \in [1 .. Len(p) -> TlsByte]
  BY <1>1, <1>2 DEF Taken
<1>4. Taken(p) \in Seq(TlsByte)
  BY <1>1, <1>3, SeqDef
<1>5. Len(Taken(p)) = Len(p)
  <2>1. DOMAIN Taken(p) = 1 .. Len(p) /\ DOMAIN Taken(p) = 1 .. Len(Taken(p))
        /\ Len(Taken(p)) \in Nat
    BY <1>3, <1>4, LenProperties
  <2> QED
    BY <1>1, <2>1
<1> QED
  BY <1>1, <1>4, <1>5 DEF Taken

(* What fits of a packet stands behind the other bytes in the queue of wolfSSL; the
   rest is counted.                                                        *)
LEMMA ReadAppends ==
    ASSUME RingType, TlsType, session \in 0 .. MaxBytes, NEW p \in Seq(Byte), RB_Write(p),
           got' = got
    PROVE  /\ RingType' /\ ReadLen \in Nat
           /\ \A k \in 1 .. ReadLen : TlsQueue'[k] = TlsQueue[k]
           /\ \E m \in 0 .. Len(p) :
                  /\ ReadLen' = ReadLen + m
                  /\ ring'.overflow = ring.overflow + (Len(p) - m)
                  /\ \A k \in ReadLen + 1 .. ReadLen + m :
                         TlsQueue'[k] = [num |-> p[k - ReadLen].num, session |-> session]
<1> DEFINE n == RingSize
           f == RingFill
           m == Lower(Len(p), n - 1 - f)
           q == Taken(p)
           w == ring.head
           r == ring.tail
           c == ring.buf
           b == Written(c, Place(w, 0, n), q, m, n)
           a == Len(got)
<1>1. /\ n \in Nat \ {0} /\ 0 \in 0 .. 1 /\ w \in 0 .. n - 1 /\ r \in 0 .. n - 1
      /\ c \in [0 .. n - 1 -> TlsByte] /\ Len(p) \in Nat /\ a \in Nat /\ ring.overflow \in Nat
  BY LenProperties, ConstantFacts DEF RingType, TlsType
<1>2. f \in 0 .. n - 1 /\ f = Distance(w, r, n)
  BY <1>1, DistanceIs DEF RingFill
<1>3. m \in 0 .. Len(p) /\ f + m <= n - 1
  BY <1>1, <1>2 DEF Lower
<1>4. /\ q \in Seq(TlsByte) /\ Len(q) = Len(p)
      /\ \A k \in 1 .. Len(p) : q[k] = [num |-> p[k].num, session |-> session]
  BY TakenIs
<1>5. Place(w, 0, n) = w
  <2> HIDE DEF w, n
  <2>1. 0 \in 0 .. n /\ n \in Nat \ {0} /\ w \in 0 .. n - 1
    BY <1>1
  <2>2. Place(w, 0, n) = IF w + 0 < n THEN w + 0 ELSE w + 0 - n
    BY ONLY <2>1, PlaceIs
  <2> QED
    BY <2>1, <2>2
<1>6. ring' = [ring EXCEPT !.buf = Written(c, w, q, m, n), !.head = Place(w, m, n),
                           !.overflow = @ + (Len(p) - m)]
  BY DEF RB_Write, Place, Taken
<1> HIDE DEF n, f, m, q, w, r, c, a
<1>7. ring' = [ring EXCEPT !.buf = b, !.head = Place(w, m, n), !.overflow = @ + (Len(p) - m)]
  BY <1>5, <1>6
<1>8. /\ q \in Seq(TlsByte) /\ m \in 0 .. Len(q) /\ Distance(w, r, n) + m <= n - 1
  BY <1>2, <1>3, <1>4
<1>9. /\ Written(c, Place(w, 0, n), q, m, n) \in [0 .. n - 1 -> TlsByte]
      /\ \A j \in 0 .. Distance(w, r, n) - 1 :
             Written(c, Place(w, 0, n), q, m, n)[Place(r, 0 + j, n)]
                 = c[Place(r, 0 + j, n)]
      /\ \A j \in 0 .. m - 1 :
             Written(c, Place(w, 0, n), q, m, n)[Place(r, 0 + (Distance(w, r, n) + j), n)]
                 = q[j + 1]
      /\ Place(w, m, n) \in 0 .. n - 1
      /\ Distance(Place(w, m, n), r, n) = Distance(w, r, n) + m
  <2>0. /\ n \in Nat \ {0} /\ 0 \in 0 .. 1 /\ w \in 0 .. n - 1 /\ r \in 0 .. n - 1
        /\ c \in [0 .. n - 1 -> TlsByte] /\ q \in Seq(TlsByte) /\ m \in 0 .. Len(q)
        /\ Distance(w, r, n) + m <= n - 1
    BY <1>1, <1>8
  <2>1. Written(c, Place(w, 0, n), q, m, n) \in [0 .. n - 1 -> TlsByte]
    BY ONLY <2>0, QueuePut, Zenon
  <2>2. Place(w, m, n) \in 0 .. n - 1
    BY ONLY <2>0, QueuePut, Zenon
  <2>3. Distance(Place(w, m, n), r, n) = Distance(w, r, n) + m
    BY ONLY <2>0, QueuePut, SMTT(30)
  <2>4. \A j \in 0 .. Distance(w, r, n) - 1 :
             Written(c, Place(w, 0, n), q, m, n)[Place(r, 0 + j, n)]
                 = c[Place(r, 0 + j, n)]
    BY ONLY <2>0, QueuePut, SMTT(30)
  <2>5. \A j \in 0 .. m - 1 :
             Written(c, Place(w, 0, n), q, m, n)[Place(r, 0 + (Distance(w, r, n) + j), n)]
                 = q[j + 1]
    BY ONLY <2>0, QueuePut, SMTT(30)
  <2> QED
    BY <2>1, <2>2, <2>3, <2>4, <2>5
<1> HIDE DEF b
<1>10. /\ b \in [0 .. n - 1 -> TlsByte]
       /\ \A j \in 0 .. f - 1 : b[Place(r, j, n)] = c[Place(r, j, n)]
       /\ \A j \in 0 .. m - 1 : b[Place(r, f + j, n)] = q[j + 1]
  <2>1. \A j \in 0 .. f - 1 : 0 + j = j
    BY <1>2
  <2>2. \A j \in 0 .. m - 1 : 0 + (f + j) = f + j
    BY <1>2
  <2> QED
    BY <1>2, <1>9, <2>1, <2>2 DEF b
<1>11. /\ ring'.buf = b /\ ring'.tail = r /\ ring'.head = Place(w, m, n)
       /\ ring'.overflow = ring.overflow + (Len(p) - m)
  BY <1>7 DEF RingType, r
<1>12. RingType'
  <2>1. ring.overflow + (Len(p) - m) \in Nat
    BY <1>1, <1>3
  <2> QED
    BY <1>1, <1>7, <1>9, <1>10, <2>1 DEF RingType, n
<1>13. RingFill' = f + m
  BY <1>2, <1>9, <1>11 DEF RingFill, n
<1>14. ReadLen = a + f /\ ReadLen' = a + f + m
  BY <1>1, <1>2, <1>3, <1>13 DEF ReadLen, a, f
<1>15. ASSUME NEW k \in 1 .. a + f + m, ~(k <= a)
       PROVE  Read(k)' = b[Place(r, k - a - 1, n)]
  <2>1. ~(k <= Len(got'))
    BY <1>15 DEF a
  <2>2. Read(k)' = ring'.buf[(ring'.tail + (k - Len(got') - 1)) % n]
    BY <2>1 DEF Read, n
  <2>3. Len(got') = a
    BY DEF a
  <2> QED
    BY <1>11, <2>2, <2>3 DEF Place
<1>16. ASSUME NEW k \in 1 .. a + f
       PROVE  Read(k)' = Read(k)
  <2>1. CASE k <= a
    BY <2>1 DEF Read, a
  <2>2. CASE ~(k <= a)
    <3>0. a \in Nat /\ f \in Nat /\ m \in Nat
      BY <1>1, <1>2, <1>3
    <3>1. k - a - 1 \in 0 .. f - 1 /\ k \in 1 .. a + f + m
      BY ONLY <2>2, <3>0, k \in 1 .. a + f
    <3>2. Read(k) = c[Place(r, k - a - 1, n)]
      BY <2>2 DEF Read, Place, a, n, c, r
    <3> QED
      BY <1>10, <1>15, <2>2, <3>1, <3>2
  <2> QED
    BY <2>1, <2>2
<1>17. ASSUME NEW k \in a + f + 1 .. a + f + m
       PROVE  Read(k)' = [num |-> p[k - (a + f)].num, session |-> session]
  <2> DEFINE j == k - (a + f) - 1
  <2>0. a \in Nat /\ f \in Nat /\ m \in Nat /\ Len(p) \in Nat /\ m <= Len(p) /\ k \in Int
    BY <1>1, <1>2, <1>3
  <2>1. /\ j \in 0 .. m - 1 /\ f + j = k - a - 1 /\ j + 1 = k - (a + f)
        /\ ~(k <= a) /\ k \in 1 .. a + f + m /\ k - (a + f) \in 1 .. Len(p)
    BY <2>0
  <2> HIDE DEF j
  <2>2. b[Place(r, k - a - 1, n)] = q[k - (a + f)]
    BY <1>10, <2>1
  <2> QED
    BY <1>4, <1>15, <2>1, <2>2
<1>18. \E x \in 0 .. Len(p) :
           /\ ReadLen' = ReadLen + x
           /\ ring'.overflow = ring.overflow + (Len(p) - x)
           /\ \A k \in ReadLen + 1 .. ReadLen + x :
                  TlsQueue'[k] = [num |-> p[k - ReadLen].num, session |-> session]
  <2>1. /\ m \in 0 .. Len(p) /\ ReadLen' = ReadLen + m
        /\ ring'.overflow = ring.overflow + (Len(p) - m)
        /\ \A k \in ReadLen + 1 .. ReadLen + m :
               TlsQueue'[k] = [num |-> p[k - ReadLen].num, session |-> session]
    <3>1. a \in Nat /\ f \in Nat /\ m \in Nat
      BY <1>1, <1>2, <1>3
    <3>2. \A k \in a + f + 1 .. a + f + m : k \in 1 .. a + f + m
      BY <3>1
    <3> QED
      BY <1>3, <1>11, <1>14, <1>17, <3>2, QueuesAre
  <2> QED
    BY <2>1
<1>19. ReadLen \in Nat /\ \A k \in 1 .. ReadLen : TlsQueue'[k] = TlsQueue[k]
  <2>1. a \in Nat /\ f \in Nat /\ m \in Nat
    BY <1>1, <1>2, <1>3
  <2>2. \A k \in 1 .. a + f : k \in 1 .. a + f + m
    BY <2>1
  <2> QED
    BY <1>14, <1>16, <2>1, <2>2, QueuesAre
<1> QED
  BY <1>12, <1>18, <1>19

(* The next character moves from the stream buffer to what was parsed: the queue stays. *)
LEMMA GetCharKeeps ==
    ASSUME StreamType, LineType, GetChar, lost' = lost
    PROVE  /\ StreamType' /\ NextChar \in Byte
           /\ parsed' \in Seq(Byte) /\ Len(parsed') = Len(parsed) + 1 /\ Len(parsed) \in Nat
           /\ StreamFill \in Nat /\ StreamFill' = StreamFill - 1
           /\ AccLen' = AccLen /\ \A k \in 1 .. AccLen : InQueue'[k] = InQueue[k]
<1> DEFINE n == StreamSize
           f == StreamFill
           w == stream.wr
           r == stream.rd
           c == stream.buf
           a == Len(parsed)
<1>1. /\ n \in Nat \ {0} /\ w \in 0 .. n - 1 /\ r \in 0 .. n - 1 /\ c \in [0 .. n - 1 -> Byte]
      /\ a \in Nat /\ parsed \in Seq(Byte) /\ n # 1
  BY LenProperties, ConstantFacts DEF StreamType, LineType
<1>2. f = Distance(w, r, n)
  BY DEF StreamFill
<1>3. /\ r # w /\ stream' = [stream EXCEPT !.rd = Place(r, 1, n)]
      /\ NextChar = c[Place(r, 1, n)] /\ parsed' = Append(parsed, NextChar)
  BY DEF GetChar, NextChar, Place
<1> HIDE DEF n, f, w, r, c, a
<1>4. f \in 0 .. n - 1 /\ f # 0
  BY <1>1, <1>2, <1>3, DistanceIs
<1>5. 1 \in 0 .. Distance(w, r, n)
  BY <1>1, <1>2, <1>4
<1>6. /\ Place(r, 1, n) \in 0 .. n - 1
      /\ Distance(w, Place(r, 1, n), n) = Distance(w, r, n) - 1
      /\ \A j \in 0 .. Distance(w, r, n) - 1 : Place(Place(r, 1, n), j, n) = Place(r, 1 + j, n)
  BY ONLY <1>1, <1>5, QueueTake
<1>7. /\ stream'.rd = Place(r, 1, n) /\ stream'.wr = w /\ stream'.buf = c
  BY <1>3 DEF StreamType, w, c
<1>8. StreamType'
  <2>1. stream' \in [buf : [0 .. n - 1 -> Byte], wr : 0 .. n - 1, rd : 0 .. n - 1]
    BY <1>3, <1>6 DEF StreamType, n
  <2>2. lost' \in BOOLEAN
    BY Zenon DEF StreamType
  <2> QED
    BY <2>1, <2>2, Zenon DEF StreamType, n
<1>9. NextChar \in Byte
  BY <1>1, <1>3, <1>6
<1>10. /\ parsed' \in Seq(Byte) /\ Len(parsed') = a + 1
       /\ \A k \in 1 .. a : parsed'[k] = parsed[k]
       /\ parsed'[a + 1] = NextChar
  BY <1>1, <1>3, <1>9, AppendProperties DEF a
<1>11. StreamFill' = f - 1
  BY <1>2, <1>6, <1>7 DEF StreamFill, n
<1>12. AccLen = a + f /\ AccLen' = a + f
  <2>1. AccLen = a + f
    BY DEF AccLen, a, f
  <2>2. AccLen' = a + 1 + (f - 1)
    BY <1>10, <1>11 DEF AccLen
  <2> QED
    BY <1>1, <1>4, <2>1, <2>2
<1>13. ASSUME NEW k \in 1 .. a + f
       PROVE  Acc(k)' = Acc(k)
  <2>1. CASE k <= a
    <3>1. k <= a + 1
      BY <1>1, <1>4, <2>1
    <3> QED
      BY <1>10, <2>1, <3>1 DEF Acc, a
  <2>2. CASE k = a + 1
    <3>1. ~(k <= a) /\ k - a = 1 /\ k <= a + 1
      BY <1>1, <2>2
    <3>2. Acc(k) = c[Place(r, 1, n)]
      BY <3>1 DEF Acc, Place, a, c, r, n
    <3>3. Acc(k)' = NextChar
      BY <1>10, <2>2, <3>1 DEF Acc
    <3> QED
      BY <1>3, <3>2, <3>3
  <2>3. CASE k > a + 1
    <3>1. ~(k <= a) /\ ~(k <= a + 1) /\ k - (a + 1) \in 0 .. f - 1
          /\ 1 + (k - (a + 1)) = k - a
      BY <1>1, <1>4, <2>3
    <3>2. Acc(k) = c[Place(r, k - a, n)]
      BY <3>1 DEF Acc, Place, a, c, r, n
    <3>3. Acc(k)' = c[Place(Place(r, 1, n), k - (a + 1), n)]
      BY <1>7, <1>10, <3>1 DEF Acc, Place, n
    <3>4. Place(Place(r, 1, n), k - (a + 1), n) = Place(r, k - a, n)
      BY <1>2, <1>6, <3>1
    <3> QED
      BY <3>2, <3>3, <3>4
  <2> QED
    BY <1>1, <1>4, <2>1, <2>2, <2>3
<1>14. \A k \in 1 .. AccLen : InQueue'[k] = InQueue[k]
  BY <1>12, <1>13, QueuesAre
<1> QED
  BY <1>1, <1>4, <1>8, <1>9, <1>10, <1>11, <1>12, <1>14 DEF a, f

(* What wolfSSL reads moves from the ring to what it has got: the queue stays. *)
LEMMA EmbedReceiveKeeps ==
    ASSUME RingType, TlsType, NEW m \in 0 .. RingSize - 1, EmbedReceive(m)
    PROVE  /\ RingType' /\ got' \in Seq(TlsByte) /\ ring'.overflow = 0
           /\ Len(got) \in Nat /\ Len(got') = Len(got) + m
           /\ ReadLen \in Nat /\ Len(got') <= ReadLen
           /\ ReadLen' = ReadLen /\ \A k \in 1 .. ReadLen : TlsQueue'[k] = TlsQueue[k]
<1> DEFINE n == RingSize
           f == RingFill
           w == ring.head
           r == ring.tail
           c == ring.buf
           a == Len(got)
           e == [k \in 1 .. m |-> ring.buf[(ring.tail + k - 1) % RingSize]]
<1>1. /\ n \in Nat \ {0} /\ w \in 0 .. n - 1 /\ r \in 0 .. n - 1 /\ c \in [0 .. n - 1 -> TlsByte]
      /\ a \in Nat /\ got \in Seq(TlsByte) /\ m \in Nat
  BY LenProperties, ConstantFacts DEF RingType, TlsType
<1>2. f = Distance(w, r, n) /\ m <= f
  BY DEF RingFill, EmbedReceive
<1>3. /\ ring' = [ring EXCEPT !.tail = Place(r, m, n), !.overflow = 0]
      /\ got' = got \o e
  BY DEF EmbedReceive, Place
<1>4. \A k \in 1 .. m : r + k - 1 = r + (k - 1)
  BY <1>1
<1>5. e = [k \in 1 .. m |-> c[Place(r, k - 1, n)]]
  BY <1>4 DEF Place
<1> HIDE DEF n, f, w, r, c, a, e
<1>6. f \in 0 .. n - 1
  BY <1>1, <1>2, DistanceIs
<1>7. m \in 0 .. Distance(w, r, n)
  BY <1>1, <1>2, <1>6
<1>8. /\ Place(r, m, n) \in 0 .. n - 1
      /\ Distance(w, Place(r, m, n), n) = Distance(w, r, n) - m
      /\ \A j \in 0 .. Distance(w, r, n) - m : Place(Place(r, m, n), j, n) = Place(r, m + j, n)
  BY ONLY <1>1, <1>7, QueueTake
<1>9. ring'.tail = Place(r, m, n) /\ ring'.head = w /\ ring'.buf = c /\ ring'.overflow = 0
  BY <1>3 DEF RingType, w, c
<1>10. RingType'
  BY <1>3, <1>8 DEF RingType, n
<1>11. e \in Seq(TlsByte) /\ Len(e) = m
  <2>1. ASSUME NEW k \in 1 .. m
        PROVE  c[Place(r, k - 1, n)] \in TlsByte
    <3>1. k - 1 \in 0 .. n
      BY <1>1, <1>2, <1>6
    <3>2. Place(r, k - 1, n) \in 0 .. n - 1
      BY ONLY <1>1, <3>1, PlaceIs
    <3> QED
      BY <1>1, <3>2
  <2>2. e \in [1 .. m -> TlsByte]
    BY <1>5, <2>1
  <2>3. e \in Seq(TlsByte)
    BY <1>1, <2>2, SeqDef
  <2>4. DOMAIN e = 1 .. m /\ DOMAIN e = 1 .. Len(e) /\ Len(e) \in Nat
    BY <2>2, <2>3, LenProperties
  <2> QED
    BY <1>1, <2>3, <2>4
<1>12. /\ got' \in Seq(TlsByte) /\ Len(got') = a + m
       /\ \A k \in 1 .. a + m : got'[k] = IF k <= a THEN got[k] ELSE e[k - a]
  BY <1>1, <1>3, <1>11, ConcatProperties DEF a
<1>13. RingFill' = f - m
  BY <1>2, <1>8, <1>9 DEF RingFill, n
<1>14. ReadLen = a + f /\ ReadLen' = a + f
  <2>1. ReadLen = a + f
    BY DEF ReadLen, a, f
  <2>2. ReadLen' = a + m + (f - m)
    BY <1>12, <1>13 DEF ReadLen
  <2> QED
    BY <1>1, <1>6, <2>1, <2>2
<1>15. ASSUME NEW k \in 1 .. a + f
       PROVE  Read(k)' = Read(k)
  <2>1. CASE k <= a
    <3>1. k <= a + m /\ k \in 1 .. a + m
      BY <1>1, <1>6, <2>1
    <3> QED
      BY <1>12, <2>1, <3>1 DEF Read, a
  <2>2. CASE ~(k <= a) /\ k <= a + m
    <3>1. k - a \in 1 .. m /\ k \in 1 .. a + m
      BY <1>1, <1>6, <2>2
    <3>2. Read(k) = c[Place(r, k - a - 1, n)]
      BY <2>2 DEF Read, Place, a, c, r, n
    <3>3. e[k - a] = c[Place(r, k - a - 1, n)]
      BY <1>5, <3>1
    <3>4. Read(k)' = e[k - a]
      BY <1>12, <2>2, <3>1 DEF Read
    <3> QED
      BY <3>2, <3>3, <3>4
  <2>3. CASE ~(k <= a + m)
    <3> DEFINE j == k - (a + m) - 1
    <3>0. a \in Nat /\ f \in Nat /\ m \in Nat /\ k \in Int
      BY <1>1, <1>6
    <3>1. ~(k <= a) /\ j \in 0 .. f - m /\ m + j = k - a - 1
      BY <3>0, <2>3
    <3>2. Read(k) = c[Place(r, k - a - 1, n)]
      BY <3>1 DEF Read, Place, a, c, r, n
    <3>3. Read(k)' = c[Place(Place(r, m, n), j, n)]
      BY <1>9, <1>12, <2>3 DEF Read, Place, n
    <3> HIDE DEF j
    <3>4. Place(Place(r, m, n), j, n) = Place(r, k - a - 1, n)
      BY <1>2, <1>8, <3>1
    <3> QED
      BY <3>2, <3>3, <3>4
  <2> QED
    BY <1>1, <1>6, <2>1, <2>2, <2>3
<1>16. ReadLen \in Nat /\ a + m <= ReadLen
  BY <1>1, <1>2, <1>6, <1>14
<1>17. \A k \in 1 .. ReadLen : TlsQueue'[k] = TlsQueue[k]
  BY <1>14, <1>15, QueuesAre
<1> QED
  BY <1>1, <1>9, <1>10, <1>12, <1>14, <1>16, <1>17 DEF a

-----------------------------------------------------------------------------
(* The elements of the two queues. *)
LEMMA AccIs ==
    ASSUME StreamType, LineType
    PROVE  /\ StreamFill \in 0 .. StreamSize - 1 /\ Len(parsed) \in Nat /\ AccLen \in Nat
           /\ \A k \in 1 .. AccLen : InQueue[k] \in Byte /\ InQueue[k].num \in 1 .. MaxBytes
<1>1. /\ StreamSize \in Nat \ {0} /\ stream.wr \in 0 .. StreamSize - 1
      /\ stream.rd \in 0 .. StreamSize - 1 /\ stream.buf \in [0 .. StreamSize - 1 -> Byte]
      /\ Len(parsed) \in Nat /\ parsed \in Seq(Byte)
  BY LenProperties, ConstantFacts DEF StreamType, LineType
<1>2. StreamFill \in 0 .. StreamSize - 1
  BY <1>1, DistanceIs DEF StreamFill
<1>3. AccLen = Len(parsed) + StreamFill /\ AccLen \in Nat
  BY <1>1, <1>2 DEF AccLen
<1>4. ASSUME NEW k \in 1 .. AccLen
      PROVE  Acc(k) \in Byte
  <2>1. CASE k <= Len(parsed)
    <3>1. k \in 1 .. Len(parsed)
      BY <1>1, <1>3, <2>1
    <3>2. parsed[k] \in Byte
      BY <1>1, <3>1, ElementOfSeq
    <3> QED
      BY <2>1, <3>2 DEF Acc
  <2>2. CASE ~(k <= Len(parsed))
    <3>1. k - Len(parsed) \in 0 .. StreamSize
      BY <1>1, <1>2, <1>3, <2>2
    <3>2. Place(stream.rd, k - Len(parsed), StreamSize) \in 0 .. StreamSize - 1
      BY <1>1, <3>1, PlaceIs
    <3> QED
      BY <1>1, <2>2, <3>2 DEF Acc, Place
  <2> QED
    BY <2>1, <2>2
<1> QED
  BY <1>1, <1>2, <1>3, <1>4, QueuesAre DEF Byte

(* What wolfSSL has read, with what the ring holds behind it, are numbered bytes. *)
LEMMA ReadIs ==
    ASSUME RingType, TlsType
    PROVE  /\ RingFill \in 0 .. RingSize - 1 /\ Len(got) \in Nat /\ ReadLen \in Nat
           /\ \A k \in 1 .. ReadLen : TlsQueue[k].num \in Nat /\ TlsQueue[k].session \in Nat
<1>1. /\ RingSize \in Nat \ {0} /\ ring.head \in 0 .. RingSize - 1
      /\ ring.tail \in 0 .. RingSize - 1 /\ ring.buf \in [0 .. RingSize - 1 -> TlsByte]
      /\ Len(got) \in Nat /\ got \in Seq(TlsByte)
  BY LenProperties, ConstantFacts DEF RingType, TlsType
<1>2. RingFill \in 0 .. RingSize - 1
  BY <1>1, DistanceIs DEF RingFill
<1>3. ReadLen = Len(got) + RingFill /\ ReadLen \in Nat
  BY <1>1, <1>2 DEF ReadLen
<1>4. ASSUME NEW k \in 1 .. ReadLen
      PROVE  Read(k) \in TlsByte
  <2>1. CASE k <= Len(got)
    <3>1. k \in 1 .. Len(got)
      BY <1>1, <1>3, <2>1
    <3>2. got[k] \in TlsByte
      BY <1>1, <3>1, ElementOfSeq
    <3> QED
      BY <2>1, <3>2 DEF Read
  <2>2. CASE ~(k <= Len(got))
    <3>1. k - Len(got) - 1 \in 0 .. RingSize
      BY <1>1, <1>2, <1>3, <2>2
    <3>2. Place(ring.tail, k - Len(got) - 1, RingSize) \in 0 .. RingSize - 1
      BY <1>1, <3>1, PlaceIs
    <3> QED
      BY <1>1, <2>2, <3>2 DEF Read, Place
  <2> QED
    BY <2>1, <2>2
<1> QED
  BY <1>1, <1>2, <1>3, <1>4, QueuesAre, ConstantFacts DEF TlsByte

(* A step that leaves the interpreter's queue as it is. *)
LEMMA AccStays ==
    ASSUME StreamType, LineType, AccInv, NextNum \in Nat, NextNum' \in Nat,
           NextNum <= NextNum', AccLen' = AccLen, \A k \in 1 .. AccLen : InQueue'[k] = InQueue[k],
           session' = 0 => session = 0 /\ NextNum' = NextNum
    PROVE  AccInv'
<1>1. AccLen \in Nat /\ \A k \in 1 .. AccLen : InQueue[k].num \in Nat
  BY AccIs, ConstantFacts
<1>2. \A k \in 1 .. AccLen' : k <= InQueue'[k].num /\ InQueue'[k].num < NextNum'
  BY <1>1 DEF AccInv
<1>3. AccLen' > 0 => "last" \in InQueue'[AccLen'].edge
  <2>1. ASSUME AccLen > 0 PROVE AccLen \in 1 .. AccLen
    BY <1>1, <2>1
  <2> QED
    BY <2>1 DEF AccInv
<1>4. \A k \in 1 .. AccLen' - 1 :
          /\ InQueue'[k].num < InQueue'[k + 1].num
          /\ InQueue'[k + 1].num # InQueue'[k].num + 1 =>
                 "last" \in InQueue'[k].edge /\ "first" \in InQueue'[k + 1].edge
  <2>1. \A k \in 1 .. AccLen - 1 : k \in 1 .. AccLen /\ k + 1 \in 1 .. AccLen
    BY <1>1
  <2> QED
    BY <2>1 DEF AccInv
<1>5. session' = 0 => AccLen' = NextNum' - 1 /\ \A k \in 1 .. AccLen' : InQueue'[k].num = k
  BY DEF AccInv
<1> QED
  BY <1>2, <1>3, <1>4, <1>5 DEF AccInv

(* A step that puts the next packet behind it. *)
LEMMA AccGrows ==
    ASSUME StreamType, LineType, AccInv, NextNum \in Nat, session' = session,
           NEW p \in Seq(Byte), Len(p) >= 1,
           "first" \in p[1].edge, "last" \in p[Len(p)].edge,
           \A k \in 1 .. Len(p) : p[k].num = NextNum + (k - 1),
           NextNum' = NextNum + Len(p), AccLen' = AccLen + Len(p),
           \A k \in 1 .. AccLen : InQueue'[k] = InQueue[k],
           \A k \in AccLen + 1 .. AccLen + Len(p) : InQueue'[k] = p[k - AccLen]
    PROVE  AccInv'
<1> DEFINE a == AccLen
           m == Len(p)
<1>1. a \in Nat /\ m \in Nat /\ m >= 1 /\ \A k \in 1 .. a : InQueue[k].num \in Nat
  <2>1. a \in Nat /\ \A k \in 1 .. a : InQueue[k].num \in 1 .. MaxBytes
    BY AccIs
  <2>2. \A k \in 1 .. a : InQueue[k].num \in Nat
    BY <2>1, ConstantFacts
  <2>3. m \in Nat
    BY LenProperties
  <2> QED
    BY <2>1, <2>2, <2>3
<1>2. a < NextNum /\ \A k \in 1 .. a : k <= InQueue[k].num /\ InQueue[k].num < NextNum
  <2>1. \A k \in 1 .. a : k <= InQueue[k].num /\ InQueue[k].num < NextNum
    BY DEF AccInv
  <2>2. CASE a = 0
    <3>1. NextNum # 0
      <4>1. 1 \in 1 .. m /\ p[1] \in Byte
        BY <1>1, ElementOfSeq
      <4>2. p[1].num \in 1 .. MaxBytes
        BY <4>1 DEF Byte
      <4>3. p[1].num = NextNum + (1 - 1)
        BY <4>1
      <4> QED
        BY ONLY <4>2, <4>3, ConstantFacts, NextNum \in Nat
    <3> QED
      BY <2>1, <2>2, <3>1
  <2>3. CASE a # 0
    <3>1. a \in 1 .. a
      BY <1>1, <2>3
    <3>2. a <= InQueue[a].num /\ InQueue[a].num < NextNum /\ InQueue[a].num \in Nat
      BY <1>1, <2>1, <3>1
    <3> QED
      BY <1>1, <2>1, <3>2
  <2> QED
    BY <2>2, <2>3
<1> HIDE DEF a, m
<1>3. /\ \A k \in 1 .. a : InQueue'[k] = InQueue[k]
      /\ \A k \in a + 1 .. a + m : InQueue'[k] = p[k - a] /\ InQueue'[k].num = NextNum + (k - a - 1)
  <2>1. \A k \in a + 1 .. a + m : k - a \in 1 .. m
    BY <1>1
  <2> QED
    BY <2>1 DEF a, m
<1>4. AccLen' = a + m /\ NextNum' = NextNum + m /\ NextNum \in Nat
  BY DEF a, m
<1>5. \A k \in 1 .. a + m : k <= InQueue'[k].num /\ InQueue'[k].num < NextNum + m
  <2> SUFFICES ASSUME NEW k \in 1 .. a + m
               PROVE  k <= InQueue'[k].num /\ InQueue'[k].num < NextNum + m
    OBVIOUS
  <2>1. CASE k <= a
    <3>1. k \in 1 .. a
      BY <1>1, <2>1
    <3> QED
      BY ONLY <1>1, <1>2, <1>3, <1>4, <3>1
  <2>2. CASE ~(k <= a)
    <3>1. k \in a + 1 .. a + m
      BY <1>1, <2>2
    <3>2. InQueue'[k].num = NextNum + (k - a - 1)
      BY ONLY <1>3, <3>1
    <3>3. k \in Int
      BY <1>1
    <3> QED
      BY ONLY <1>1, <1>2, <1>4, <3>1, <3>2, <3>3
  <2> QED
    BY <2>1, <2>2
<1>6. "last" \in InQueue'[AccLen'].edge
  <2>1. a + m \in a + 1 .. a + m /\ a + m - a = m
    BY <1>1
  <2>2. InQueue'[AccLen'] = p[m]
    <3>1. InQueue'[a + m] = p[a + m - a]
      BY ONLY <1>1, <1>3, <2>1
    <3> QED
      BY ONLY <1>4, <2>1, <3>1
  <2> QED
    BY <2>2 DEF m
<1>7. ASSUME NEW k \in 1 .. a + m - 1
      PROVE  /\ InQueue'[k].num < InQueue'[k + 1].num
             /\ InQueue'[k + 1].num # InQueue'[k].num + 1 =>
                    "last" \in InQueue'[k].edge /\ "first" \in InQueue'[k + 1].edge
  <2>0. k \in Nat /\ k >= 1 /\ k + 1 <= a + m /\ a \in Nat /\ m \in Nat /\ m >= 1
    BY <1>1
  <2>1. CASE k < a
    <3>1. k \in 1 .. AccLen - 1 /\ k \in 1 .. a /\ k + 1 \in 1 .. a
      BY <1>1, <2>1 DEF a
    <3> QED
      BY <1>3, <3>1 DEF AccInv
  <2>2. CASE k = a
    <3>1. k \in 1 .. a /\ k + 1 \in a + 1 .. a + m /\ k + 1 - a = 1
      BY ONLY <1>1, <2>0, <2>2
    <3>0. AccLen > 0
      BY <2>0, <2>2 DEF a
    <3>2. InQueue'[k].num < NextNum /\ InQueue'[k].num \in Nat /\ "last" \in InQueue'[k].edge
      BY <1>1, <1>2, <1>3, <2>2, <3>0, <3>1 DEF AccInv, a
    <3>3. InQueue'[k + 1] = p[1] /\ InQueue'[k + 1].num = NextNum
      <4>1. NextNum + (k + 1 - a - 1) = NextNum
        BY <2>0, <2>2
      <4>2. InQueue'[k + 1] = p[k + 1 - a] /\ InQueue'[k + 1].num = NextNum + (k + 1 - a - 1)
        BY ONLY <1>3, <2>0, <3>1
      <4> QED
        BY <3>1, <4>1, <4>2
    <3> QED
      BY <3>2, <3>3
  <2>3. CASE k > a
    <3>1. k \in a + 1 .. a + m /\ k + 1 \in a + 1 .. a + m
      BY ONLY <2>0, <2>3
    <3>2. InQueue'[k].num = NextNum + (k - a - 1) /\ InQueue'[k + 1].num = NextNum + (k + 1 - a - 1)
      <4>1. \A i \in a + 1 .. a + m : InQueue'[i].num = NextNum + (i - a - 1)
        BY <1>3
      <4>2. InQueue'[k].num = NextNum + (k - a - 1)
        BY ONLY <2>0, <3>1, <4>1, NextNum \in Nat
      <4>3. InQueue'[k + 1].num = NextNum + (k + 1 - a - 1)
        BY ONLY <2>0, <3>1, <4>1, NextNum \in Nat
      <4> QED
        BY <4>2, <4>3
    <3>3. InQueue'[k + 1].num = InQueue'[k].num + 1 /\ InQueue'[k].num < InQueue'[k + 1].num
      <4>1. k - a - 1 \in Int /\ k + 1 - a - 1 = k - a - 1 + 1
        BY ONLY <2>0
      <4>2. NextNum + (k - a - 1) \in Int /\ NextNum + (k + 1 - a - 1) = NextNum + (k - a - 1) + 1
        BY ONLY <2>0, <4>1, NextNum \in Nat
      <4> QED
        BY <3>2, <4>2
    <3> QED
      BY <3>3
  <2> QED
    BY <1>1, <2>1, <2>2, <2>3
<1>8. ASSUME session = 0
      PROVE  a + m = NextNum + m - 1 /\ \A k \in 1 .. a + m : InQueue'[k].num = k
  <2>1. a = NextNum - 1 /\ \A k \in 1 .. a : InQueue[k].num = k
    BY <1>8 DEF AccInv, a
  <2>2. ASSUME NEW k \in 1 .. a + m
        PROVE  InQueue'[k].num = k
    <3>1. CASE k <= a
      <4>1. k \in 1 .. a
        BY <1>1, <3>1
      <4> QED
        BY <1>3, <2>1, <4>1
    <3>2. CASE ~(k <= a)
      <4>1. k \in a + 1 .. a + m
        BY <1>1, <3>2
      <4> QED
        BY <1>1, <1>3, <2>1, <4>1
    <3> QED
      BY <3>1, <3>2
  <2> QED
    BY <1>1, <2>1, <2>2
<1>9. /\ \A k \in 1 .. AccLen' : k <= InQueue'[k].num /\ InQueue'[k].num < NextNum'
      /\ \A k \in 1 .. AccLen' - 1 :
             /\ InQueue'[k].num < InQueue'[k + 1].num
             /\ InQueue'[k + 1].num # InQueue'[k].num + 1 =>
                    "last" \in InQueue'[k].edge /\ "first" \in InQueue'[k + 1].edge
      /\ session' = 0 => AccLen' = NextNum' - 1 /\ \A k \in 1 .. AccLen' : InQueue'[k].num = k
  <2>1. session' = session
    OBVIOUS
  <2> QED
    BY ONLY <1>1, <1>4, <1>5, <1>7, <1>8, <2>1
<1> QED
  BY <1>6, <1>9 DEF AccInv

-----------------------------------------------------------------------------
(* Room grows by what a session lets in, less the line it costs. *)
LEMMA RoomIs ==
    ASSUME NEW b \in Nat, NEW c \in Nat, b <= c
    PROVE  /\ Room(b) \in Nat /\ Room(0) = PacketLen + 1
           /\ Room(b + 1) = Room(b) + AfterPolls * PacketLen - 2
           /\ Room(b) <= Room(c)
<1> DEFINE x == AfterPolls * PacketLen - 2
<1>1. x \in Nat /\ PacketLen \in Nat /\ AfterPolls * PacketLen = x + 2
  BY ConstantFacts
<1> HIDE DEF x
<1>2. \A y \in Nat : Room(y) = PacketLen + 1 + y * x
  BY DEF Room, x
<1>3. /\ b * x \in Nat /\ 0 * x = 0 /\ (b + 1) * x = b * x + x
      /\ c * x \in Nat /\ b * x <= c * x
  <2>1. b * x \in Nat /\ c * x \in Nat /\ 0 * x = 0 /\ (b + 1) * x = b * x + x
    BY <1>1
  <2>2. c - b \in Nat /\ (c - b) * x \in Nat
    BY <1>1
  <2>3. c * x = b * x + (c - b) * x
    BY <1>1
  <2> QED
    BY <2>1, <2>2, <2>3
<1>4. /\ Room(b) = PacketLen + 1 + b * x /\ Room(c) = PacketLen + 1 + c * x
      /\ Room(0) = PacketLen + 1 + 0 * x /\ Room(b + 1) = PacketLen + 1 + (b + 1) * x
  BY <1>2
<1> DEFINE y == b * x
           z == c * x
<1>5. /\ y \in Nat /\ z \in Nat /\ y <= z /\ Room(b) = PacketLen + 1 + y
      /\ Room(c) = PacketLen + 1 + z /\ Room(0) = PacketLen + 1
      /\ Room(b + 1) = PacketLen + 1 + (y + x)
  BY <1>1, <1>3, <1>4
<1> HIDE DEF y, z
<1> QED
  BY <1>1, <1>5

(* One pass less. *)
LEMMA PassLess ==
    ASSUME NEW n \in Nat, n > 0
    PROVE  /\ n * PacketLen \in Nat /\ (n - 1) * PacketLen \in Nat
           /\ n * PacketLen = (n - 1) * PacketLen + PacketLen
           /\ PacketLen <= n * PacketLen
<1>1. PacketLen \in Nat /\ n - 1 \in Nat
  BY ConstantFacts
<1>2. (n - 1) * PacketLen \in Nat /\ n * PacketLen = (n - 1) * PacketLen + PacketLen
  BY <1>1
<1> QED
  BY <1>1, <1>2

(* There were no more sessions than bytes to begin them. *)
LEMMA SessionBound ==
    ASSUME TypeOK, WireInv, AccInv, BurstInv
    PROVE  session \in 0 .. MaxBytes
<1>1. WireType /\ StreamType /\ LineType /\ TlsType
  BY TypesAre
<1>2. /\ AccLen = Len(parsed) + StreamFill /\ StreamFill \in Nat /\ Len(parsed) \in Nat
      /\ AccLen \in Nat /\ \A k \in 1 .. AccLen : InQueue[k].num \in Nat
  BY <1>1, AccIs, ConstantFacts DEF AccLen
<1>3. NextNum \in Nat /\ NextNum <= sent + 1 /\ sent \in 0 .. MaxBytes
  BY <1>1, NextNumIs DEF WireType
<1>4. session \in Nat /\ Len(line) \in Nat /\ session + Len(line) <= Len(parsed)
  BY <1>1, LenProperties DEF LineType, TlsType, BurstInv
<1>5. AccLen <= MaxBytes
  <2>1. CASE AccLen = 0
    BY <2>1, ConstantFacts
  <2>2. CASE AccLen # 0
    <3>1. AccLen \in 1 .. AccLen
      BY <1>2, <2>2
    <3>2. AccLen <= InQueue[AccLen].num /\ InQueue[AccLen].num < NextNum
      BY <3>1 DEF AccInv
    <3>3. InQueue[AccLen].num \in Nat /\ MaxBytes \in Nat
      BY <1>2, <3>1, ConstantFacts
    <3> QED
      BY ONLY <1>2, <1>3, <3>2, <3>3
  <2> QED
    BY <2>1, <2>2
<1> QED
  BY <1>2, <1>4, <1>5, ConstantFacts

(* A pass of the USB stack, for the interpreter. *)
LEMMA DeviceTaskKeeps ==
    ASSUME WireType, StreamType, RingType, LineType, TlsType, WireInv, AccInv,
           session \in 0 .. MaxBytes, tls_active => session # 0,
           session = 0 => StreamFill = 0,
           DeviceTask, UNCHANGED <<sent, parsed, got, session>>
    PROVE  /\ WireType' /\ StreamType' /\ RingType' /\ WireInv' /\ AccInv'
           /\ tls_active => UNCHANGED <<stream, lost>>
           /\ ~tls_active => /\ StreamFill' \in StreamFill .. StreamFill + PacketLen
                             /\ lost' => lost \/ StreamFill + PacketLen > StreamSize - 1
<1>1. /\ NextNum \in Nat /\ NextNum <= sent + 1 /\ AccLen \in Nat
      /\ StreamFill \in 0 .. StreamSize - 1 /\ PacketLen \in Nat /\ PacketLen < StreamSize
      /\ StreamSize \in Nat
  BY NextNumIs, AccIs, ConstantFacts
<1>2. CASE UNCHANGED <<wire, input>>
  <2>1. UNCHANGED <<wire, sent, stream, ring, lost, parsed, session>>
    BY <1>2 DEF input
  <2>2. WireType' /\ RingType' /\ WireInv'
    BY <2>1 DEF WireType, RingType, WireInv
  <2>3. StreamType'
    BY <2>1, Zenon DEF StreamType
  <2>4. StreamFill' = StreamFill /\ AccLen' = AccLen /\ InQueue' = InQueue /\ NextNum' = NextNum
    BY <2>1 DEF StreamFill, AccLen, InQueue, Acc, NextNum
  <2>5. AccInv'
    BY <2>1, <2>4 DEF AccInv
  <2>6. StreamFill' \in StreamFill .. StreamFill + PacketLen
    BY <1>1, <2>4
  <2> QED
    BY <2>1, <2>2, <2>3, <2>5, <2>6
<1>3. CASE wire # <<>> /\ RxHandler(Head(wire)) /\ wire' = Tail(wire)
  <2> DEFINE p == Head(wire)
  <2>1. /\ WireType' /\ WireInv' /\ p \in Seq(Byte) /\ Len(p) \in 1 .. PacketLen
        /\ "first" \in p[1].edge /\ "last" \in p[Len(p)].edge
        /\ \A k \in 1 .. Len(p) : p[k].num = NextNum + (k - 1)
        /\ NextNum' = NextNum + Len(p)
    BY <1>3, DeliveryKeeps
  <2>2. RxHandler(p)
    BY <1>3
  <2> HIDE DEF p
  <2>3. NextNum' \in Nat /\ NextNum < NextNum' /\ Len(p) >= 1 /\ Len(p) <= PacketLen /\ Len(p) \in Nat
    BY <1>1, <2>1
  <2>4. CASE tls_active /\ RB_Write(p) /\ UNCHANGED <<stream, lost>>
    <3>1. RingType'
      BY <2>1, <2>4, ReadAppends
    <3>2. StreamType'
      BY <2>4, Zenon DEF StreamType
    <3>3. AccLen' = AccLen /\ InQueue' = InQueue
      BY <2>4 DEF StreamFill, AccLen, InQueue, Acc
    <3>4. AccInv'
      BY <1>1, <2>3, <2>4, <3>3, AccStays
    <3> QED
      BY <2>1, <2>4, <3>1, <3>2, <3>4
  <2>5. CASE ~tls_active /\ StreamWrite(p) /\ UNCHANGED ring
    <3>0. RingType'
      BY <2>5 DEF RingType
    <3>1. /\ StreamType' /\ \A k \in 1 .. AccLen : InQueue'[k] = InQueue[k]
          /\ StreamFill + Len(p) <= StreamSize - 1 =>
                 /\ lost' = lost /\ StreamFill' = StreamFill + Len(p)
                 /\ \A k \in AccLen + 1 .. AccLen + Len(p) : InQueue'[k] = p[k - AccLen]
          /\ StreamFill + Len(p) > StreamSize - 1 => StreamFill' = StreamFill
      BY <2>1, <2>5, AccAppends
    <3>2. AccLen' = Len(parsed) + StreamFill' /\ AccLen = Len(parsed) + StreamFill
          /\ Len(parsed) \in Nat
      BY AccIs DEF AccLen
    <3>3. CASE StreamFill + Len(p) <= StreamSize - 1
      <4>1. AccLen' = AccLen + Len(p)
        BY <1>1, <2>3, <3>1, <3>2, <3>3
      <4>2. AccInv'
        BY <1>1, <2>1, <2>3, <3>1, <3>3, <4>1, AccGrows
      <4>3. StreamFill' \in StreamFill .. StreamFill + PacketLen
        BY <1>1, <2>3, <3>1, <3>3
      <4> QED
        BY <2>1, <2>5, <3>0, <3>1, <3>3, <4>2, <4>3
    <3>4. CASE StreamFill + Len(p) > StreamSize - 1
      <4>1. AccLen' = AccLen
        BY <3>1, <3>2, <3>4
      <4>2. StreamFill + PacketLen > StreamSize - 1 /\ StreamFill # 0
        BY <1>1, <2>3, <3>4
      <4>3. AccInv'
        BY <1>1, <2>3, <3>1, <4>1, <4>2, AccStays
      <4>4. StreamFill' \in StreamFill .. StreamFill + PacketLen
        BY <1>1, <3>1, <3>4
      <4> QED
        BY <2>1, <2>5, <3>0, <3>1, <4>2, <4>3, <4>4
    <3> QED
      BY <1>1, <2>3, <3>3, <3>4
  <2> QED
    BY <2>2, <2>4, <2>5 DEF RxHandler
<1> QED
  BY <1>2, <1>3 DEF DeviceTask

(* A pass of the USB stack, for wolfSSL. *)
LEMMA ReadGrows ==
    ASSUME WireType, RingType, TlsType, WireInv, ReadInv, session \in 0 .. MaxBytes,
           tls_active, pc = "connect", pc' = pc, DeviceTask,
           UNCHANGED <<sent, got, session, reported>>
    PROVE  ReadInv'
<1> DEFINE a == ReadLen
<1>1. /\ a \in Nat /\ \A k \in 1 .. a : TlsQueue[k].num \in Nat
      /\ NextNum \in Nat /\ ring.overflow \in Nat
  BY NextNumIs, ReadIs DEF RingType
<1>2. /\ \A k \in 1 .. a : TlsQueue[k].session = session /\ TlsQueue[k].num < NextNum
      /\ \A k \in 1 .. a - 1 :
             /\ TlsQueue[k].num < TlsQueue[k + 1].num
             /\ TlsQueue[k + 1].num # TlsQueue[k].num + 1 => reported \/ ring.overflow > 0
      /\ a > 0 => TlsQueue[a].num + 1 = NextNum \/ reported \/ ring.overflow > 0
  BY DEF ReadInv
<1>3. CASE UNCHANGED <<wire, input>>
  <2>1. UNCHANGED <<wire, sent, ring>>
    BY <1>3 DEF input
  <2>2. ReadLen' = ReadLen /\ TlsQueue' = TlsQueue /\ NextNum' = NextNum
    BY <2>1 DEF RingFill, ReadLen, TlsQueue, Read, NextNum
  <2> QED
    BY <2>1, <2>2 DEF ReadInv
<1>4. CASE wire # <<>> /\ RxHandler(Head(wire)) /\ wire' = Tail(wire)
  <2> DEFINE p == Head(wire)
  <2>1. /\ p \in Seq(Byte) /\ Len(p) \in 1 .. PacketLen
        /\ \A k \in 1 .. Len(p) : p[k].num = NextNum + (k - 1)
        /\ NextNum' = NextNum + Len(p)
    BY <1>4, DeliveryKeeps
  <2>2. RB_Write(p)
    BY <1>4 DEF RxHandler
  <2>3. /\ \A k \in 1 .. a : TlsQueue'[k] = TlsQueue[k]
        /\ \E m \in 0 .. Len(p) :
               /\ ReadLen' = a + m
               /\ ring'.overflow = ring.overflow + (Len(p) - m)
               /\ \A k \in a + 1 .. a + m :
                      TlsQueue'[k] = [num |-> p[k - a].num, session |-> session]
    <3> HIDE DEF p
    <3> QED
      BY <2>1, <2>2, ReadAppends
  <2>4. PICK m \in 0 .. Len(p) :
            /\ ReadLen' = a + m
            /\ ring'.overflow = ring.overflow + (Len(p) - m)
            /\ \A k \in a + 1 .. a + m :
                   TlsQueue'[k] = [num |-> p[k - a].num, session |-> session]
    BY <2>3
  <2> HIDE DEF p, a
  <2>5. Len(p) \in Nat /\ Len(p) >= 1 /\ m \in Nat /\ m <= Len(p)
    BY <2>1, ConstantFacts
  <2>6. \A k \in a + 1 .. a + m :
            TlsQueue'[k].session = session /\ TlsQueue'[k].num = NextNum + (k - a - 1)
    <3> SUFFICES ASSUME NEW k \in a + 1 .. a + m
                 PROVE  TlsQueue'[k].session = session /\ TlsQueue'[k].num = NextNum + (k - a - 1)
      OBVIOUS
    <3>1. k - a \in 1 .. Len(p)
      BY <1>1, <2>5
    <3>2. TlsQueue'[k] = [num |-> p[k - a].num, session |-> session]
      BY <2>4
    <3>3. p[k - a].num = NextNum + (k - a - 1)
      BY <2>1, <3>1
    <3> QED
      BY <3>2, <3>3
  <2>7. ring.overflow > 0 => ring'.overflow > 0
    BY <1>1, <2>4, <2>5
  <2>8. m < Len(p) => ring'.overflow > 0
    BY <1>1, <2>4, <2>5
  <2>9. ASSUME NEW k \in 1 .. a + m
        PROVE  TlsQueue'[k].session = session /\ TlsQueue'[k].num < NextNum'
    <3>1. CASE k <= a
      <4>1. k \in 1 .. a
        BY <1>1, <3>1
      <4> QED
        <5>1. TlsQueue'[k] = TlsQueue[k]
          BY <2>3, <4>1
        <5>2. TlsQueue[k].session = session /\ TlsQueue[k].num < NextNum /\ TlsQueue[k].num \in Nat
          BY <1>1, <1>2, <4>1
        <5>3. NextNum' = NextNum + Len(p)
          BY <2>1
        <5> QED
          BY ONLY <1>1, <2>5, <5>1, <5>2, <5>3
    <3>2. CASE ~(k <= a)
      <4>1. k \in a + 1 .. a + m /\ k \in Int
        BY <1>1, <2>5, <3>2
      <4>2. TlsQueue'[k].session = session /\ TlsQueue'[k].num = NextNum + (k - a - 1)
        BY ONLY <2>6, <4>1
      <4> QED
        BY ONLY <1>1, <2>1, <2>5, <4>1, <4>2
    <3> QED
      BY <3>1, <3>2
  <2>10. ASSUME NEW k \in 1 .. a + m - 1
         PROVE  /\ TlsQueue'[k].num < TlsQueue'[k + 1].num
                /\ TlsQueue'[k + 1].num # TlsQueue'[k].num + 1 =>
                       reported \/ ring'.overflow > 0
    <3>0. k \in Nat /\ k >= 1 /\ k + 1 <= a + m /\ a \in Nat /\ m \in Nat
      BY <1>1, <2>5
    <3>1. CASE k < a
      <4>1. k \in 1 .. a - 1 /\ k \in 1 .. a /\ k + 1 \in 1 .. a
        BY ONLY <3>0, <3>1
      <4> QED
        BY <1>2, <2>3, <2>7, <4>1
    <3>2. CASE k = a
      <4>1. k \in 1 .. a /\ a > 0 /\ k + 1 \in a + 1 .. a + m /\ NextNum + (k + 1 - a - 1) = NextNum
        BY ONLY <1>1, <3>0, <3>2
      <4>2. TlsQueue'[k + 1].num = NextNum
        BY ONLY <2>6, <3>0, <4>1
      <4>3. TlsQueue'[k] = TlsQueue[k] /\ TlsQueue[k].num < NextNum /\ TlsQueue[k].num \in Nat
        BY <1>1, <1>2, <2>3, <4>1
      <4>4. TlsQueue[k].num + 1 = NextNum \/ reported \/ ring.overflow > 0
        BY <1>2, <3>2, <4>1
      <4> QED
        BY <2>7, <4>2, <4>3, <4>4
    <3>3. CASE k > a
      <4>1. k \in a + 1 .. a + m /\ k + 1 \in a + 1 .. a + m
        BY ONLY <3>0, <3>3
      <4>2. TlsQueue'[k].num = NextNum + (k - a - 1) /\ TlsQueue'[k + 1].num = NextNum + (k + 1 - a - 1)
        BY ONLY <2>6, <3>0, <4>1
      <4>3. NextNum + (k - a - 1) \in Int /\ NextNum + (k + 1 - a - 1) = NextNum + (k - a - 1) + 1
        BY ONLY <1>1, <3>0
      <4> QED
        BY <4>2, <4>3
    <3> QED
      BY <3>0, <3>1, <3>2, <3>3
  <2>11. ASSUME a + m > 0
         PROVE  TlsQueue'[a + m].num + 1 = NextNum' \/ reported \/ ring'.overflow > 0
    <3>1. CASE m < Len(p)
      BY <2>8, <3>1
    <3>2. CASE m = Len(p)
      <4>1. a + m \in a + 1 .. a + m /\ NextNum + (a + m - a - 1) + 1 = NextNum + m
        BY <1>1, <2>5, <3>2
      <4>2. TlsQueue'[a + m].num = NextNum + (a + m - a - 1)
        BY ONLY <1>1, <2>5, <2>6, <4>1
      <4> QED
        BY <2>1, <3>2, <4>1, <4>2
    <3> QED
      BY <2>5, <3>1, <3>2
  <2>12. /\ \A k \in 1 .. ReadLen' : TlsQueue'[k].session = session' /\ TlsQueue'[k].num < NextNum'
         /\ \A k \in 1 .. ReadLen' - 1 :
                /\ TlsQueue'[k].num < TlsQueue'[k + 1].num
                /\ TlsQueue'[k + 1].num # TlsQueue'[k].num + 1 => reported' \/ ring'.overflow > 0
         /\ ReadLen' > 0 =>
                TlsQueue'[ReadLen'].num + 1 = NextNum' \/ reported' \/ ring'.overflow > 0
    <3>0. reported => reported'
      OBVIOUS
    <3>1. session' = session /\ ReadLen' = a + m
      BY <2>4
    <3>2. \A k \in 1 .. ReadLen' : TlsQueue'[k].session = session' /\ TlsQueue'[k].num < NextNum'
      BY ONLY <2>9, <3>1
    <3>3. \A k \in 1 .. ReadLen' - 1 :
                /\ TlsQueue'[k].num < TlsQueue'[k + 1].num
                /\ TlsQueue'[k + 1].num # TlsQueue'[k].num + 1 => reported' \/ ring'.overflow > 0
      <4> SUFFICES ASSUME NEW k \in 1 .. ReadLen' - 1
                   PROVE  /\ TlsQueue'[k].num < TlsQueue'[k + 1].num
                          /\ TlsQueue'[k + 1].num # TlsQueue'[k].num + 1 =>
                                 reported' \/ ring'.overflow > 0
        OBVIOUS
      <4>1. k \in 1 .. a + m - 1
        BY <1>1, <2>5, <3>1
      <4>2. /\ TlsQueue'[k].num < TlsQueue'[k + 1].num
            /\ TlsQueue'[k + 1].num # TlsQueue'[k].num + 1 => reported \/ ring'.overflow > 0
        BY <2>10, <4>1
      <4> QED
        BY <3>0, <4>2
    <3>4. ReadLen' > 0 =>
                TlsQueue'[ReadLen'].num + 1 = NextNum' \/ reported' \/ ring'.overflow > 0
      BY ONLY <2>11, <3>0, <3>1
    <3> QED
      BY <3>2, <3>3, <3>4
  <2>13. pc' # "setup"
    OBVIOUS
  <2> QED
    BY <2>12, <2>13 DEF ReadInv
<1> QED
  BY <1>3, <1>4 DEF DeviceTask

-----------------------------------------------------------------------------
(* The line that is left: at most one character longer, and never full. *)
LEMMA FeedIs ==
    ASSUME LineType, NEW c \in Symbols
    PROVE  /\ Feed(c) \in Seq(Symbols \ {"nl", "bs"}) /\ Len(Feed(c)) < LineSize
           /\ Len(Feed(c)) \in Nat /\ Len(line) \in Nat /\ Len(Feed(c)) <= Len(line) + 1
           /\ c = "nl" => Feed(c) = <<>> /\ Len(Feed(c)) = 0
<1> DEFINE S == Symbols \ {"nl", "bs"}
<1>1. line \in Seq(S) /\ Len(line) \in Nat /\ Len(line) < LineSize /\ LineSize \in Nat \ {0, 1}
  BY LenProperties, ConstantFacts DEF LineType
<1>2. CASE c = "nl"
  <2>1. Feed(c) = <<>>
    BY <1>2 DEF Feed
  <2>2. <<>> \in Seq(S) /\ Len(<<>>) = 0
    BY EmptySeq
  <2> QED
    BY <1>1, <2>1, <2>2
<1>3. CASE c = "bs"
  <2>1. Feed(c) = SubSeq(line, 1, Len(line) - 1)
    BY <1>3 DEF Feed
  <2>2. \A i \in 1 .. Len(line) - 1 : line[i] \in S
    BY <1>1, ElementOfSeq
  <2> HIDE DEF S
  <2>3. /\ SubSeq(line, 1, Len(line) - 1) \in Seq(S)
        /\ Len(SubSeq(line, 1, Len(line) - 1))
               = IF 1 <= Len(line) - 1 THEN Len(line) - 1 - 1 + 1 ELSE 0
    BY <1>1, <2>2, SubSeqProperties
  <2>4. Feed(c) \in Seq(S) /\ Len(Feed(c)) = IF 1 <= Len(line) - 1 THEN Len(line) - 1 ELSE 0
    BY <1>1, <2>1, <2>3
  <2> QED
    BY <1>1, <1>3, <2>4 DEF S
<1>4. CASE c \notin {"nl", "bs"}
  <2>1. Feed(c) = IF Len(line) < LineSize - 1 THEN Append(line, c) ELSE line
    BY <1>4 DEF Feed
  <2>2. c \in S
    BY <1>4
  <2> HIDE DEF S
  <2>3. Append(line, c) \in Seq(S) /\ Len(Append(line, c)) = Len(line) + 1
    BY <1>1, <2>2, AppendProperties
  <2>4. Feed(c) \in Seq(S) /\ Len(Feed(c)) < LineSize /\ Len(Feed(c)) \in Nat
        /\ Len(Feed(c)) <= Len(line) + 1
    BY <1>1, <2>1, <2>3
  <2> QED
    BY <1>1, <1>4, <2>4 DEF S
<1> QED
  BY <1>2, <1>3, <1>4

(* A line handed over is one of the lines executed. *)
LEMMA ExecutedIs ==
    ASSUME LineType
    PROVE  Append(executed, line) \in Seq(Seq(Symbols))
<1>1. line \in Seq(Symbols)
  BY SeqMonotonic DEF LineType
<1> QED
  BY <1>1, AppendProperties DEF LineType

(* The interpreter's queue is not touched. *)
LEMMA AccUntouched ==
    ASSUME UNCHANGED <<stream, parsed>>
    PROVE  /\ StreamFill' = StreamFill
           /\ AccInv /\ session' = session /\ NextNum' = NextNum => AccInv'
<1>1. StreamFill' = StreamFill
  BY DEF StreamFill
<1>2. AccLen' = AccLen /\ InQueue' = InQueue
  BY <1>1 DEF AccLen, InQueue, Acc
<1> QED
  BY <1>1, <1>2 DEF AccInv

(* What is under way is not touched. *)
LEMMA WireUntouched ==
    ASSUME UNCHANGED <<wire, sent>>
    PROVE  NextNum' = NextNum /\ (WireType => WireType') /\ (WireInv => WireInv')
  BY DEF NextNum, WireType, WireInv

(* wolfSSL's queue is not touched. *)
LEMMA ReadUntouched ==
    ASSUME ReadInv, UNCHANGED <<ring, got, session, reported, pc>>, NextNum' = NextNum
    PROVE  ReadInv'
<1>1. ReadLen' = ReadLen /\ TlsQueue' = TlsQueue
  BY DEF RingFill, ReadLen, TlsQueue, Read
<1> QED
  BY <1>1 DEF ReadInv

(* What wolfSSL has read is not touched. *)
LEMMA GotUntouched ==
    ASSUME FreshSession, GapReported, UNCHANGED <<got, session, reported>>
    PROVE  FreshSession' /\ GapReported'
  BY DEF FreshSession, GapReported

(* What every step starts from, apart from the queues. *)
LEMMA StepFacts ==
    ASSUME RxInv
    PROVE  /\ WireType /\ StreamType /\ RingType /\ LineType /\ PlaceType /\ TlsType
           /\ WireInv /\ AccInv /\ ReadInv /\ BurstInv /\ FreshSession /\ GapReported
           /\ session \in 0 .. MaxBytes /\ session \in Nat /\ burst \in Nat /\ burst <= session
           /\ NextNum \in Nat /\ StreamFill \in Nat /\ StreamFill \in 0 .. StreamSize - 1
           /\ Len(parsed) \in Nat /\ Len(line) \in Nat /\ polls \in Nat
           /\ Room(burst) \in Nat /\ Room(session) \in Nat /\ Room(burst) <= Room(session)
<1>1. TypeOK /\ WireInv /\ AccInv /\ ReadInv /\ BurstInv /\ FreshSession /\ GapReported
  BY DEF RxInv
<1>2. WireType /\ StreamType /\ RingType /\ LineType /\ PlaceType /\ TlsType
  BY <1>1, TypesAre
<1>3. session \in 0 .. MaxBytes
  BY <1>1, SessionBound
<1>4. session \in Nat /\ burst \in Nat /\ burst <= session /\ polls \in Nat
  BY <1>2 DEF TlsType, PlaceType
<1>5. Room(burst) \in Nat /\ Room(session) \in Nat /\ Room(burst) <= Room(session)
  BY <1>4, RoomIs
<1>6. StreamFill \in 0 .. StreamSize - 1 /\ Len(parsed) \in Nat
  BY <1>2, AccIs
<1>7. StreamFill \in Nat
  BY <1>6, ConstantFacts
<1>8. NextNum \in Nat
  BY <1>1, <1>2, NextNumIs
<1>9. Len(line) \in Nat
  BY <1>2, LenProperties DEF LineType
<1> QED
  BY <1>1, <1>2, <1>3, <1>4, <1>5, <1>6, <1>7, <1>8, <1>9

(* The groups of types and invariants make up the invariant. *)
LEMMA AllKept ==
    ASSUME WireType', StreamType', RingType', LineType', PlaceType', TlsType',
           WireInv', AccInv', ReadInv', BurstInv', FreshSession', GapReported'
    PROVE  RxInv'
<1>1. TypeOK'
  BY TypesAreNext
<1> QED
  BY <1>1 DEF RxInv

(* A step after which wolfSSL is not reading. *)
LEMMA NotReading ==
    ASSUME pc' \notin {"setup", "connect"}
    PROVE  ReadInv'
  BY DEF ReadInv

-----------------------------------------------------------------------------
(* Every operation keeps the invariant. *)
LEMMA KeepHostSend ==
    ASSUME RxInv, NEW syms \in Packets, HostSend(syms)
    PROVE  RxInv'
<1>0. UNCHANGED <<stream, ring, lost, line, parsed, executed, tls_active, session, burst, got,
                  reported, pc, polls>>
  BY DEF HostSend, input, console, tls
<1>1. /\ WireType /\ StreamType /\ RingType /\ LineType /\ PlaceType /\ TlsType
      /\ WireInv /\ AccInv /\ ReadInv /\ BurstInv /\ FreshSession /\ GapReported
  BY StepFacts
<1>2. WireType' /\ WireInv' /\ NextNum' = NextNum
  BY <1>1, SendKeeps
<1>3. AccInv' /\ StreamFill' = StreamFill
  BY <1>0, <1>1, <1>2, AccUntouched
<1>4. ReadInv' /\ FreshSession' /\ GapReported'
  BY <1>0, <1>1, <1>2, ReadUntouched, GotUntouched
<1>5. BurstInv'
  BY <1>0, <1>1, <1>3 DEF BurstInv, Room
<1>6. RingType' /\ LineType'
  BY <1>0, <1>1 DEF RingType, LineType
<1>7. StreamType' /\ PlaceType' /\ TlsType'
  BY <1>0, <1>1, Zenon DEF StreamType, PlaceType, TlsType
<1> QED
  BY <1>2, <1>3, <1>4, <1>5, <1>6, <1>7, AllKept

(* tty_rx_task takes a character. *)
LEMMA KeepRxTask ==
    ASSUME RxInv, RxTask
    PROVE  RxInv'
<1>0. /\ pc = "drain" /\ GetChar /\ line' = Feed(NextChar.sym)
      /\ executed' = executed \/ executed' = Append(executed, line)
      /\ UNCHANGED <<wire, sent, ring, lost, tls_active, session, burst, got, reported, pc, polls>>
  BY DEF RxTask, host, tls
<1>1. /\ WireType /\ StreamType /\ RingType /\ LineType /\ PlaceType /\ TlsType
      /\ WireInv /\ AccInv /\ ReadInv /\ BurstInv /\ FreshSession /\ GapReported
      /\ session \in Nat /\ NextNum \in Nat /\ Room(burst) \in Nat
  BY StepFacts
<1>2. /\ StreamType' /\ NextChar \in Byte
      /\ parsed' \in Seq(Byte) /\ Len(parsed') = Len(parsed) + 1 /\ Len(parsed) \in Nat
      /\ StreamFill \in Nat /\ StreamFill' = StreamFill - 1
      /\ AccLen' = AccLen /\ \A k \in 1 .. AccLen : InQueue'[k] = InQueue[k]
  BY <1>0, <1>1, GetCharKeeps
<1>3. NextChar.sym \in Symbols
  BY <1>2 DEF Byte
<1>4. /\ line' \in Seq(Symbols \ {"nl", "bs"}) /\ Len(line') < LineSize
      /\ Len(line') \in Nat /\ Len(line) \in Nat /\ Len(line') <= Len(line) + 1
  BY <1>0, <1>1, <1>3, FeedIs
<1>5. executed' \in Seq(Seq(Symbols))
  BY <1>0, <1>1, ExecutedIs DEF LineType
<1>6. LineType'
  BY <1>2, <1>4, <1>5 DEF LineType
<1>7. WireType' /\ WireInv' /\ NextNum' = NextNum
  BY <1>0, <1>1, WireUntouched
<1>8. AccInv'
  <2>1. session' = session /\ NextNum' \in Nat /\ NextNum <= NextNum'
    BY <1>0, <1>1, <1>7
  <2> QED
    BY <1>1, <1>2, <1>7, <2>1, AccStays
<1>9. ReadInv' /\ FreshSession' /\ GapReported'
  BY <1>0, <1>1, <1>7, ReadUntouched, GotUntouched
<1>10. BurstInv'
  <2>1. /\ session + Len(line) <= Len(parsed)
        /\ burst = 0 => StreamFill <= PacketLen
        /\ StreamFill + (IF line = <<>> THEN 0 ELSE 1) <= Room(burst)
        /\ lost => Room(session) > StreamSize - 1
    BY <1>0, <1>1 DEF BurstInv
  <2>2. session' + Len(line') <= Len(parsed')
    <3>1. session' = session
      BY <1>0
    <3> QED
      BY ONLY <1>1, <1>2, <1>4, <2>1, <3>1
  <2>3. StreamFill <= Room(burst)
    BY <1>1, <1>2, <2>1
  <2>4. StreamFill' + (IF line' = <<>> THEN 0 ELSE 1) <= Room(burst)
    BY <1>1, <1>2, <2>3
  <2>5. burst = 0 => StreamFill' <= PacketLen
    BY <1>2, <2>1, ConstantFacts
  <2> QED
    BY <1>0, <2>1, <2>2, <2>4, <2>5 DEF BurstInv, Room
<1>11. RingType'
  BY <1>0, <1>1 DEF RingType
<1>12. PlaceType' /\ TlsType'
  BY <1>0, <1>1, Zenon DEF PlaceType, TlsType
<1> QED
  BY <1>2, <1>6, <1>7, <1>8, <1>9, <1>10, <1>11, <1>12, AllKept

(* A TLS command takes the input over. *)
LEMMA KeepTlsCommand ==
    ASSUME RxInv, TlsCommand
    PROVE  RxInv'
<1>0. /\ pc = "drain" /\ GetChar /\ NextChar.sym = "nl" /\ line # <<>>
      /\ line' = Feed(NextChar.sym) /\ executed' = Append(executed, line)
      /\ tls_active' = TRUE /\ session' = session + 1 /\ burst' = burst + 1
      /\ got' = <<>> /\ reported' = FALSE /\ pc' = "setup"
      /\ UNCHANGED <<wire, sent, ring, lost, polls>>
  BY DEF TlsCommand, host, EndsLine
<1>1. /\ WireType /\ StreamType /\ RingType /\ LineType /\ PlaceType /\ TlsType
      /\ WireInv /\ AccInv /\ ReadInv /\ BurstInv
      /\ session \in Nat /\ burst \in Nat /\ burst <= session
      /\ NextNum \in Nat /\ Room(burst) \in Nat
  BY StepFacts
<1>2. /\ StreamType' /\ NextChar \in Byte
      /\ parsed' \in Seq(Byte) /\ Len(parsed') = Len(parsed) + 1 /\ Len(parsed) \in Nat
      /\ StreamFill \in Nat /\ StreamFill' = StreamFill - 1
      /\ AccLen' = AccLen /\ \A k \in 1 .. AccLen : InQueue'[k] = InQueue[k]
  BY <1>0, <1>1, GetCharKeeps
<1>3. "nl" \in Symbols
  BY DEF Symbols
<1>4. /\ line' \in Seq(Symbols \ {"nl", "bs"}) /\ Len(line') < LineSize
      /\ line' = <<>> /\ Len(line') = 0
  BY <1>0, <1>1, <1>3, FeedIs
<1>5. Len(line) \in Nat /\ Len(line) >= 1
  BY <1>0, <1>1, EmptyIs DEF LineType
<1>6. LineType'
  BY <1>0, <1>1, <1>2, <1>4, ExecutedIs DEF LineType
<1>7. WireType' /\ WireInv' /\ NextNum' = NextNum
  BY <1>0, <1>1, WireUntouched
<1>8. AccInv'
  <2>1. session' # 0 /\ NextNum' \in Nat /\ NextNum <= NextNum'
    BY <1>0, <1>1, <1>7
  <2> QED
    BY <1>1, <1>2, <2>1, AccStays
<1>9. ReadInv' /\ FreshSession' /\ GapReported'
  <2>1. Len(got') = 0 /\ DOMAIN got' = {}
    BY <1>0, EmptySeq
  <2> QED
    BY <1>0, <2>1 DEF ReadInv, FreshSession, GapReported
<1>10. BurstInv'
  <2>1. /\ session + Len(line) <= Len(parsed)
        /\ StreamFill + 1 <= Room(burst)
        /\ lost => Room(session) > StreamSize - 1
    BY <1>0, <1>1 DEF BurstInv
  <2>2. session' + Len(line') <= Len(parsed')
    <3>1. session' = session + 1
      BY <1>0
    <3> QED
      BY ONLY <1>1, <1>2, <1>4, <1>5, <2>1, <3>1
  <2>3. Room(burst + 1) = Room(burst) + AfterPolls * PacketLen - 2
    BY <1>1, RoomIs
  <2>4. StreamFill' + AfterPolls * PacketLen <= Room(burst + 1)
    <3>1. AfterPolls * PacketLen \in Nat
      BY ConstantFacts
    <3> QED
      BY ONLY <1>1, <1>2, <2>1, <2>3, <3>1
  <2>5. lost => Room(session + 1) > StreamSize - 1
    <3>1. Room(session) <= Room(session + 1) /\ Room(session) \in Nat /\ Room(session + 1) \in Nat
      BY <1>1, RoomIs
    <3> QED
      BY <2>1, <3>1, ConstantFacts
  <2>6. burst' # 0
    BY <1>0, <1>1
  <2>7. lost' => Room(session') > StreamSize - 1
    BY <1>0, <2>5
  <2>8. StreamFill' + AfterPolls * PacketLen <= Room(burst')
    BY <1>0, <2>4
  <2> QED
    BY <1>0, <1>4, <2>2, <2>6, <2>7, <2>8 DEF BurstInv, Room
<1>11. RingType'
  BY <1>0, <1>1 DEF RingType
<1>12. PlaceType'
  BY <1>0, <1>1 DEF PlaceType
<1>13. TlsType'
  <2>1. session' \in Nat /\ burst' \in 0 .. session'
    BY <1>0, <1>1
  <2>2. got' \in Seq(TlsByte)
    BY <1>0, EmptySeq
  <2>3. reported' \in BOOLEAN
    BY <1>0
  <2> QED
    BY <2>1, <2>2, <2>3, Zenon DEF TlsType
<1> QED
  BY <1>2, <1>6, <1>7, <1>8, <1>9, <1>10, <1>11, <1>12, <1>13, AllKept

(* tty_rx_task returns, with the stream buffer empty. *)
LEMMA KeepDrained ==
    ASSUME RxInv, Drained
    PROVE  RxInv'
<1>0. /\ pc = "drain" /\ stream.rd = stream.wr /\ pc' = "poll"
      /\ UNCHANGED <<wire, sent, stream, ring, lost, line, parsed, executed, tls_active, session,
                     burst, got, reported, polls>>
  BY DEF Drained, host, input, console, tls
<1>1. /\ WireType /\ StreamType /\ RingType /\ LineType /\ PlaceType /\ TlsType
      /\ WireInv /\ AccInv /\ BurstInv /\ FreshSession /\ GapReported
  BY StepFacts
<1>2. StreamFill = 0
  BY <1>0, <1>1, DistanceIs, ConstantFacts DEF StreamFill, StreamType
<1>3. WireType' /\ WireInv' /\ NextNum' = NextNum
  BY <1>0, <1>1, WireUntouched
<1>4. AccInv' /\ StreamFill' = StreamFill
  BY <1>0, <1>1, <1>3, AccUntouched
<1>5. ReadInv' /\ FreshSession' /\ GapReported'
  BY <1>0, <1>1, NotReading, GotUntouched
<1>6. BurstInv'
  BY <1>0, <1>1, <1>2, <1>4 DEF BurstInv, Room
<1>7. RingType' /\ LineType'
  BY <1>0, <1>1 DEF RingType, LineType
<1>8. StreamType' /\ TlsType'
  BY <1>0, <1>1, Zenon DEF StreamType, TlsType
<1>9. PlaceType'
  BY <1>0, <1>1 DEF PlaceType
<1> QED
  BY <1>3, <1>4, <1>5, <1>6, <1>7, <1>8, <1>9, AllKept

(* The pass of the main loop. *)
LEMMA KeepPoll ==
    ASSUME RxInv, Poll
    PROVE  RxInv'
<1>0. /\ pc = "poll" /\ pc' = "drain" /\ DeviceTask /\ burst' = 0
      /\ UNCHANGED <<sent, line, parsed, executed, tls_active, session, got, reported, polls>>
  BY DEF Poll, console
<1>1. /\ WireType /\ StreamType /\ RingType /\ LineType /\ PlaceType /\ TlsType
      /\ WireInv /\ AccInv /\ BurstInv /\ FreshSession /\ GapReported
      /\ session \in 0 .. MaxBytes /\ session \in Nat /\ StreamFill \in Nat
  BY StepFacts
<1>2. StreamFill = 0 /\ ~tls_active
  BY <1>0, <1>1 DEF BurstInv, PlaceType
<1>3. /\ WireType' /\ StreamType' /\ RingType' /\ WireInv' /\ AccInv'
      /\ StreamFill' \in StreamFill .. StreamFill + PacketLen
      /\ lost' => lost \/ StreamFill + PacketLen > StreamSize - 1
  BY <1>0, <1>1, <1>2, DeviceTaskKeeps
<1>4. ReadInv' /\ FreshSession' /\ GapReported'
  BY <1>0, <1>1, NotReading, GotUntouched
<1>5. BurstInv'
  <2>1. PacketLen \in Nat /\ StreamSize \in Nat /\ PacketLen < StreamSize
    BY ConstantFacts
  <2>2. StreamFill' \in Nat /\ StreamFill' <= PacketLen
    BY ONLY <1>2, <1>3, <2>1
  <2>3. ~(StreamFill + PacketLen > StreamSize - 1)
    BY ONLY <1>2, <2>1
  <2>4. lost' => lost
    BY <1>3, <2>3
  <2>5. Room(0) = PacketLen + 1
    <3>1. 0 \in Nat /\ 0 <= 0
      OBVIOUS
    <3> QED
      BY <3>1, RoomIs
  <2>6. StreamFill' + (IF line' = <<>> THEN 0 ELSE 1) <= Room(0)
    BY ONLY <2>1, <2>2, <2>5
  <2>7. StreamFill' + (IF line' = <<>> THEN 0 ELSE 1) <= Room(burst')
    BY <1>0, <2>6
  <2>8. /\ session' + Len(line') <= Len(parsed')
        /\ lost' => Room(session') > StreamSize - 1
    BY <1>0, <1>1, <2>4 DEF BurstInv
  <2> QED
    BY <1>0, <2>2, <2>7, <2>8 DEF BurstInv, Room
<1>6. LineType'
  BY <1>0, <1>1 DEF LineType
<1>7. PlaceType'
  BY <1>0, <1>1 DEF PlaceType
<1>8. TlsType'
  <2>1. burst' \in 0 .. session'
    BY <1>0, <1>1
  <2> QED
    BY <1>0, <1>1, <2>1, Zenon DEF TlsType
<1> QED
  BY <1>3, <1>4, <1>5, <1>6, <1>7, <1>8, AllKept

(* The ring, reset, is empty. *)
LEMMA ResetIs ==
    ASSUME RingType, ring' = RingReset
    PROVE  RingType' /\ ring'.head = 0 /\ ring'.tail = 0
<1>1. 0 \in 0 .. RingSize - 1 /\ 0 \in Nat
  BY ConstantFacts
<1>2. ring' = [buf |-> ring.buf, head |-> 0, tail |-> 0, overflow |-> 0]
  BY DEF RingReset, RingType
<1>3. ring.buf \in [0 .. RingSize - 1 -> TlsByte]
  BY DEF RingType
<1> QED
  BY <1>1, <1>2, <1>3 DEF RingType

(* The ring is reset before the handshake. *)
LEMMA KeepStartHandshake ==
    ASSUME RxInv, StartHandshake
    PROVE  RxInv'
<1>0. /\ pc = "setup" /\ pc' = "connect" /\ ring' = RingReset
      /\ UNCHANGED <<wire, sent, stream, lost, line, parsed, executed, tls_active, session,
                     burst, got, reported, polls>>
  BY DEF StartHandshake, host, console, tls
<1>1. /\ WireType /\ StreamType /\ RingType /\ LineType /\ PlaceType /\ TlsType
      /\ WireInv /\ AccInv /\ ReadInv /\ BurstInv /\ FreshSession /\ GapReported
  BY StepFacts
<1>2. RingType' /\ ring'.head = 0 /\ ring'.tail = 0
  BY <1>0, <1>1, ResetIs
<1>3. WireType' /\ WireInv' /\ NextNum' = NextNum
  BY <1>0, <1>1, WireUntouched
<1>4. AccInv' /\ StreamFill' = StreamFill
  BY <1>0, <1>1, <1>3, AccUntouched
<1>5. ReadLen' = 0
  <2>1. RingFill' = Distance(0, 0, RingSize)
    BY <1>2 DEF RingFill
  <2>2. 0 \in 0 .. RingSize - 1
    BY ConstantFacts
  <2>3. Distance(0, 0, RingSize) = 0
    BY <2>2, DistanceIs, ConstantFacts
  <2>4. got' = <<>>
    BY <1>0, <1>1 DEF ReadInv
  <2>5. Len(got') = 0
    BY <2>4, EmptySeq
  <2> QED
    BY <2>1, <2>3, <2>5 DEF ReadLen
<1>6. ReadInv'
  BY <1>0, <1>5 DEF ReadInv
<1>7. FreshSession' /\ GapReported'
  BY <1>0, <1>1, GotUntouched
<1>8. BurstInv'
  BY <1>0, <1>1, <1>4 DEF BurstInv, Room
<1>9. LineType'
  BY <1>0, <1>1 DEF LineType
<1>10. StreamType' /\ TlsType'
  BY <1>0, <1>1, Zenon DEF StreamType, TlsType
<1>11. PlaceType'
  BY <1>0, <1>1 DEF PlaceType
<1> QED
  BY <1>2, <1>3, <1>4, <1>6, <1>7, <1>8, <1>9, <1>10, <1>11, AllKept

(* And after it, well or badly. *)
LEMMA KeepCleanup ==
    ASSUME RxInv, Cleanup
    PROVE  RxInv'
<1>0. /\ pc \in {"setup", "connect"} /\ pc' = "flush" /\ ring' = RingReset /\ polls' = FlushPolls
      /\ UNCHANGED <<wire, sent, stream, lost, line, parsed, executed, tls_active, session,
                     burst, got, reported>>
  BY DEF Cleanup, host, console, tls
<1>1. /\ WireType /\ StreamType /\ RingType /\ LineType /\ PlaceType /\ TlsType
      /\ WireInv /\ AccInv /\ ReadInv /\ BurstInv /\ FreshSession /\ GapReported
  BY StepFacts
<1>2. RingType'
  BY <1>0, <1>1, ResetIs
<1>3. WireType' /\ WireInv' /\ NextNum' = NextNum
  BY <1>0, <1>1, WireUntouched
<1>4. AccInv' /\ StreamFill' = StreamFill
  BY <1>0, <1>1, <1>3, AccUntouched
<1>5. ReadInv' /\ FreshSession' /\ GapReported'
  BY <1>0, <1>1, NotReading, GotUntouched
<1>6. BurstInv'
  BY <1>0, <1>1, <1>4 DEF BurstInv, Room
<1>7. LineType'
  BY <1>0, <1>1 DEF LineType
<1>8. StreamType' /\ TlsType'
  BY <1>0, <1>1, Zenon DEF StreamType, TlsType
<1>9. PlaceType'
  BY <1>0, <1>1, ConstantFacts DEF PlaceType
<1> QED
  BY <1>2, <1>3, <1>4, <1>5, <1>6, <1>7, <1>8, <1>9, AllKept

(* wolfSSL reads from the ring. *)
LEMMA KeepEmbedReceive ==
    ASSUME RxInv, NEW m \in 0 .. RingSize - 1, EmbedReceive(m)
    PROVE  RxInv'
<1>0. /\ pc = "connect" /\ pc' = "connect" /\ reported' = (reported \/ ring.overflow > 0)
      /\ UNCHANGED <<wire, sent, stream, lost, line, parsed, executed, tls_active, session, burst,
                     pc, polls>>
  BY DEF EmbedReceive, host, console
<1>1. /\ WireType /\ StreamType /\ RingType /\ LineType /\ PlaceType /\ TlsType
      /\ WireInv /\ AccInv /\ ReadInv /\ BurstInv /\ FreshSession /\ GapReported
  BY StepFacts
<1>2. /\ RingType' /\ got' \in Seq(TlsByte) /\ ring'.overflow = 0
      /\ Len(got) \in Nat /\ Len(got') = Len(got) + m
      /\ ReadLen \in Nat /\ Len(got') <= ReadLen
      /\ ReadLen' = ReadLen /\ \A k \in 1 .. ReadLen : TlsQueue'[k] = TlsQueue[k]
  BY <1>1, EmbedReceiveKeeps
<1>3. WireType' /\ WireInv' /\ NextNum' = NextNum
  BY <1>0, <1>1, WireUntouched
<1>4. AccInv' /\ StreamFill' = StreamFill
  BY <1>0, <1>1, <1>3, AccUntouched
<1>5. reported \/ ring.overflow > 0 => reported'
  BY <1>0
<1>6. /\ \A k \in 1 .. ReadLen : TlsQueue[k].session = session /\ TlsQueue[k].num < NextNum
      /\ \A k \in 1 .. ReadLen - 1 :
             /\ TlsQueue[k].num < TlsQueue[k + 1].num
             /\ TlsQueue[k + 1].num # TlsQueue[k].num + 1 => reported \/ ring.overflow > 0
      /\ ReadLen > 0 => TlsQueue[ReadLen].num + 1 = NextNum \/ reported \/ ring.overflow > 0
  BY <1>0, <1>1 DEF ReadInv
<1>7. /\ \A k \in 1 .. ReadLen : TlsQueue'[k].session = session /\ TlsQueue'[k].num < NextNum
      /\ \A k \in 1 .. ReadLen - 1 :
             /\ TlsQueue'[k].num < TlsQueue'[k + 1].num
             /\ TlsQueue'[k + 1].num # TlsQueue'[k].num + 1 => reported'
      /\ ReadLen > 0 => TlsQueue'[ReadLen].num + 1 = NextNum \/ reported'
  <2>1. \A k \in 1 .. ReadLen - 1 : k \in 1 .. ReadLen /\ k + 1 \in 1 .. ReadLen
    BY <1>2
  <2>2. ReadLen > 0 => ReadLen \in 1 .. ReadLen
    BY <1>2
  <2>3. \A k \in 1 .. ReadLen : TlsQueue'[k] = TlsQueue[k]
    BY <1>2
  <2> QED
    BY ONLY <1>5, <1>6, <2>1, <2>2, <2>3, Zenon
<1>8. ReadInv'
  BY <1>0, <1>2, <1>3, <1>7 DEF ReadInv
<1>9. ASSUME NEW k \in 1 .. Len(got')
      PROVE  k \in 1 .. ReadLen /\ got'[k] = TlsQueue'[k]
  <2>1. k \in 1 .. ReadLen /\ k \in 1 .. ReadLen' /\ k <= Len(got')
    BY <1>2
  <2>2. Read(k)' = got'[k]
    BY <2>1 DEF Read
  <2> QED
    BY <2>1, <2>2, QueuesAre
<1>10. FreshSession'
  <2>1. DOMAIN got' = 1 .. Len(got')
    BY <1>2, LenProperties
  <2>2. \A k \in 1 .. Len(got') : got'[k].session = session'
    BY <1>0, <1>7, <1>9
  <2> QED
    BY <2>1, <2>2 DEF FreshSession
<1>11. GapReported'
  <2>1. ASSUME NEW k \in 1 .. Len(got') - 1
        PROVE  got'[k].num < got'[k + 1].num /\ (got'[k + 1].num # got'[k].num + 1 => reported')
    <3>1. k \in 1 .. Len(got') /\ k + 1 \in 1 .. Len(got') /\ k \in 1 .. ReadLen - 1
      BY <1>2
    <3>2. got'[k] = TlsQueue'[k] /\ got'[k + 1] = TlsQueue'[k + 1]
      BY <1>9, <3>1
    <3> QED
      BY <1>7, <3>1, <3>2
  <2> QED
    BY <2>1 DEF GapReported
<1>12. BurstInv'
  BY <1>0, <1>1, <1>4 DEF BurstInv, Room
<1>13. LineType'
  BY <1>0, <1>1 DEF LineType
<1>14. StreamType' /\ PlaceType'
  BY <1>0, <1>1, Zenon DEF StreamType, PlaceType
<1>15. TlsType'
  <2>1. reported' \in BOOLEAN
    BY <1>0, Zenon
  <2> QED
    BY <1>0, <1>1, <1>2, <2>1, Zenon DEF TlsType
<1> QED
  BY <1>2, <1>3, <1>4, <1>8, <1>10, <1>11, <1>12, <1>13, <1>14, <1>15, AllKept

(* A pass of the USB stack while a session owns the input: the stream buffer is not
   touched, and nor is what wolfSSL has read.                              *)
LEMMA SessionPass ==
    ASSUME RxInv, tls_active, DeviceTask, pc' = pc, polls' \in Nat,
           UNCHANGED <<sent, line, parsed, executed, tls_active, session, burst, got, reported>>
    PROVE  /\ WireType' /\ StreamType' /\ RingType' /\ LineType' /\ PlaceType' /\ TlsType'
           /\ WireInv' /\ AccInv' /\ BurstInv' /\ FreshSession' /\ GapReported'
<1>1. /\ WireType /\ StreamType /\ RingType /\ LineType /\ PlaceType /\ TlsType
      /\ WireInv /\ AccInv /\ BurstInv /\ FreshSession /\ GapReported
      /\ session \in 0 .. MaxBytes /\ session \in Nat /\ burst \in Nat /\ burst <= session
  BY StepFacts
<1>2. pc \in {"setup", "connect", "flush"}
  BY <1>1 DEF PlaceType
<1>3. session # 0
  <2>1. burst # 0
    BY <1>1, <1>2 DEF BurstInv
  <2> QED
    BY <1>1, <2>1
<1>4. /\ WireType' /\ StreamType' /\ RingType' /\ WireInv' /\ AccInv'
      /\ UNCHANGED <<stream, lost>>
  BY <1>1, <1>3, DeviceTaskKeeps
<1>5. FreshSession' /\ GapReported'
  BY <1>1, GotUntouched
<1>6. BurstInv'
  BY <1>1, <1>2, <1>4, AccUntouched DEF BurstInv, Room
<1>7. LineType'
  BY <1>1 DEF LineType
<1>8. PlaceType' /\ TlsType'
  BY <1>1, Zenon DEF PlaceType, TlsType
<1> QED
  BY <1>4, <1>5, <1>6, <1>7, <1>8

(* A pass during the handshake, *)
LEMMA KeepHandshakePoll ==
    ASSUME RxInv, HandshakePoll
    PROVE  RxInv'
<1>0. /\ pc = "connect" /\ pc' = pc /\ DeviceTask
      /\ UNCHANGED <<sent, line, parsed, executed, tls_active, session, burst, got, reported, polls>>
  BY DEF HandshakePoll, console, tls
<1>1. /\ WireType /\ RingType /\ PlaceType /\ TlsType /\ WireInv /\ ReadInv
      /\ session \in 0 .. MaxBytes /\ polls \in Nat
  BY StepFacts
<1>2. tls_active
  BY <1>0, <1>1 DEF PlaceType
<1>3. ReadInv'
  BY <1>0, <1>1, <1>2, ReadGrows
<1>4. /\ WireType' /\ StreamType' /\ RingType' /\ LineType' /\ PlaceType' /\ TlsType'
      /\ WireInv' /\ AccInv' /\ BurstInv' /\ FreshSession' /\ GapReported'
  <2>1. polls' \in Nat
    BY <1>0, <1>1
  <2> QED
    BY <1>0, <1>2, <2>1, SessionPass
<1> QED
  BY <1>3, <1>4, AllKept

(* and one of the flush. *)
LEMMA KeepFlushPoll ==
    ASSUME RxInv, FlushPoll
    PROVE  RxInv'
<1>0. /\ pc = "flush" /\ pc' = pc /\ polls > 0 /\ polls' = polls - 1 /\ DeviceTask
      /\ UNCHANGED <<sent, line, parsed, executed, tls_active, session, burst, got, reported>>
  BY DEF FlushPoll, console, tls
<1>1. PlaceType /\ polls \in Nat
  BY StepFacts
<1>2. tls_active /\ polls' \in Nat
  <2>1. tls_active
    BY <1>0, <1>1 DEF PlaceType
  <2>2. polls' \in Nat
    BY <1>0, <1>1
  <2> QED
    BY <2>1, <2>2
<1>3. ReadInv'
  BY <1>0, NotReading
<1>4. /\ WireType' /\ StreamType' /\ RingType' /\ LineType' /\ PlaceType' /\ TlsType'
      /\ WireInv' /\ AccInv' /\ BurstInv' /\ FreshSession' /\ GapReported'
  BY <1>0, <1>2, SessionPass
<1> QED
  BY <1>3, <1>4, AllKept

(* The input goes back. *)
LEMMA KeepRelease ==
    ASSUME RxInv, Release
    PROVE  RxInv'
<1>0. /\ pc = "flush" /\ pc' = "after" /\ polls' = AfterPolls /\ tls_active' = FALSE
      /\ UNCHANGED <<wire, sent, stream, ring, lost, line, parsed, executed, session, burst, got,
                     reported>>
  BY DEF Release, host, input, console
<1>1. /\ WireType /\ StreamType /\ RingType /\ LineType /\ PlaceType /\ TlsType
      /\ WireInv /\ AccInv /\ BurstInv /\ FreshSession /\ GapReported
  BY StepFacts
<1>2. WireType' /\ WireInv' /\ NextNum' = NextNum
  BY <1>0, <1>1, WireUntouched
<1>3. AccInv' /\ StreamFill' = StreamFill
  BY <1>0, <1>1, <1>2, AccUntouched
<1>4. ReadInv' /\ FreshSession' /\ GapReported'
  BY <1>0, <1>1, NotReading, GotUntouched
<1>5. BurstInv'
  BY <1>0, <1>1, <1>3, ConstantFacts DEF BurstInv, Room
<1>6. RingType' /\ LineType'
  BY <1>0, <1>1 DEF RingType, LineType
<1>7. StreamType' /\ TlsType'
  BY <1>0, <1>1, Zenon DEF StreamType, TlsType
<1>8. PlaceType'
  <2>1. pc' \notin {"setup", "connect", "flush"} /\ pc' = "after" /\ tls_active' = FALSE
    BY <1>0
  <2>2. tls_active' = (pc' = "setup" \/ pc' = "connect" \/ pc' = "flush")
    BY <2>1
  <2>3. tls_active' = (pc' \in {"setup", "connect", "flush"})
    BY <2>2
  <2> QED
    BY <1>0, <2>3, ConstantFacts, Zenon DEF PlaceType
<1> QED
  BY <1>2, <1>3, <1>4, <1>5, <1>6, <1>7, <1>8, AllKept

(* A pass whose packet is for the interpreter again. *)
LEMMA KeepAfterPoll ==
    ASSUME RxInv, AfterPoll
    PROVE  RxInv'
<1>0. /\ pc = "after" /\ pc' = "after" /\ polls > 0 /\ polls' = polls - 1 /\ DeviceTask
      /\ UNCHANGED <<sent, line, parsed, executed, tls_active, session, burst, got, reported>>
  BY DEF AfterPoll, console, tls
<1>1. /\ WireType /\ StreamType /\ RingType /\ LineType /\ PlaceType /\ TlsType
      /\ WireInv /\ AccInv /\ BurstInv /\ FreshSession /\ GapReported
      /\ session \in 0 .. MaxBytes /\ session \in Nat /\ burst \in Nat /\ burst <= session
      /\ StreamFill \in Nat /\ polls \in Nat
      /\ Room(burst) \in Nat /\ Room(session) \in Nat /\ Room(burst) <= Room(session)
  BY StepFacts
<1>2. ~tls_active
  BY <1>0, <1>1 DEF PlaceType
<1>3. burst # 0 /\ session # 0
  <2>1. burst # 0
    BY <1>0, <1>1 DEF BurstInv
  <2> QED
    BY <1>1, <2>1
<1>4. /\ WireType' /\ StreamType' /\ RingType' /\ WireInv' /\ AccInv'
      /\ StreamFill' \in StreamFill .. StreamFill + PacketLen
      /\ lost' => lost \/ StreamFill + PacketLen > StreamSize - 1
  BY <1>0, <1>1, <1>2, <1>3, DeviceTaskKeeps
<1>5. ReadInv' /\ FreshSession' /\ GapReported'
  BY <1>0, <1>1, NotReading, GotUntouched
<1>6. BurstInv'
  <2>1. /\ session + Len(line) <= Len(parsed) /\ line = <<>> /\ polls <= AfterPolls
        /\ StreamFill + polls * PacketLen <= Room(burst)
        /\ lost => Room(session) > StreamSize - 1
    BY <1>0, <1>1 DEF BurstInv
  <2>2. /\ polls * PacketLen \in Nat /\ (polls - 1) * PacketLen \in Nat
        /\ polls * PacketLen = (polls - 1) * PacketLen + PacketLen
        /\ PacketLen <= polls * PacketLen
    BY <1>0, <1>1, PassLess
  <2>3. PacketLen \in Nat /\ AfterPolls \in Nat /\ StreamSize \in Nat
    BY ConstantFacts
  <2>4. StreamFill' + (polls - 1) * PacketLen <= Room(burst)
    BY ONLY <1>1, <1>4, <2>1, <2>2, <2>3
  <2>5. StreamFill + PacketLen > StreamSize - 1 => Room(session) > StreamSize - 1
    BY ONLY <1>1, <2>1, <2>2, <2>3
  <2>6. lost' => Room(session) > StreamSize - 1
    BY <1>4, <2>1, <2>5
  <2>7. polls' <= AfterPolls
    BY <1>0, <1>1, <2>1, <2>3
  <2>8. StreamFill' + polls' * PacketLen <= Room(burst')
    BY <1>0, <2>4
  <2>9. session' + Len(line') <= Len(parsed') /\ line' = <<>> /\ burst' # 0
    BY <1>0, <1>3, <2>1
  <2>10. lost' => Room(session') > StreamSize - 1
    BY <1>0, <2>6
  <2> QED
    BY <1>0, <2>7, <2>8, <2>9, <2>10 DEF BurstInv, Room
<1>7. LineType'
  BY <1>0, <1>1 DEF LineType
<1>8. PlaceType'
  <2>1. polls' \in Nat
    BY <1>0, <1>1
  <2> QED
    BY <1>0, <1>1, <2>1, Zenon DEF PlaceType
<1>9. TlsType'
  BY <1>0, <1>1, Zenon DEF TlsType
<1> QED
  BY <1>4, <1>5, <1>6, <1>7, <1>8, <1>9, AllKept

(* The command returns into the drain. *)
LEMMA KeepTlsDone ==
    ASSUME RxInv, TlsDone
    PROVE  RxInv'
<1>0. /\ pc = "after" /\ polls = 0 /\ pc' = "drain"
      /\ UNCHANGED <<wire, sent, stream, ring, lost, line, parsed, executed, tls_active, session,
                     burst, got, reported, polls>>
  BY DEF TlsDone, host, input, console, tls
<1>1. /\ WireType /\ StreamType /\ RingType /\ LineType /\ PlaceType /\ TlsType
      /\ WireInv /\ AccInv /\ BurstInv /\ FreshSession /\ GapReported /\ StreamFill \in Nat
  BY StepFacts
<1>2. WireType' /\ WireInv' /\ NextNum' = NextNum
  BY <1>0, <1>1, WireUntouched
<1>3. AccInv' /\ StreamFill' = StreamFill
  BY <1>0, <1>1, <1>2, AccUntouched
<1>4. ReadInv' /\ FreshSession' /\ GapReported'
  BY <1>0, <1>1, NotReading, GotUntouched
<1>5. BurstInv'
  <2>1. 0 * PacketLen = 0
    BY ConstantFacts
  <2>2. StreamFill + 0 * PacketLen <= Room(burst) /\ line = <<>> /\ burst # 0
    BY <1>0, <1>1 DEF BurstInv
  <2>3. StreamFill <= Room(burst)
    BY <1>1, <2>1, <2>2
  <2>4. StreamFill' + (IF line' = <<>> THEN 0 ELSE 1) <= Room(burst')
    BY <1>0, <1>1, <1>3, <2>2, <2>3
  <2>5. /\ session' + Len(line') <= Len(parsed') /\ burst' # 0
        /\ lost' => Room(session') > StreamSize - 1
    BY <1>0, <1>1, <2>2 DEF BurstInv
  <2> QED
    BY <1>0, <2>4, <2>5 DEF BurstInv, Room
<1>6. RingType' /\ LineType'
  BY <1>0, <1>1 DEF RingType, LineType
<1>7. StreamType' /\ TlsType'
  BY <1>0, <1>1, Zenon DEF StreamType, TlsType
<1>8. PlaceType'
  BY <1>0, <1>1 DEF PlaceType
<1> QED
  BY <1>2, <1>3, <1>4, <1>5, <1>6, <1>7, <1>8, AllKept

(* Nothing happens. *)
LEMMA KeepStutter ==
    ASSUME RxInv, UNCHANGED vars
    PROVE  RxInv'
<1>0. UNCHANGED <<wire, sent, stream, ring, lost, line, parsed, executed, tls_active, session,
                  burst, got, reported, pc, polls>>
  BY DEF vars
<1>1. /\ WireType /\ StreamType /\ RingType /\ LineType /\ PlaceType /\ TlsType
      /\ WireInv /\ AccInv /\ ReadInv /\ BurstInv /\ FreshSession /\ GapReported
  BY StepFacts
<1>2. WireType' /\ WireInv' /\ NextNum' = NextNum
  BY <1>0, <1>1, WireUntouched
<1>3. AccInv' /\ StreamFill' = StreamFill
  BY <1>0, <1>1, <1>2, AccUntouched
<1>4. ReadInv' /\ FreshSession' /\ GapReported'
  BY <1>0, <1>1, <1>2, ReadUntouched, GotUntouched
<1>5. BurstInv'
  BY <1>0, <1>1, <1>3 DEF BurstInv, Room
<1>6. RingType' /\ LineType'
  BY <1>0, <1>1 DEF RingType, LineType
<1>7. StreamType' /\ PlaceType' /\ TlsType'
  BY <1>0, <1>1, Zenon DEF StreamType, PlaceType, TlsType
<1> QED
  BY <1>2, <1>3, <1>4, <1>5, <1>6, <1>7, AllKept

-----------------------------------------------------------------------------
(* At the start everything is empty. *)
LEMMA InitIs ==
    ASSUME Init
    PROVE  RxInv
<1>1. /\ PacketLen \in Nat \ {0} /\ StreamSize \in Nat \ {0, 1} /\ RingSize \in Nat \ {0, 1}
      /\ MaxBytes \in Nat \ {0} /\ 0 \in 0 .. StreamSize - 1 /\ 0 \in 0 .. RingSize - 1
      /\ 0 \in 0 .. MaxBytes /\ LineSize \in Nat \ {0, 1}
  BY ConstantFacts
<1>2. NoByte \in Byte /\ NoTlsByte \in TlsByte
  BY <1>1 DEF NoByte, NoTlsByte, Byte, TlsByte, Symbols
<1>3. WireType
  BY <1>1, EmptySeq DEF Init, WireType
<1>4. StreamType
  BY <1>1, <1>2 DEF Init, StreamType
<1>5. RingType
  BY <1>1, <1>2 DEF Init, RingType
<1>6. LineType
  BY <1>1, EmptySeq DEF Init, LineType
<1>7. PlaceType
  <2>1. pc = "drain" /\ tls_active = FALSE /\ polls \in Nat
    BY DEF Init
  <2>2. pc \notin {"setup", "connect", "flush"}
    BY <2>1
  <2>3. tls_active = (pc = "setup" \/ pc = "connect" \/ pc = "flush")
    BY <2>1, <2>2
  <2>4. tls_active = (pc \in {"setup", "connect", "flush"})
    BY <2>3
  <2> QED
    BY <2>1, <2>4, Zenon DEF PlaceType
<1>8. TlsType
  <2>1. session \in Nat /\ burst \in 0 .. session
    BY DEF Init
  <2>2. got \in Seq(TlsByte)
    BY EmptySeq DEF Init
  <2>3. reported \in BOOLEAN
    BY DEF Init
  <2> QED
    BY <2>1, <2>2, <2>3, Zenon DEF TlsType
<1>9. /\ Len(wire) = 0 /\ Len(parsed) = 0 /\ Len(got) = 0 /\ Len(line) = 0
  BY EmptySeq DEF Init
<1>10. StreamFill = 0
  <2>1. stream.wr = 0 /\ stream.rd = 0
    BY DEF Init
  <2> QED
    BY <1>1, <2>1, DistanceIs DEF StreamFill
<1>11. WireInv
  BY <1>9 DEF Init, WireInv
<1>12. AccLen = 0 /\ NextNum = 1
  BY <1>9, <1>10 DEF AccLen, NextNum, Init
<1>13. AccInv
  BY <1>12 DEF AccInv
<1>14. ReadInv
  BY NotReading DEF Init, ReadInv
<1>15. BurstInv
  <2>1. Room(0) = PacketLen + 1
    <3>1. 0 \in Nat /\ 0 <= 0
      OBVIOUS
    <3> QED
      BY <3>1, RoomIs
  <2>2. StreamFill + (IF line = <<>> THEN 0 ELSE 1) <= Room(burst)
    BY <1>1, <1>10, <2>1 DEF Init
  <2> QED
    BY <1>1, <1>9, <1>10, <2>2 DEF Init, BurstInv
<1>16. FreshSession /\ GapReported
  <2>1. DOMAIN got = {}
    BY DEF Init
  <2> QED
    BY <1>9, <2>1 DEF FreshSession, GapReported
<1>17. TypeOK
  BY <1>3, <1>4, <1>5, <1>6, <1>7, <1>8, TypesAre
<1> QED
  BY <1>11, <1>13, <1>14, <1>15, <1>16, <1>17 DEF RxInv

(* The invariant holds throughout. *)
THEOREM Invariance == Spec => []RxInv
<1>1. Init => RxInv
  BY InitIs
<1>2. RxInv /\ [Next]_vars => RxInv'
  <2> SUFFICES ASSUME RxInv, [Next]_vars
               PROVE  RxInv'
    OBVIOUS
  <2>1. CASE RxTask
    BY <2>1, KeepRxTask
  <2>2. CASE TlsCommand
    BY <2>2, KeepTlsCommand
  <2>3. CASE Drained
    BY <2>3, KeepDrained
  <2>4. CASE Poll
    BY <2>4, KeepPoll
  <2>5. CASE StartHandshake
    BY <2>5, KeepStartHandshake
  <2>6. CASE HandshakePoll
    BY <2>6, KeepHandshakePoll
  <2>7. CASE Cleanup
    BY <2>7, KeepCleanup
  <2>8. ASSUME NEW m \in 0 .. RingSize - 1, EmbedReceive(m)
        PROVE  RxInv'
    BY <2>8, KeepEmbedReceive
  <2>9. CASE FlushPoll
    BY <2>9, KeepFlushPoll
  <2>10. CASE Release
    BY <2>10, KeepRelease
  <2>11. CASE AfterPoll
    BY <2>11, KeepAfterPoll
  <2>12. CASE TlsDone
    BY <2>12, KeepTlsDone
  <2>13. ASSUME NEW p \in Packets, HostSend(p)
         PROVE  RxInv'
    BY <2>13, KeepHostSend
  <2>14. CASE UNCHANGED vars
    BY <2>14, KeepStutter
  <2> QED
    BY <2>1, <2>2, <2>3, <2>4, <2>5, <2>6, <2>7, <2>8, <2>9, <2>10, <2>11, <2>12, <2>13, <2>14
       DEF Next, MainStep
<1> QED
  BY <1>1, <1>2, PTL DEF Spec

(* Every variable has its type: no index leaves its buffer, no line its length. *)
THEOREM TypeCorrect == Spec => []TypeOK
<1>1. RxInv => TypeOK
  BY DEF RxInv
<1> QED
  BY <1>1, Invariance, PTL

(* wolfSSL reads no byte of an earlier session. *)
THEOREM Fresh == Spec => []FreshSession
<1>1. RxInv => FreshSession
  BY DEF RxInv
<1> QED
  BY <1>1, Invariance, PTL

(* wolfSSL's bytes are in order, and it learns of an overflow before it reads past what
   the overflow cost.                                                      *)
THEOREM GapsReported == Spec => []GapReported
<1>1. RxInv => GapReported
  BY DEF RxInv
<1> QED
  BY <1>1, Invariance, PTL

(* The queue of the proofs is the one the properties speak of. *)
LEMMA AcceptedIs ==
    ASSUME StreamType, LineType
    PROVE  /\ Accepted \in Seq(Byte) /\ Len(Accepted) = AccLen /\ AccLen \in Nat
           /\ DOMAIN Accepted = 1 .. AccLen
           /\ \A k \in 1 .. AccLen : Accepted[k] = InQueue[k]
<1>1. /\ StreamFill \in 0 .. StreamSize - 1 /\ Len(parsed) \in Nat /\ AccLen \in Nat
      /\ StreamFill \in Nat /\ AccLen = Len(parsed) + StreamFill
      /\ StreamSize \in Nat \ {0} /\ parsed \in Seq(Byte)
  BY AccIs, ConstantFacts DEF AccLen, LineType
<1>2. ASSUME NEW k \in 1 .. StreamFill
      PROVE  stream.buf[(stream.rd + k) % StreamSize] \in Byte
  <2>1. stream.rd \in 0 .. StreamSize - 1 /\ stream.buf \in [0 .. StreamSize - 1 -> Byte]
    BY DEF StreamType
  <2>2. k \in 0 .. StreamSize
    BY <1>1
  <2>3. Place(stream.rd, k, StreamSize) \in 0 .. StreamSize - 1
    BY <1>1, <2>1, <2>2, PlaceIs
  <2> QED
    BY <2>1, <2>3 DEF Place
<1>3. Pending \in Seq(Byte) /\ Len(Pending) = StreamFill
  <2>1. Pending \in [1 .. StreamFill -> Byte]
    BY <1>2 DEF Pending
  <2> QED
    BY <1>1, <2>1, LenProperties
<1>4. /\ Accepted \in Seq(Byte) /\ Len(Accepted) = Len(parsed) + StreamFill
      /\ \A k \in 1 .. Len(parsed) + StreamFill :
             Accepted[k] = IF k <= Len(parsed) THEN parsed[k] ELSE Pending[k - Len(parsed)]
  BY <1>1, <1>3, ConcatProperties DEF Accepted
<1>5. ASSUME NEW k \in 1 .. AccLen
      PROVE  Accepted[k] = InQueue[k]
  <2>1. CASE k <= Len(parsed)
    <3>1. Accepted[k] = parsed[k] /\ Acc(k) = parsed[k]
      BY <1>1, <1>4, <2>1 DEF Acc
    <3> QED
      BY <3>1, QueuesAre
  <2>2. CASE ~(k <= Len(parsed))
    <3>1. k - Len(parsed) \in 1 .. StreamFill
      BY <1>1, <2>2
    <3>2. Accepted[k] = Pending[k - Len(parsed)]
      BY <1>1, <1>4, <2>2
    <3>3. Pending[k - Len(parsed)] = stream.buf[(stream.rd + (k - Len(parsed))) % StreamSize]
      BY <3>1 DEF Pending
    <3>4. Acc(k) = stream.buf[(stream.rd + (k - Len(parsed))) % StreamSize]
      BY <2>2 DEF Acc
    <3> QED
      BY <3>2, <3>3, <3>4, QueuesAre
  <2> QED
    BY <2>1, <2>2
<1> QED
  BY <1>1, <1>4, <1>5, LenProperties

(* The command interpreter gets bytes in order and at most once, and misses whole
   packets only.                                                           *)
THEOREM InWholePackets == Spec => []WholePacketsInOrder
<1>1. RxInv => WholePacketsInOrder
  <2> SUFFICES ASSUME RxInv, NEW k \in 1 .. Len(Accepted) - 1
               PROVE  /\ Accepted[k].num < Accepted[k + 1].num
                      /\ Accepted[k + 1].num # Accepted[k].num + 1 =>
                             "last" \in Accepted[k].edge /\ "first" \in Accepted[k + 1].edge
    BY DEF WholePacketsInOrder
  <2>1. StreamType /\ LineType /\ AccInv
    BY StepFacts
  <2>2. /\ Len(Accepted) = AccLen /\ AccLen \in Nat
        /\ \A i \in 1 .. AccLen : Accepted[i] = InQueue[i]
    BY <2>1, AcceptedIs
  <2>3. k \in 1 .. AccLen - 1 /\ k \in 1 .. AccLen /\ k + 1 \in 1 .. AccLen
    BY <2>2
  <2>4. Accepted[k] = InQueue[k] /\ Accepted[k + 1] = InQueue[k + 1]
    BY <2>2, <2>3
  <2> QED
    BY <2>1, <2>3, <2>4 DEF AccInv
<1> QED
  BY <1>1, Invariance, PTL

(* Until the first session every byte sent is parsed, buffered or under way. *)
THEOREM NothingMissing == Spec => []CommandsComplete
<1>1. RxInv => CommandsComplete
  <2> SUFFICES ASSUME RxInv, session = 0
               PROVE  /\ \A k \in DOMAIN Accepted : Accepted[k].num = k
                      /\ \A p \in DOMAIN wire : \A k \in DOMAIN wire[p] :
                             wire[p][k].num > Len(Accepted)
                      /\ wire = <<>> => Len(Accepted) = sent
    BY DEF CommandsComplete
  <2>1. WireType /\ StreamType /\ LineType /\ WireInv /\ AccInv /\ NextNum \in Nat
    BY StepFacts
  <2>2. /\ Len(Accepted) = AccLen /\ AccLen \in Nat /\ DOMAIN Accepted = 1 .. AccLen
        /\ \A i \in 1 .. AccLen : Accepted[i] = InQueue[i]
    BY <2>1, AcceptedIs
  <2>3. AccLen = NextNum - 1 /\ \A k \in 1 .. AccLen : InQueue[k].num = k
    BY <2>1 DEF AccInv
  <2>4. \A k \in DOMAIN Accepted : Accepted[k].num = k
    BY <2>2, <2>3
  <2>5. wire = <<>> => Len(Accepted) = sent
    <3>1. sent \in Nat
      BY <2>1, ConstantFacts DEF WireType
    <3> QED
      BY <2>2, <2>3, <3>1 DEF NextNum
  <2>6. ASSUME NEW p \in DOMAIN wire, NEW k \in DOMAIN wire[p]
        PROVE  wire[p][k].num > Len(Accepted)
    <3>1. p \in 1 .. Len(wire) /\ Len(wire) \in Nat
      BY <2>1, LenProperties DEF WireType
    <3>2. wire[p] \in Seq(Byte) /\ Len(wire[p]) \in Nat
      BY <2>1, <3>1, WireIs
    <3>3. k \in 1 .. Len(wire[p])
      BY <3>2, LenProperties
    <3>4. wire[p][k].num = wire[p][1].num + (k - 1) /\ Len(wire[p]) \in 1 .. PacketLen
      BY <2>1, <3>1, <3>3 DEF WireInv
    <3>5. 1 \in 1 .. Len(wire) /\ 1 \in 1 .. Len(wire[p]) /\ wire # <<>>
      BY <3>1, <3>2, <3>3, EmptySeq
    <3>6. wire[1][1].num \in Nat /\ wire[p][1].num \in Nat
      <4>1. 1 \in 1 .. Len(wire[1])
        BY <2>1, <3>5, WireIs, ConstantFacts DEF WireInv
      <4> QED
        BY <2>1, <3>1, <3>5, <4>1, WireIs, ConstantFacts
    <3>7. wire[1][1].num <= wire[p][1].num
      <4>1. CASE p = 1
        BY <3>6, <4>1
      <4>2. CASE p # 1
        <5>1. 1 < p
          BY <3>1, <4>2
        <5>2. wire[1][1].num + Len(wire[1]) <= wire[p][1].num
          BY <2>1, <3>1, <3>5, <5>1 DEF WireInv
        <5>3. Len(wire[1]) \in Nat
          BY <2>1, <3>5, WireIs
        <5> QED
          BY <3>6, <5>2, <5>3
      <4> QED
        BY <4>1, <4>2
    <3>8. NextNum = wire[1][1].num
      BY <3>5 DEF NextNum
    <3>9. wire[p][1].num <= wire[p][k].num /\ wire[p][k].num \in Nat
      BY ONLY <3>2, <3>3, <3>4, <3>6
    <3>10. wire[1][1].num = AccLen + 1
      BY <2>1, <2>2, <2>3, <3>8
    <3>11. Len(Accepted) = AccLen /\ AccLen \in Nat
      BY <2>2
    <3> QED
      BY ONLY <3>6, <3>7, <3>9, <3>10, <3>11
  <2> QED
    BY <2>4, <2>5, <2>6
<1> QED
  BY <1>1, Invariance, PTL

(* The stream buffer refuses a packet only after so many pipelined sessions that what
   their last passes let in exceeds it.                                    *)
THEOREM OnlyBursts == Spec => []OverflowNeedsBurst
<1>1. RxInv => OverflowNeedsBurst
  <2> SUFFICES ASSUME RxInv PROVE OverflowNeedsBurst
    OBVIOUS
  <2>1. /\ PlaceType /\ BurstInv /\ StreamFill \in Nat /\ Room(burst) \in Nat /\ polls \in Nat
        /\ PlaceType
    BY StepFacts
  <2>2. PacketLen \in Nat /\ AfterPolls * PacketLen \in Nat
    BY ConstantFacts
  <2>3. burst = 0 => StreamFill <= PacketLen
    BY <2>1 DEF BurstInv
  <2>4. lost => Room(session) > StreamSize - 1
    BY <2>1 DEF BurstInv
  <2>5. StreamFill <= Room(burst)
    <3>1. CASE pc = "drain"
      BY <2>1, <3>1 DEF BurstInv
    <3>2. CASE pc = "poll"
      BY <2>1, <3>2 DEF BurstInv
    <3>3. CASE pc \in {"setup", "connect", "flush"}
      <4>1. StreamFill + AfterPolls * PacketLen <= Room(burst)
        BY <2>1, <3>3 DEF BurstInv
      <4> QED
        BY ONLY <2>1, <2>2, <4>1
    <3>4. CASE pc = "after"
      <4>1. StreamFill + polls * PacketLen <= Room(burst)
        BY <2>1, <3>4 DEF BurstInv
      <4>2. polls * PacketLen \in Nat
        BY <2>1, <2>2
      <4> QED
        BY ONLY <2>1, <4>1, <4>2
    <3> QED
      BY <2>1, <3>1, <3>2, <3>3, <3>4 DEF PlaceType
  <2> QED
    BY <2>3, <2>4, <2>5 DEF OverflowNeedsBurst, Room
<1> QED
  BY <1>1, Invariance, PTL

-----------------------------------------------------------------------------
(* The line editor.  First, sets of positions: how many there are, and the i-th of
   them.                                                                   *)

(* A set of numbers that is not empty has a least element. *)
LEMMA LeastIs ==
    ASSUME NEW S \in SUBSET Nat, S # {}
    PROVE  \E m \in S : \A x \in S : m <= x
<1> DEFINE Below == {ss \in Nat \X Nat : ss[1] < ss[2]}
<1>1. IsWellFoundedOn(Below, Nat)
  BY NatLessThanWellFounded, Zenon DEF OpToRel
<1>2. PICK m \in S : \A y \in S : ~ (<<y, m>> \in Below)
  <2> HIDE DEF Below
  <2>1. \E x \in S : \A y \in S : ~ (<<y, x>> \in Below)
    BY ONLY <1>1, WFMin, S \in SUBSET Nat, S # {}
  <2>2. QED
    BY <2>1
<1>3. \A y \in S : ~ (y < m)
  BY <1>2
<1>4. QED
  BY <1>3

(* Positions are finitely many. *)
LEMMA PositionsAre ==
    ASSUME NEW n \in Nat, NEW S \in SUBSET (1 .. n)
    PROVE  IsFiniteSet(S) /\ Count(S) \in Nat
<1>1. IsFiniteSet(1 .. n)
  BY FS_Interval
<1>2. IsFiniteSet(S)
  BY <1>1, FS_Subset
<1>3. QED
  BY <1>2, FS_CardinalityType DEF Count

(* The only one with so many before it is the one. *)
LEMMA NthAlone ==
    ASSUME NEW T, NEW i, NEW m \in T, Count({l \in T : l < m}) = i - 1,
           \A k \in T : Count({l \in T : l < k}) = i - 1 => k = m
    PROVE  Nth(T, i) = m
BY Zenon DEF Nth

(* One more position behind the others: it is one more, it is the last, and the
   others are where they were.                                             *)
LEMMA NthGrows ==
    ASSUME NEW n \in Nat, NEW S \in SUBSET (1 .. n), NEW m \in Int, m > n
    PROVE  /\ Count(S \cup {m}) = Count(S) + 1
           /\ \A i \in 1 .. Count(S) : Nth(S \cup {m}, i) = Nth(S, i)
           /\ Nth(S \cup {m}, Count(S) + 1) = m
<1>1. /\ IsFiniteSet(S) /\ Count(S) \in Nat
      /\ m \notin S /\ \A l \in S : l \in Int /\ l < m
  <2>1. \A l \in S : l \in Int /\ l < m
    OBVIOUS
  <2>2. m \notin S
    BY <2>1
  <2>3. IsFiniteSet(S) /\ Count(S) \in Nat
    BY PositionsAre
  <2>4. QED
    BY <2>1, <2>2, <2>3
<1> DEFINE T == S \cup {m}
<1>2. Count(T) = Count(S) + 1
  BY <1>1, FS_AddElement DEF Count
<1>3. \A k \in S : {l \in T : l < k} = {l \in S : l < k}
  BY <1>1
<1>4. {l \in T : l < m} = S
  <2>1. ~ (m < m)
    OBVIOUS
  <2>2. \A l : l \in T <=> l \in S \/ l = m
    OBVIOUS
  <2> HIDE DEF T
  <2>3. QED
    BY <1>1, <2>1, <2>2
<1>5. ASSUME NEW k \in S PROVE Count({l \in S : l < k}) < Count(S)
  <2>1. {l \in S : l < k} \in SUBSET S /\ {l \in S : l < k} # S
    OBVIOUS
  <2>2. /\ Count({l \in S : l < k}) \in Nat
    <3>1. {l \in S : l < k} \in SUBSET (1 .. n)
      OBVIOUS
    <3>2. QED
      BY <3>1, PositionsAre
  <2>3. /\ Count({l \in S : l < k}) <= Count(S)
        /\ Count(S) = Count({l \in S : l < k}) => S = {l \in S : l < k}
    BY <1>1, <2>1, FS_Subset DEF Count
  <2>4. QED
    BY <1>1, <2>1, <2>2, <2>3
<1>6. ASSUME NEW i \in 1 .. Count(S) PROVE Nth(T, i) = Nth(S, i)
  <2>1. Count({l \in T : l < m}) # i - 1
    <3> HIDE DEF T
    <3>1. Count({l \in T : l < m}) = Count(S)
      BY <1>4, Zenon
    <3>2. QED
      BY <1>1, <3>1
  <2>2. \A k : (k \in T /\ Count({l \in T : l < k}) = i - 1)
                  <=> (k \in S /\ Count({l \in S : l < k}) = i - 1)
    <3> TAKE k
    <3>1. CASE k \in S
      <4>1. {l \in T : l < k} = {l \in S : l < k}
        BY <1>3, <3>1
      <4> HIDE DEF T
      <4>2. k \in T
        BY <3>1 DEF T
      <4>3. QED
        BY <3>1, <4>1, <4>2, Zenon
    <3>2. CASE k \notin S
      <4>1. k \in T => k = m
        BY <3>2
      <4> HIDE DEF T
      <4>2. QED
        BY <2>1, <3>2, <4>1, Zenon
    <3>3. QED
      BY <3>1, <3>2
  <2> HIDE DEF T
  <2>3. QED
    BY <2>2, Zenon DEF Nth
<1>7. Nth(T, Count(S) + 1) = m
  <2> DEFINE i == Count(S) + 1
  <2>1. i - 1 = Count(S)
    BY <1>1
  <2> HIDE DEF i
  <2>2. \A k \in S : Count({l \in T : l < k}) # i - 1
    <3> TAKE k \in S
    <3>1. {l \in T : l < k} = {l \in S : l < k}
      BY <1>3
    <3> HIDE DEF T
    <3>2. Count({l \in S : l < k}) < Count(S) /\ Count({l \in S : l < k}) \in Nat
      <4>1. {l \in S : l < k} \in SUBSET (1 .. n)
        OBVIOUS
      <4>2. QED
        BY <1>5, <4>1, PositionsAre
    <3>3. Count({l \in T : l < k}) = Count({l \in S : l < k})
      BY <3>1, Zenon
    <3>4. QED
      BY <1>1, <2>1, <3>2, <3>3
  <2>3. m \in T /\ Count({l \in T : l < m}) = i - 1
    BY <1>4, <2>1
  <2>4. \A k \in T : k \in S \/ k = m
    OBVIOUS
  <2> HIDE DEF T
  <2>5. \A k \in T : Count({l \in T : l < k}) = i - 1 => k = m
    BY <2>2, <2>4, Zenon
  <2>6. Nth(T, i) = m
    BY <2>3, <2>5, NthAlone, Zenon
  <2>7. QED
    BY <2>6 DEF i
<1>8. QED
  BY <1>2, <1>6, <1>7

(* The last of some positions. *)
LEMMA LastIs ==
    ASSUME NEW n \in Nat, NEW S \in SUBSET (1 .. n), S # {}
    PROVE  \E m \in S : S \ {m} \in SUBSET (1 .. m - 1)
<1> DEFINE U == {u \in Nat : \A k \in S : k <= u}
<1>1. U \in SUBSET Nat /\ n \in U
  OBVIOUS
<1>2. PICK m \in U : \A x \in U : m <= x
  <2> HIDE DEF U
  <2>1. QED
    BY <1>1, LeastIs
<1>3. m \in Nat /\ \A k \in S : k <= m
  BY <1>2
<1>4. m \in S
  <2>1. SUFFICES ASSUME m \notin S PROVE FALSE
    OBVIOUS
  <2>2. \A k \in S : k <= m - 1
    BY <1>3, <2>1
  <2>3. m - 1 \in Nat
    <3>1. PICK k \in S : k \in 1 .. n
      OBVIOUS
    <3>2. QED
      BY <1>3, <2>2, <3>1
  <2>4. m - 1 \in U
    BY <2>2, <2>3
  <2>5. QED
    BY <1>2, <1>3, <2>4
<1>5. S \ {m} \in SUBSET (1 .. m - 1)
  BY <1>3
<1>6. QED
  BY <1>4, <1>5

(* There is an i-th of them, up to their number. *)
LEMMA NthIs ==
    ASSUME NEW n \in Nat, NEW S \in SUBSET (1 .. n), NEW i \in 1 .. Count(S)
    PROVE  Nth(S, i) \in S
<1> DEFINE Bad == {m \in Nat : \E T \in SUBSET (1 .. m) :
                                 \E j \in 1 .. Count(T) : Nth(T, j) \notin T}
<1>1. SUFFICES ASSUME Bad # {} PROVE FALSE
  <2>1. n \notin Bad
    BY <1>1
  <2>2. QED
    BY <2>1
<1>2. PICK m \in Bad : \A x \in Bad : m <= x
  <2>1. Bad \in SUBSET Nat
    OBVIOUS
  <2> HIDE DEF Bad
  <2>2. QED
    BY <1>1, <2>1, LeastIs
<1>3. m \in Nat /\ \E T \in SUBSET (1 .. m) : \E j \in 1 .. Count(T) : Nth(T, j) \notin T
  BY <1>2
<1> HIDE DEF Bad
<1>4. PICK T \in SUBSET (1 .. m) : \E j \in 1 .. Count(T) : Nth(T, j) \notin T
  BY <1>3
<1>5. PICK j \in 1 .. Count(T) : Nth(T, j) \notin T
  BY <1>4
<1>6. T # {}
  <2>1. Count({}) = 0
    BY FS_EmptySet DEF Count
  <2>2. QED
    BY <1>5, <2>1
<1>7. PICK k \in T : T \ {k} \in SUBSET (1 .. k - 1)
  BY <1>3, <1>6, LastIs
<1> DEFINE R == T \ {k}
<1>8. /\ k \in 1 .. m /\ k \in Int /\ k > k - 1 /\ k - 1 \in Nat
      /\ R \in SUBSET (1 .. k - 1) /\ T = R \cup {k}
  BY <1>7
<1> HIDE DEF R
<1>9. /\ Count(R) \in Nat
      /\ Count(R \cup {k}) = Count(R) + 1
      /\ \A l \in 1 .. Count(R) : Nth(R \cup {k}, l) = Nth(R, l)
      /\ Nth(R \cup {k}, Count(R) + 1) = k
  <2>1. Count(R) \in Nat
    BY <1>8, PositionsAre
  <2>2. ASSUME NEW l \in Nat, R \in SUBSET (1 .. l), k \in Int, k > l
        PROVE  /\ Count(R \cup {k}) = Count(R) + 1
               /\ \A a \in 1 .. Count(R) : Nth(R \cup {k}, a) = Nth(R, a)
               /\ Nth(R \cup {k}, Count(R) + 1) = k
    BY <2>2, NthGrows, Zenon
  <2>3. QED
    BY <1>8, <2>1, <2>2, Zenon
<1>10. CASE j = Count(R) + 1
  BY <1>5, <1>7, <1>8, <1>9, <1>10
<1>11. CASE j # Count(R) + 1
  <2>1. j \in 1 .. Count(R)
    <3>1. j \in 1 .. Count(T) /\ Count(T) = Count(R) + 1
      BY <1>8, <1>9
    <3>2. QED
      BY ONLY <1>9, <1>11, <3>1
  <2>2. Nth(R, j) \notin R
    <3>1. Nth(T, j) = Nth(R, j)
      BY <1>8, <1>9, <2>1
    <3>2. QED
      BY <1>5, <1>8, <3>1
  <2>3. k - 1 \in Bad
    BY <1>8, <2>1, <2>2 DEF Bad
  <2>4. QED
    BY <1>2, <1>3, <1>8, <2>3
<1>12. QED
  BY <1>10, <1>11

-----------------------------------------------------------------------------
(* q is p and one character more, c. *)
Grown(p, q, c) ==
    /\ Len(p) \in Nat /\ Len(q) = Len(p) + 1
    /\ DOMAIN p = 1 .. Len(p) /\ DOMAIN q = 1 .. Len(q)
    /\ \A k \in 1 .. Len(p) : q[k] = p[k]
    /\ q[Len(p) + 1].sym = c

(* The characters in a part of p are the same in q, *)
LEMMA CountsSame ==
    ASSUME NEW p, NEW q, NEW c, Grown(p, q, c), NEW S \in SUBSET (1 .. Len(p))
    PROVE  /\ Erased(q, S) = Erased(p, S) /\ Erased(p, S) \in Nat
           /\ Typed(q, S) = Typed(p, S) /\ Typed(p, S) \in Nat
<1>1. Len(p) \in Nat /\ \A k \in S : q[k] = p[k]
  BY DEF Grown
<1>2. /\ {k \in S : q[k].sym = "bs"} = {k \in S : p[k].sym = "bs"}
      /\ {k \in S : q[k].sym # "bs"} = {k \in S : p[k].sym # "bs"}
  BY <1>1
<1>3. /\ {k \in S : p[k].sym = "bs"} \in SUBSET (1 .. Len(p))
      /\ {k \in S : p[k].sym # "bs"} \in SUBSET (1 .. Len(p))
  OBVIOUS
<1>4. Erased(p, S) \in Nat /\ Typed(p, S) \in Nat
  BY <1>1, <1>3, PositionsAre DEF Erased, Typed
<1>5. QED
  BY <1>2, <1>4 DEF Erased, Typed

(* and one more with the new one. *)
LEMMA CountsGrow ==
    ASSUME NEW p, NEW q, NEW c, Grown(p, q, c), NEW S \in SUBSET (1 .. Len(p)),
           NEW m, m = Len(p) + 1
    PROVE  /\ c = "bs" => /\ Erased(q, S \cup {m}) = Erased(p, S) + 1
                          /\ Typed(q, S \cup {m}) = Typed(p, S)
           /\ c # "bs" => /\ Erased(q, S \cup {m}) = Erased(p, S)
                          /\ Typed(q, S \cup {m}) = Typed(p, S) + 1
<1>1. /\ Len(p) \in Nat /\ \A k \in S : q[k] = p[k]
      /\ q[m].sym = c /\ m \in Int /\ m > Len(p)
  BY DEF Grown
<1> DEFINE E == {k \in S : p[k].sym = "bs"}
           C == {k \in S : p[k].sym # "bs"}
<1>2. E \in SUBSET (1 .. Len(p)) /\ C \in SUBSET (1 .. Len(p))
  OBVIOUS
<1>3. /\ c = "bs" => /\ {k \in S \cup {m} : q[k].sym = "bs"} = E \cup {m}
                     /\ {k \in S \cup {m} : q[k].sym # "bs"} = C
      /\ c # "bs" => /\ {k \in S \cup {m} : q[k].sym = "bs"} = E
                     /\ {k \in S \cup {m} : q[k].sym # "bs"} = C \cup {m}
  BY <1>1
<1>4. Erased(p, S) = Count(E) /\ Typed(p, S) = Count(C)
  BY DEF Erased, Typed
<1> HIDE DEF E, C
<1>5. Count(E \cup {m}) = Count(E) + 1 /\ Count(C \cup {m}) = Count(C) + 1
  BY <1>1, <1>2, NthGrows
<1>6. QED
  BY <1>3, <1>4, <1>5 DEF Erased, Typed

(* The line up to an old position is the same, *)
LEMMA SegmentSame ==
    ASSUME NEW p, NEW q, NEW c, Grown(p, q, c), NEW e \in 1 .. Len(p) + 1
    PROVE  /\ Segment(q, e) = Segment(p, e)
           /\ Segment(p, e) \in SUBSET (1 .. e - 1)
           /\ Segment(p, e) \in SUBSET (1 .. Len(p))
<1>1. Len(p) \in Nat /\ \A k \in 1 .. e - 1 : k \in 1 .. Len(p) /\ q[k] = p[k]
  BY DEF Grown
<1>2. \A k \in 1 .. e - 1 : \A j \in k .. e - 1 : j \in 1 .. e - 1
  BY <1>1
<1>3. \A k \in 1 .. e - 1 : (\A j \in k .. e - 1 : q[j].sym # "nl")
                              <=> (\A j \in k .. e - 1 : p[j].sym # "nl")
  BY <1>1, <1>2
<1>4. QED
  BY <1>1, <1>3 DEF Segment

(* and begins anew behind its end, or goes on. *)
LEMMA SegmentGrows ==
    ASSUME NEW p, NEW q, NEW c, Grown(p, q, c), NEW m, m = Len(p) + 1
    PROVE  /\ c = "nl" => Segment(q, m + 1) = {}
           /\ c # "nl" => Segment(q, m + 1) = Segment(p, m) \cup {m}
<1>1. /\ Len(p) \in Nat /\ m \in Nat /\ q[m].sym = c
      /\ \A k \in 1 .. m - 1 : q[k] = p[k]
      /\ m + 1 - 1 = m
  BY DEF Grown
<1>2. \A k \in 1 .. m : m \in k .. m
  BY <1>1
<1>3. c = "nl" => Segment(q, m + 1) = {}
  BY <1>1, <1>2 DEF Segment
<1>4. ASSUME c # "nl" PROVE Segment(q, m + 1) = Segment(p, m) \cup {m}
  <2>1. ASSUME NEW k \in 1 .. m
        PROVE  (\A j \in k .. m : q[j].sym # "nl")
                   <=> (k = m \/ (\A j \in k .. m - 1 : p[j].sym # "nl"))
    <3>1. \A j \in k .. m : j = m \/ j \in k .. m - 1
      BY <1>1
    <3>2. \A j \in k .. m - 1 : j \in k .. m /\ j \in 1 .. m - 1
      BY <1>1
    <3>3. k = m => k .. m = {m}
      BY <1>1
    <3>4. CASE k = m
      BY <1>1, <1>4, <3>3, <3>4
    <3>5. CASE k # m
      BY <1>1, <1>4, <3>1, <3>2, <3>5
    <3>6. QED
      BY <3>4, <3>5
  <2>2. \A k : k \in 1 .. m <=> k \in 1 .. m - 1 \/ k = m
    BY <1>1
  <2>3. QED
    BY <1>1, <2>1, <2>2 DEF Segment
<1>5. QED
  BY <1>3, <1>4

(* A character that stays up to an old position does so in both, *)
LEMMA StaysSame ==
    ASSUME NEW p, NEW q, NEW c, Grown(p, q, c), NEW e \in 1 .. Len(p) + 1, NEW k \in 1 .. e - 1
    PROVE  Stays(q, k, e) <=> Stays(p, k, e)
<1>1. Len(p) \in Nat /\ k \in 1 .. Len(p) /\ q[k] = p[k]
  BY DEF Grown
<1>2. ASSUME NEW j \in k + 1 .. e - 1
      PROVE  /\ Erased(q, k + 1 .. j) = Erased(p, k + 1 .. j)
             /\ Typed(q, k + 1 .. j) = Typed(p, k + 1 .. j)
  <2>1. k + 1 .. j \in SUBSET (1 .. Len(p))
    BY <1>1
  <2>2. QED
    BY <2>1, CountsSame
<1>3. QED
  BY <1>1, <1>2 DEF Stays

(* and one more position behind it is one more condition. *)
LEMMA StaysGrows ==
    ASSUME NEW p, NEW q, NEW c, Grown(p, q, c), NEW m, m = Len(p) + 1
    PROVE  /\ Stays(q, m, m + 1) <=> c # "bs"
           /\ \A k \in 1 .. m - 1 :
                 Stays(q, k, m + 1) <=> /\ Stays(p, k, m)
                                        /\ Erased(q, k + 1 .. m) <= Typed(q, k + 1 .. m)
<1>1. /\ Len(p) \in Nat /\ m \in 1 .. Len(p) + 1 /\ m \in Nat /\ m + 1 - 1 = m /\ q[m].sym = c
      /\ m + 1 .. m = {}
  BY DEF Grown
<1>2. Stays(q, m, m + 1) <=> c # "bs"
  BY <1>1 DEF Stays
<1>3. ASSUME NEW k \in 1 .. m - 1
      PROVE  Stays(q, k, m + 1) <=> /\ Stays(p, k, m)
                                    /\ Erased(q, k + 1 .. m) <= Typed(q, k + 1 .. m)
  <2>1. \A j : j \in k + 1 .. m <=> j \in k + 1 .. m - 1 \/ j = m
    BY <1>1
  <2>2. Stays(q, k, m + 1) <=> /\ Stays(q, k, m)
                               /\ Erased(q, k + 1 .. m) <= Typed(q, k + 1 .. m)
    BY <1>1, <2>1 DEF Stays
  <2>3. Stays(q, k, m) <=> Stays(p, k, m)
    BY <1>1, StaysSame
  <2>4. QED
    BY <2>2, <2>3
<1>4. QED
  BY <1>2, <1>3

(* How many more characters than erasures there are behind k. *)
Above(p, k) == Typed(p, k + 1 .. Len(p)) - Erased(p, k + 1 .. Len(p))

(* A character typed is one more, an erasure one less. *)
LEMMA AboveGrows ==
    ASSUME NEW p, NEW q, NEW c, Grown(p, q, c), NEW k \in 1 .. Len(p)
    PROVE  /\ Above(p, k) \in Int
           /\ Above(q, k) = IF c = "bs" THEN Above(p, k) - 1 ELSE Above(p, k) + 1
           /\ Erased(q, k + 1 .. Len(p) + 1) <= Typed(q, k + 1 .. Len(p) + 1)
                  <=> Above(q, k) >= 0
<1> DEFINE S == k + 1 .. Len(p)
           m == Len(p) + 1
<1>1. /\ Len(p) \in Nat /\ Len(q) = m /\ S \in SUBSET (1 .. Len(p))
      /\ k + 1 .. m = S \cup {m}
  BY DEF Grown
<1>2. Above(p, k) = Typed(p, S) - Erased(p, S)
  BY DEF Above
<1>3. Above(q, k) = Typed(q, S \cup {m}) - Erased(q, S \cup {m})
  BY <1>1 DEF Above
<1>4. Erased(p, S) \in Nat /\ Typed(p, S) \in Nat
  BY <1>1, CountsSame
<1> HIDE DEF S
<1>5. /\ c = "bs" => /\ Erased(q, S \cup {m}) = Erased(p, S) + 1
                     /\ Typed(q, S \cup {m}) = Typed(p, S)
      /\ c # "bs" => /\ Erased(q, S \cup {m}) = Erased(p, S)
                     /\ Typed(q, S \cup {m}) = Typed(p, S) + 1
  BY <1>1, CountsGrow
<1>6. /\ Above(q, k) = IF c = "bs" THEN Above(p, k) - 1 ELSE Above(p, k) + 1
      /\ Erased(q, S \cup {m}) \in Nat /\ Typed(q, S \cup {m}) \in Nat
  BY <1>2, <1>3, <1>4, <1>5
<1>7. Erased(q, S \cup {m}) <= Typed(q, S \cup {m}) <=> Above(q, k) >= 0
  BY <1>3, <1>6
<1>8. Above(p, k) \in Int
  BY <1>2, <1>4
<1>9. QED
  BY <1>1, <1>6, <1>7, <1>8

(* The characters that stay up to an old position are the same, *)
LEMMA KeptSame ==
    ASSUME NEW p, NEW q, NEW c, Grown(p, q, c), NEW e \in 1 .. Len(p) + 1
    PROVE  Kept(q, e) = Kept(p, e) /\ Kept(p, e) \in SUBSET (1 .. Len(p))
<1>1. Segment(q, e) = Segment(p, e) /\ Segment(p, e) \in SUBSET (1 .. e - 1)
      /\ Segment(p, e) \in SUBSET (1 .. Len(p))
  BY SegmentSame
<1>2. \A k \in Segment(p, e) : Stays(q, k, e) <=> Stays(p, k, e)
  BY <1>1, StaysSame
<1>3. QED
  BY <1>1, <1>2 DEF Kept

(* The characters that stay, each with as many of them behind it as there are
   more characters than erasures.                                          *)
Balanced(p) ==
    \A k \in Kept(p, Len(p) + 1) :
        Count({l \in Kept(p, Len(p) + 1) : l > k}) = Above(p, k)

(* a new one stays, *)
LEMMA KeptTyped ==
    ASSUME NEW p, NEW q, NEW c, Grown(p, q, c), c # "bs", c # "nl", Balanced(p),
           NEW m, m = Len(p) + 1
    PROVE  Kept(q, m + 1) = Kept(p, m) \cup {m} /\ Balanced(q)
<1> DEFINE K == Kept(p, m)
<1>1. /\ Len(p) \in Nat /\ Len(q) = m /\ m \in Int /\ m > Len(p) /\ m \in 1 .. Len(p) + 1
      /\ m - 1 = Len(p)
  BY DEF Grown
<1>2. Segment(p, m) \in SUBSET (1 .. Len(p)) /\ Segment(q, m + 1) = Segment(p, m) \cup {m}
  BY <1>1, SegmentSame, SegmentGrows
<1>3. K \in SUBSET (1 .. Len(p))
  BY <1>1, KeptSame
<1>4. ASSUME NEW k \in K PROVE Above(p, k) \in Nat
  <2>1. {l \in K : l > k} \in SUBSET (1 .. Len(p))
    BY <1>3
  <2>2. Count({l \in K : l > k}) \in Nat
    BY <1>1, <2>1, PositionsAre
  <2>3. QED
    BY <2>2 DEF Balanced
<1>5. \A k \in 1 .. Len(p) : Above(q, k) = Above(p, k) + 1
                               /\ (Erased(q, k + 1 .. m) <= Typed(q, k + 1 .. m)
                                     <=> Above(q, k) >= 0)
  BY AboveGrows
<1>6. \A k \in Segment(p, m) : Stays(q, k, m + 1) <=> Stays(p, k, m)
  <2> TAKE k \in Segment(p, m)
  <2>1. k \in 1 .. m - 1
    BY <1>1, <1>2
  <2>2. Stays(q, k, m + 1) <=> Stays(p, k, m) /\ Above(q, k) >= 0
    BY <1>1, <1>5, <2>1, StaysGrows
  <2>3. Stays(p, k, m) => Above(p, k) >= 0
    BY <1>4 DEF Kept
  <2>4. Above(p, k) \in Int
    BY <1>1, <2>1, AboveGrows
  <2>5. QED
    BY <1>1, <1>5, <2>1, <2>2, <2>3, <2>4
<1>7. Stays(q, m, m + 1)
  BY StaysGrows
<1>8. Kept(q, m + 1) = K \cup {m}
  BY <1>2, <1>6, <1>7 DEF Kept
<1> HIDE DEF K
<1>9. ASSUME NEW k \in K \cup {m} PROVE Count({l \in K \cup {m} : l > k}) = Above(q, k)
  <2>1. CASE k \in K
    <3> DEFINE R == {l \in K : l > k}
    <3>1. {l \in K \cup {m} : l > k} = R \cup {m}
      BY <1>1, <1>3, <2>1
    <3>2. R \in SUBSET (1 .. Len(p))
      BY <1>3
    <3> HIDE DEF R
    <3>3. Count(R \cup {m}) = Count(R) + 1
      BY <1>1, <3>2, NthGrows
    <3>4. Count(R) = Above(p, k)
      BY <2>1 DEF Balanced, R, K
    <3>5. QED
      BY <1>3, <1>5, <2>1, <3>1, <3>3, <3>4
  <2>2. CASE k = m
    <3>1. {l \in K \cup {m} : l > m} = {}
      <4>1. \A l \in K \cup {m} : ~ (l > m)
        BY <1>1, <1>3
      <4>2. QED
        BY <4>1
    <3>2. Count({}) = 0
      BY FS_EmptySet DEF Count
    <3>3. m + 1 .. Len(q) = {}
      BY <1>1
    <3>4. Typed(q, {}) = 0 /\ Erased(q, {}) = 0
      <4>1. {j \in {} : q[j].sym = "bs"} = {} /\ {j \in {} : q[j].sym # "bs"} = {}
        OBVIOUS
      <4>2. QED
        BY <3>2, <4>1 DEF Typed, Erased
    <3>5. Above(q, m) = 0
      <4>1. Typed(q, m + 1 .. Len(q)) = 0 /\ Erased(q, m + 1 .. Len(q)) = 0
        BY <3>3, <3>4, Zenon
      <4>2. QED
        BY <4>1 DEF Above
    <3>6. QED
      BY <2>2, <3>1, <3>2, <3>5
  <2>3. QED
    BY <2>1, <2>2
<1>10. Balanced(q)
  BY <1>1, <1>8, <1>9 DEF Balanced
<1>11. QED
  BY <1>8, <1>10 DEF K

(* an erasure takes the last one, *)
LEMMA KeptErased ==
    ASSUME NEW p, NEW q, Grown(p, q, "bs"), Balanced(p), NEW m, m = Len(p) + 1
    PROVE  /\ Balanced(q)
           /\ Kept(p, m) = {} => Kept(q, m + 1) = {}
           /\ Kept(p, m) # {} =>
                 \E x \in Kept(p, m) : /\ Kept(q, m + 1) = Kept(p, m) \ {x}
                                       /\ Kept(q, m + 1) \in SUBSET (1 .. x - 1)
<1> DEFINE K == Kept(p, m)
<1>1. /\ Len(p) \in Nat /\ Len(q) = m /\ m \in Int /\ m > Len(p) /\ m \in 1 .. Len(p) + 1
      /\ m - 1 = Len(p)
  BY DEF Grown
<1>2. Segment(p, m) \in SUBSET (1 .. Len(p)) /\ Segment(q, m + 1) = Segment(p, m) \cup {m}
  BY <1>1, SegmentSame, SegmentGrows
<1>3. K \in SUBSET (1 .. Len(p))
  BY <1>1, KeptSame
<1>4. \A k \in K : Count({l \in K : l > k}) = Above(p, k)
  BY DEF Balanced
<1>5. ASSUME NEW k \in K
      PROVE  /\ {l \in K : l > k} \in SUBSET (1 .. Len(p))
             /\ Above(p, k) \in Nat
             /\ Above(p, k) = 0 <=> \A l \in K : ~ (l > k)
  <2>1. {l \in K : l > k} \in SUBSET (1 .. Len(p))
    BY <1>3
  <2>2. IsFiniteSet({l \in K : l > k}) /\ Count({l \in K : l > k}) \in Nat
    BY <1>1, <2>1, PositionsAre
  <2>3. Count({l \in K : l > k}) = 0 <=> {l \in K : l > k} = {}
    BY <2>2, FS_EmptySet DEF Count
  <2>4. {l \in K : l > k} = {} <=> \A l \in K : ~ (l > k)
    OBVIOUS
  <2> HIDE DEF K
  <2>5. QED
    BY <1>4, <2>1, <2>2, <2>3, <2>4
<1>6. \A k \in 1 .. Len(p) : Above(q, k) = Above(p, k) - 1
                               /\ (Erased(q, k + 1 .. m) <= Typed(q, k + 1 .. m)
                                     <=> Above(q, k) >= 0)
  BY AboveGrows
<1>7. \A k \in Segment(p, m) : Stays(q, k, m + 1) <=> Stays(p, k, m) /\ Above(q, k) >= 0
  <2> TAKE k \in Segment(p, m)
  <2>1. k \in 1 .. m - 1
    BY <1>1, <1>2
  <2>2. QED
    BY <1>1, <1>6, <2>1, StaysGrows
<1>8. ~Stays(q, m, m + 1)
  BY StaysGrows
<1>9. Kept(q, m + 1) = {k \in K : Above(q, k) >= 0}
  BY <1>2, <1>7, <1>8 DEF Kept
<1>10. \A k \in K : Above(q, k) >= 0 <=> \E l \in K : l > k
  <2> TAKE k \in K
  <2>1. Above(q, k) = Above(p, k) - 1
    BY <1>3, <1>6
  <2>2. QED
    BY <1>5, <2>1
<1> HIDE DEF K
<1>11. CASE K = {}
  <2>1. Kept(q, m + 1) = {}
    BY <1>9, <1>11
  <2>2. Balanced(q)
    BY <1>1, <2>1 DEF Balanced
  <2>3. QED
    BY <1>11, <2>1, <2>2 DEF K
<1>12. CASE K # {}
  <2>1. PICK x \in K : K \ {x} \in SUBSET (1 .. x - 1)
    BY <1>1, <1>3, <1>12, LastIs
  <2>2. \A k \in K : k \in Int /\ (k # x => k < x)
    BY <1>3, <2>1
  <2> DEFINE R == K \ {x}
  <2>3. Kept(q, m + 1) = R
    <3>1. \A k \in K : (\E l \in K : l > k) <=> k # x
      BY <2>2
    <3>2. QED
      BY <1>9, <1>10, <3>1
  <2>4. ASSUME NEW k \in R PROVE Count({l \in R : l > k}) = Above(q, k)
    <3>1. k \in K /\ k \in 1 .. Len(p) /\ x > k
      BY <1>3, <2>2
    <3> DEFINE B == {l \in R : l > k}
    <3>2. {l \in K : l > k} = B \cup {x}
      BY <2>1, <3>1
    <3>3. B \in SUBSET (1 .. x - 1) /\ x \in Int /\ x - 1 \in Nat /\ x > x - 1
      <4>1. B \in SUBSET R
        OBVIOUS
      <4>2. x \in 1 .. Len(p)
        BY <1>3
      <4>3. R \in SUBSET (1 .. x - 1)
        BY <2>1
      <4>4. B \in SUBSET (1 .. x - 1)
        BY <4>1, <4>3, Zenon
      <4>5. QED
        BY <1>1, <4>2, <4>4
    <3> HIDE DEF B
    <3>4. Count(B \cup {x}) = Count(B) + 1 /\ Count(B) \in Nat
      BY <3>3, NthGrows, PositionsAre
    <3>5. Count(B) + 1 = Above(p, k)
      BY <1>4, <3>1, <3>2, <3>4
    <3>6. Above(q, k) = Above(p, k) - 1
      BY <1>6, <3>1
    <3>7. QED
      BY <3>4, <3>5, <3>6 DEF B
  <2> HIDE DEF R
  <2>5. Balanced(q)
    BY <1>1, <2>3, <2>4 DEF Balanced
  <2>6. QED
    BY <1>12, <2>1, <2>3, <2>5 DEF K, R
<1>13. QED
  BY <1>11, <1>12

(* and the end of the line leaves none. *)
LEMMA KeptEnded ==
    ASSUME NEW p, NEW q, Grown(p, q, "nl"), NEW m, m = Len(p) + 1
    PROVE  Kept(q, m + 1) = {} /\ Balanced(q)
<1>1. Segment(q, m + 1) = {} /\ Len(q) = m
  BY SegmentGrows DEF Grown
<1>2. Kept(q, m + 1) = {}
  BY <1>1 DEF Kept
<1>3. QED
  BY <1>1, <1>2 DEF Balanced

-----------------------------------------------------------------------------
(* A sequence with one element more, and with one less. *)
LEMMA AppendIs ==
    ASSUME NEW n \in Nat, NEW f, f = [i \in 1 .. n |-> f[i]], NEW x
    PROVE  /\ Len(f) = n
           /\ Append(f, x) = [i \in 1 .. n + 1 |-> IF i = n + 1 THEN x ELSE f[i]]
<1> DEFINE S == {f[i] : i \in 1 .. n} \cup {x}
<1>1. f \in Seq(S) /\ x \in S
  OBVIOUS
<1>2. Len(f) = n
  OBVIOUS
<1> HIDE DEF S
<1>3. /\ Append(f, x) \in Seq(S) /\ Len(Append(f, x)) = n + 1
      /\ \A i \in 1 .. n : Append(f, x)[i] = f[i]
      /\ Append(f, x)[n + 1] = x
  BY <1>1, <1>2
<1>4. QED
  BY <1>2, <1>3

(* and one with its last element taken off. *)
LEMMA FrontIs ==
    ASSUME NEW n \in Nat, NEW f, f = [i \in 1 .. n |-> f[i]]
    PROVE  SubSeq(f, 1, n - 1) = [i \in 1 .. n - 1 |-> f[i]]
<1> DEFINE S == {f[i] : i \in 1 .. n}
<1>1. f \in Seq(S) /\ Len(f) = n
  OBVIOUS
<1> HIDE DEF S
<1>2. QED
  BY <1>1

(* The line up to an old position, *)
LEMMA LineIs ==
    ASSUME NEW p, NEW q, NEW c, Grown(p, q, c), NEW e \in 1 .. Len(p) + 1
    PROVE  /\ LineAt(q, e) = LineAt(p, e)
           /\ Count(Kept(p, e)) \in Nat
           /\ Lower(Count(Kept(p, e)), LineSize - 1) \in Nat
           /\ LineAt(p, e) = [i \in 1 .. Lower(Count(Kept(p, e)), LineSize - 1) |->
                                 p[Nth(Kept(p, e), i)].sym]
           /\ \A i \in 1 .. Count(Kept(p, e)) :
                 q[Nth(Kept(p, e), i)] = p[Nth(Kept(p, e), i)]
<1> DEFINE K == Kept(p, e)
           n == Lower(Count(K), LineSize - 1)
<1>1. Kept(q, e) = K /\ K \in SUBSET (1 .. Len(p))
  BY KeptSame
<1>2. Len(p) \in Nat /\ \A k \in 1 .. Len(p) : q[k] = p[k]
  BY DEF Grown
<1> HIDE DEF K
<1>3. Count(K) \in Nat
  BY <1>1, <1>2, PositionsAre
<1>4. n \in Nat /\ n <= Count(K)
  BY <1>3, ConstantFacts DEF Lower
<1>5. ASSUME NEW i \in 1 .. Count(K) PROVE q[Nth(K, i)] = p[Nth(K, i)]
  <2>1. Nth(K, i) \in 1 .. Len(p)
    BY <1>1, <1>2, NthIs
  <2>2. QED
    BY <1>2, <2>1
<1>6. \A i \in 1 .. n : i \in 1 .. Count(K)
  BY <1>3, <1>4
<1> HIDE DEF n
<1>7. [i \in 1 .. n |-> q[Nth(K, i)].sym] = [i \in 1 .. n |-> p[Nth(K, i)].sym]
  BY <1>5, <1>6
<1>8. LineAt(q, e) = [i \in 1 .. n |-> q[Nth(K, i)].sym]
  BY <1>1 DEF LineAt, n
<1>9. LineAt(p, e) = [i \in 1 .. n |-> p[Nth(K, i)].sym]
  BY DEF LineAt, n, K
<1>10. QED
  BY <1>3, <1>4, <1>5, <1>7, <1>8, <1>9 DEF n, K

(* with a new character, as far as there is room, *)
LEMMA LineTyped ==
    ASSUME NEW p, NEW q, NEW c, Grown(p, q, c), c # "bs", c # "nl", Balanced(p),
           NEW m, m = Len(p) + 1
    PROVE  LineAt(q, m + 1) = IF Len(LineAt(p, m)) < LineSize - 1
                              THEN Append(LineAt(p, m), c)
                              ELSE LineAt(p, m)
<1> DEFINE K == Kept(p, m)
           f == LineAt(p, m)
           n == Lower(Count(K), LineSize - 1)
<1>1. /\ Len(p) \in Nat /\ m \in 1 .. Len(p) + 1 /\ m \in Int /\ m > Len(p) /\ q[m].sym = c
      /\ LineSize - 1 \in Nat
  BY ConstantFacts DEF Grown
<1>2. K \in SUBSET (1 .. Len(p)) /\ Kept(q, m + 1) = K \cup {m}
  BY <1>1, KeptSame, KeptTyped
<1>3. /\ Count(K) \in Nat /\ n \in Nat
      /\ f = [i \in 1 .. n |-> p[Nth(K, i)].sym]
      /\ \A i \in 1 .. Count(K) : q[Nth(K, i)] = p[Nth(K, i)]
  <2>1. Count(K) \in Nat /\ n \in Nat
    BY <1>1, LineIs, Zenon
  <2>2. f = [i \in 1 .. n |-> p[Nth(K, i)].sym]
    BY <1>1, LineIs
  <2>3. \A i \in 1 .. Count(K) : q[Nth(K, i)] = p[Nth(K, i)]
    BY <1>1, LineIs
  <2>4. QED
    BY <2>1, <2>2, <2>3
<1> HIDE DEF K, f
<1>4. /\ Count(K \cup {m}) = Count(K) + 1
      /\ \A i \in 1 .. Count(K) : Nth(K \cup {m}, i) = Nth(K, i)
      /\ Nth(K \cup {m}, Count(K) + 1) = m
  BY ONLY <1>1, <1>2, NthGrows
<1>5. LineAt(q, m + 1) = [i \in 1 .. Lower(Count(K) + 1, LineSize - 1) |->
                             q[Nth(K \cup {m}, i)].sym]
  BY <1>2, <1>4 DEF LineAt
<1>6. Len(f) = n /\ f = [i \in 1 .. n |-> f[i]]
  BY <1>3
<1>7. CASE Count(K) < LineSize - 1
  <2>1. n = Count(K) /\ Lower(Count(K) + 1, LineSize - 1) = n + 1
    BY <1>1, <1>3, <1>7 DEF Lower
  <2>2. Append(f, c) = [i \in 1 .. n + 1 |-> IF i = n + 1 THEN c ELSE f[i]]
    BY <1>3, <1>6, AppendIs
  <2> HIDE DEF n
  <2>3. ASSUME NEW i \in 1 .. n + 1
        PROVE  q[Nth(K \cup {m}, i)].sym = IF i = n + 1 THEN c ELSE f[i]
    <3>1. CASE i = n + 1
      BY <1>1, <1>4, <2>1, <3>1
    <3>2. CASE i # n + 1
      <4>1. i \in 1 .. n /\ i \in 1 .. Count(K)
        BY <1>3, <2>1, <3>2
      <4>2. QED
        BY <1>3, <1>4, <3>2, <4>1
    <3>3. QED
      BY <3>1, <3>2
  <2>4. LineAt(q, m + 1) = Append(f, c)
    BY <1>5, <2>1, <2>2, <2>3
  <2>5. QED
    BY <1>6, <1>7, <2>1, <2>4 DEF f
<1>8. CASE ~ (Count(K) < LineSize - 1)
  <2>1. n = LineSize - 1 /\ Lower(Count(K) + 1, LineSize - 1) = n /\ n <= Count(K)
    BY <1>1, <1>3, <1>8 DEF Lower
  <2> HIDE DEF n
  <2>2. ASSUME NEW i \in 1 .. n
        PROVE  q[Nth(K \cup {m}, i)].sym = p[Nth(K, i)].sym
    <3>1. i \in 1 .. Count(K)
      BY <1>3, <2>1
    <3>2. QED
      BY <1>3, <1>4, <3>1
  <2>3. LineAt(q, m + 1) = f
    BY <1>3, <1>5, <2>1, <2>2
  <2>4. ~ (Len(f) < LineSize - 1)
    BY <1>1, <1>6, <2>1
  <2>5. QED
    BY <2>3, <2>4 DEF f
<1>9. QED
  BY <1>7, <1>8

(* without its last character, if all of it had room, *)
LEMMA LineErased ==
    ASSUME NEW p, NEW q, Grown(p, q, "bs"), Balanced(p), NEW m, m = Len(p) + 1,
           Count(Kept(p, m)) <= LineSize - 1
    PROVE  LineAt(q, m + 1) = SubSeq(LineAt(p, m), 1, Len(LineAt(p, m)) - 1)
<1> DEFINE K == Kept(p, m)
           f == LineAt(p, m)
           n == Lower(Count(K), LineSize - 1)
<1>1. /\ Len(p) \in Nat /\ m \in 1 .. Len(p) + 1 /\ m \in Int /\ LineSize - 1 \in Nat
  BY ConstantFacts DEF Grown
<1>2. K \in SUBSET (1 .. Len(p))
  BY <1>1, KeptSame
<1>3. /\ Count(K) \in Nat /\ n \in Nat
      /\ f = [i \in 1 .. n |-> p[Nth(K, i)].sym]
      /\ \A i \in 1 .. Count(K) : q[Nth(K, i)] = p[Nth(K, i)]
  <2>1. Count(K) \in Nat /\ n \in Nat
    BY <1>1, LineIs, Zenon
  <2>2. f = [i \in 1 .. n |-> p[Nth(K, i)].sym]
    BY <1>1, LineIs
  <2>3. \A i \in 1 .. Count(K) : q[Nth(K, i)] = p[Nth(K, i)]
    BY <1>1, LineIs
  <2>4. QED
    BY <2>1, <2>2, <2>3
<1>4. n = Count(K)
  BY <1>1, <1>3 DEF Lower
<1> HIDE DEF n, f
<1>5. Len(f) = n /\ SubSeq(f, 1, n - 1) = [i \in 1 .. n - 1 |-> f[i]]
  <2>1. Len(f) = n /\ f = [i \in 1 .. n |-> f[i]]
    BY <1>3
  <2>2. QED
    BY <1>3, <2>1, FrontIs
<1>6. LineAt(q, m + 1) = [i \in 1 .. n - 1 |-> f[i]]
  <2>1. CASE K = {}
    <3>1. Kept(q, m + 1) = {}
      BY <2>1, KeptErased
    <3>2. Count({}) = 0 /\ n = 0
      <4>1. Count({}) = 0
        BY FS_EmptySet DEF Count
      <4> HIDE DEF K
      <4>2. QED
        BY <1>4, <2>1, <4>1
    <3>3. Lower(0, LineSize - 1) = 0
      BY ConstantFacts DEF Lower
    <3>4. 1 .. n - 1 = {} /\ 1 .. 0 = {}
      BY <3>2
    <3>5. LineAt(q, m + 1) = [i \in {} |-> q[Nth({}, i)].sym]
      BY <3>1, <3>2, <3>3, <3>4 DEF LineAt
    <3>6. QED
      BY <3>4, <3>5
  <2>2. CASE K # {}
    <3>1. PICK x \in K : Kept(q, m + 1) = K \ {x} /\ K \ {x} \in SUBSET (1 .. x - 1)
      BY <2>2, KeptErased
    <3> DEFINE R == K \ {x}
    <3>2. K = R \cup {x} /\ x \in 1 .. Len(p) /\ R \in SUBSET (1 .. x - 1)
      BY <1>2, <3>1
    <3>3. x - 1 \in Nat /\ x \in Int /\ x > x - 1
      BY <1>1, <3>2
    <3> HIDE DEF R, K
    <3>4. /\ Count(R \cup {x}) = Count(R) + 1 /\ Count(R) \in Nat
          /\ \A i \in 1 .. Count(R) : Nth(R \cup {x}, i) = Nth(R, i)
      BY <3>2, <3>3, NthGrows, PositionsAre
    <3>5. Count(R) = n - 1 /\ Lower(n - 1, LineSize - 1) = n - 1
      <4>1. n = Count(R) + 1
        BY <1>4, <3>2, <3>4
      <4>2. n <= LineSize - 1
        BY <1>4 DEF K
      <4>3. QED
        BY <1>1, <1>3, <3>4, <4>1, <4>2 DEF Lower
    <3>6. LineAt(q, m + 1) = [i \in 1 .. n - 1 |-> q[Nth(R, i)].sym]
      BY <3>1, <3>5 DEF LineAt, R
    <3>7. ASSUME NEW i \in 1 .. n - 1 PROVE q[Nth(R, i)].sym = f[i]
      <4>1. i \in 1 .. n /\ i \in 1 .. Count(K) /\ i \in 1 .. Count(R)
        BY <1>3, <1>4, <3>5
      <4>2. Nth(K, i) = Nth(R, i)
        BY <3>2, <3>4, <4>1, Zenon
      <4>3. QED
        BY <1>3, <4>1, <4>2
    <3>8. QED
      BY <3>6, <3>7
  <2>3. QED
    BY <2>1, <2>2
<1>7. QED
  BY <1>5, <1>6 DEF f

(* and nothing behind its end. *)
LEMMA LineEnded ==
    ASSUME NEW p, NEW q, Grown(p, q, "nl"), NEW m, m = Len(p) + 1
    PROVE  LineAt(q, m + 1) = <<>>
<1>1. Kept(q, m + 1) = {} /\ Count({}) = 0
  BY KeptEnded, FS_EmptySet DEF Count
<1>2. Lower(0, LineSize - 1) = 0
  BY ConstantFacts DEF Lower
<1>3. LineAt(q, m + 1) = [i \in 1 .. 0 |-> q[Nth({}, i)].sym]
  BY <1>1, <1>2 DEF LineAt
<1>4. QED
  BY <1>3

-----------------------------------------------------------------------------
(* Whether a line is plain up to an old position is the same; what is plain was so
   one character before, and where a plain line loses a character, all of it had
   room.                                                                   *)
LEMMA PlainIs ==
    ASSUME NEW p, NEW q, NEW c, Grown(p, q, c), NEW m, m = Len(p) + 1
    PROVE  /\ \A e \in 1 .. m : Plainly(q, e) <=> Plainly(p, e)
           /\ c # "nl" /\ Plainly(q, m + 1) => Plainly(p, m)
           /\ c = "bs" /\ Plainly(q, m + 1) => Count(Kept(p, m)) <= LineSize - 1
<1>1. Len(p) \in Nat /\ m \in 1 .. Len(p) + 1
  BY DEF Grown
<1>2. ASSUME NEW e \in 1 .. m PROVE Plainly(q, e) <=> Plainly(p, e)
  <2>1. Segment(q, e) = Segment(p, e) /\ Segment(p, e) \in SUBSET (1 .. Len(p))
    BY SegmentSame
  <2>2. /\ Erased(q, Segment(p, e)) = Erased(p, Segment(p, e))
        /\ Typed(q, Segment(p, e)) = Typed(p, Segment(p, e))
    BY <2>1, CountsSame
  <2>3. QED
    BY <2>1, <2>2 DEF Plainly
<1> DEFINE S == Segment(p, m)
<1>3. S \in SUBSET (1 .. Len(p)) /\ Kept(p, m) \in SUBSET {k \in S : p[k].sym # "bs"}
  BY <1>1, SegmentSame DEF Kept, Stays
<1>4. Erased(p, S) \in Nat /\ Typed(p, S) \in Nat
  BY <1>3, CountsSame
<1>8. Plainly(p, m) <=> (Erased(p, S) = 0 \/ Typed(p, S) < LineSize)
  BY DEF Plainly, S
<1>9. c # "nl" => (Plainly(q, m + 1)
                     <=> (Erased(q, S \cup {m}) = 0 \/ Typed(q, S \cup {m}) < LineSize))
  <2>1. c # "nl" => Segment(q, m + 1) = S \cup {m}
    BY SegmentGrows
  <2>2. QED
    BY <2>1, Zenon DEF Plainly
<1> HIDE DEF S
<1>5. ASSUME c # "nl", Plainly(q, m + 1) PROVE Plainly(p, m)
  <2>1. Erased(q, S \cup {m}) = 0 \/ Typed(q, S \cup {m}) < LineSize
    BY <1>5, <1>9
  <2>2. CASE c = "bs"
    <3>1. Erased(q, S \cup {m}) = Erased(p, S) + 1 /\ Typed(q, S \cup {m}) = Typed(p, S)
      BY <1>3, <2>2, CountsGrow
    <3>2. QED
      BY <1>4, <1>8, <2>1, <3>1, ConstantFacts
  <2>3. CASE c # "bs"
    <3>1. Erased(q, S \cup {m}) = Erased(p, S) /\ Typed(q, S \cup {m}) = Typed(p, S) + 1
      BY <1>3, <2>3, CountsGrow
    <3>2. QED
      BY <1>4, <1>8, <2>1, <3>1, ConstantFacts
  <2>4. QED
    BY <2>2, <2>3
<1>6. ASSUME c = "bs", Plainly(q, m + 1) PROVE Count(Kept(p, m)) <= LineSize - 1
  <2>1. Erased(q, S \cup {m}) = 0 \/ Typed(q, S \cup {m}) < LineSize
    BY <1>6, <1>9
  <2>2. Erased(q, S \cup {m}) = Erased(p, S) + 1 /\ Typed(q, S \cup {m}) = Typed(p, S)
    BY <1>3, <1>6, CountsGrow
  <2>3. Typed(p, S) < LineSize
    BY <1>4, <2>1, <2>2, ConstantFacts
  <2> DEFINE C == {k \in S : p[k].sym # "bs"}
  <2>4. C \in SUBSET (1 .. Len(p)) /\ Kept(p, m) \in SUBSET C
    BY <1>3
  <2>5. Typed(p, S) = Count(C)
    BY DEF Typed
  <2> HIDE DEF C
  <2>6. IsFiniteSet(C) /\ Count(C) \in Nat
    BY <1>1, <2>4, PositionsAre
  <2>7. Count(Kept(p, m)) <= Count(C) /\ Count(Kept(p, m)) \in Nat
    <3>1. Kept(p, m) \in SUBSET (1 .. Len(p))
      BY <2>4
    <3>2. Count(Kept(p, m)) \in Nat
      BY <1>1, <3>1, PositionsAre
    <3>3. Count(Kept(p, m)) <= Count(C)
      BY <2>4, <2>6, FS_Subset DEF Count
    <3>4. QED
      BY <3>2, <3>3
  <2>8. QED
    BY <2>3, <2>5, <2>6, <2>7, ConstantFacts
<1>7. QED
  BY <1>2, <1>5, <1>6

(* The lines of a text, and one more with the end of one. *)
Lines(p) == [i \in 1 .. Count(LineEnds(p)) |-> LineAt(p, Nth(LineEnds(p), i))]

(* The end of a line that is not empty adds it; nothing else adds any. *)
LEMMA LinesGrow ==
    ASSUME NEW p, NEW q, NEW c, Grown(p, q, c), NEW m, m = Len(p) + 1
    PROVE  Lines(q) = IF c = "nl" /\ LineAt(p, m) # <<>>
                      THEN Append(Lines(p), LineAt(p, m))
                      ELSE Lines(p)
<1> DEFINE E == LineEnds(p)
           l == LineAt(p, m)
<1>1. /\ Len(p) \in Nat /\ m \in 1 .. Len(p) + 1 /\ m \in Int /\ m > Len(p)
      /\ DOMAIN p = 1 .. Len(p) /\ DOMAIN q = 1 .. m /\ q[m].sym = c
      /\ \A k \in 1 .. Len(p) : q[k] = p[k]
  BY DEF Grown
<1>2. E \in SUBSET (1 .. Len(p)) /\ Count(E) \in Nat
  <2>1. E \in SUBSET (1 .. Len(p))
    BY <1>1 DEF LineEnds
  <2> HIDE DEF E
  <2>2. QED
    BY <1>1, <2>1, PositionsAre
<1>3. \A e \in 1 .. m : LineAt(q, e) = LineAt(p, e)
  BY <1>1, LineIs
<1>4. \A i \in 1 .. Count(E) : Nth(E, i) \in E /\ Nth(E, i) \in 1 .. m
  <2> HIDE DEF E
  <2>1. \A i \in 1 .. Count(E) : Nth(E, i) \in E
    BY <1>1, <1>2, NthIs
  <2>2. QED
    BY <1>1, <1>2, <2>1
<1>5. \A k : k \in LineEnds(q) <=> k \in E \/ (k = m /\ c = "nl" /\ l # <<>>)
  <2> TAKE k
  <2>1. CASE k \in 1 .. Len(p)
    <3>1. k \in 1 .. m /\ k # m /\ q[k] = p[k] /\ LineAt(q, k) = LineAt(p, k)
      BY <1>1, <1>3, <2>1
    <3>2. QED
      BY <1>1, <2>1, <3>1 DEF LineEnds
  <2>2. CASE k = m
    <3>1. k \in 1 .. m /\ k \notin E /\ q[k].sym = c /\ LineAt(q, k) = l
      BY <1>1, <1>2, <1>3, <2>2
    <3>2. QED
      BY <1>1, <2>2, <3>1 DEF LineEnds
  <2>3. CASE k \notin 1 .. Len(p) /\ k # m
    <3>1. k \notin 1 .. m
      BY <1>1, <2>3
    <3>2. QED
      BY <1>1, <1>2, <2>3, <3>1 DEF LineEnds
  <2>4. QED
    BY <2>1, <2>2, <2>3
<1> HIDE DEF E, l
<1>6. Lines(p) = [i \in 1 .. Count(E) |-> LineAt(p, Nth(E, i))]
  BY DEF Lines, E
<1>7. CASE c = "nl" /\ l # <<>>
  <2>1. LineEnds(q) = E \cup {m}
    BY <1>5, <1>7
  <2>2. /\ Count(E \cup {m}) = Count(E) + 1
        /\ \A i \in 1 .. Count(E) : Nth(E \cup {m}, i) = Nth(E, i)
        /\ Nth(E \cup {m}, Count(E) + 1) = m
    BY ONLY <1>1, <1>2, NthGrows
  <2> DEFINE n == Count(E)
             f == Lines(p)
  <2>3. f = [i \in 1 .. n |-> f[i]] /\ \A i \in 1 .. n : f[i] = LineAt(p, Nth(E, i))
    BY <1>6
  <2>4. Lines(q) = [i \in 1 .. n + 1 |-> LineAt(q, Nth(E \cup {m}, i))]
    BY <2>1, <2>2 DEF Lines
  <2> HIDE DEF f
  <2>5. Append(f, l) = [i \in 1 .. n + 1 |-> IF i = n + 1 THEN l ELSE f[i]]
    BY <1>2, <2>3, AppendIs
  <2>6. ASSUME NEW i \in 1 .. n + 1
        PROVE  LineAt(q, Nth(E \cup {m}, i)) = IF i = n + 1 THEN l ELSE f[i]
    <3>1. CASE i = n + 1
      BY <1>1, <1>3, <2>2, <3>1 DEF l
    <3>2. CASE i # n + 1
      <4>1. i \in 1 .. n
        BY <1>2, <3>2
      <4>2. Nth(E \cup {m}, i) = Nth(E, i) /\ Nth(E, i) \in 1 .. m
        BY <1>4, <2>2, <4>1
      <4>3. QED
        BY <1>3, <2>3, <3>2, <4>1, <4>2
    <3>3. QED
      BY <3>1, <3>2
  <2> HIDE DEF n
  <2>7. Lines(q) = Append(f, l)
    BY <2>4, <2>5, <2>6
  <2>8. QED
    BY <1>7, <2>7 DEF f, l
<1>8. CASE ~ (c = "nl" /\ l # <<>>)
  <2>1. LineEnds(q) = E
    BY <1>5, <1>8
  <2>2. Lines(q) = [i \in 1 .. Count(E) |-> LineAt(q, Nth(E, i))]
    BY <2>1 DEF Lines
  <2>3. \A i \in 1 .. Count(E) : LineAt(q, Nth(E, i)) = LineAt(p, Nth(E, i))
    BY <1>3, <1>4
  <2>4. Lines(q) = Lines(p)
    BY <1>6, <2>2, <2>3
  <2>5. QED
    BY <1>8, <2>4 DEF l
<1>9. QED
  BY <1>7, <1>8

-----------------------------------------------------------------------------
(* The line being assembled is the line of the reference, as long as that one is
   plain, and the lines executed are those of the reference.               *)
EditInv ==
    /\ Balanced(parsed)
    /\ Plainly(parsed, Len(parsed) + 1) => line = LineAt(parsed, Len(parsed) + 1)
    /\ LinesAsParsed

(* What the run checks, in terms of the lines of a text. *)
LEMMA AsParsedIs ==
    /\ LinesAsParsed <=> ((\A e \in DOMAIN parsed : parsed[e].sym = "nl" => Plainly(parsed, e))
                              => executed = Lines(parsed))
    /\ LinesAsParsed' <=> ((\A e \in DOMAIN parsed' : parsed'[e].sym = "nl" => Plainly(parsed', e))
                              => executed' = Lines(parsed'))
  BY DEF LinesAsParsed, Lines, LineEnds, LineAt, Plainly, Kept, Stays, Segment, Erased, Typed,
         Nth, Count

(* The parts of the invariant in the next state speak of the next text. *)
LEMMA PrimesAre ==
    /\ Balanced(parsed)' <=> Balanced(parsed')
    /\ Plainly(parsed, Len(parsed) + 1)' <=> Plainly(parsed', Len(parsed') + 1)
    /\ LineAt(parsed, Len(parsed) + 1)' = LineAt(parsed', Len(parsed') + 1)
<1>1. Balanced(parsed)' <=> Balanced(parsed')
  BY DEF Balanced, Kept, Stays, Segment, Erased, Typed, Above, Count
<1>2. Plainly(parsed, Len(parsed) + 1)' <=> Plainly(parsed', Len(parsed') + 1)
  BY DEF Plainly, Segment, Erased, Typed, Count
<1>3. LineAt(parsed, Len(parsed) + 1)' = LineAt(parsed', Len(parsed') + 1)
  BY DEF LineAt, Kept, Stays, Segment, Erased, Typed, Nth, Count
<1> QED
  BY <1>1, <1>2, <1>3

(* A character taken from the stream buffer is behind the text so far. *)
LEMMA TakenGrows ==
    ASSUME StreamType, LineType, GetChar, lost' = lost
    PROVE  /\ Grown(parsed, parsed', NextChar.sym) /\ NextChar.sym \in Symbols
           /\ Len(parsed) \in Nat
<1>1. NextChar \in Byte /\ parsed \in Seq(Byte) /\ parsed' = Append(parsed, NextChar)
  BY GetCharKeeps DEF GetChar, LineType
<1>2. /\ Len(parsed') = Len(parsed) + 1 /\ parsed' \in Seq(Byte)
      /\ \A k \in 1 .. Len(parsed) : parsed'[k] = parsed[k]
      /\ parsed'[Len(parsed) + 1] = NextChar
  BY <1>1, AppendProperties
<1>3. /\ Len(parsed) \in Nat /\ DOMAIN parsed = 1 .. Len(parsed)
      /\ DOMAIN parsed' = 1 .. Len(parsed')
  BY <1>1, <1>2, LenProperties
<1> QED
  BY <1>1, <1>2, <1>3 DEF Grown, Byte

(* One character: the line, the lines executed and the text stay as the reference
   has them.                                                               *)
LEMMA CharKeeps ==
    ASSUME RxInv, EditInv, GetChar, lost' = lost, line' = Feed(NextChar.sym),
           executed' = IF EndsLine(NextChar.sym) THEN Append(executed, line) ELSE executed
    PROVE  EditInv'
<1> DEFINE p == parsed
           q == parsed'
           c == NextChar.sym
           m == Len(parsed) + 1
           l == LineAt(parsed, Len(parsed) + 1)
<1>1. StreamType /\ LineType
  BY StepFacts
<1>2. Grown(p, q, c) /\ c \in Symbols /\ Len(p) \in Nat
  BY <1>1, TakenGrows
<1>3. /\ m \in Nat /\ Len(q) + 1 = m + 1 /\ DOMAIN p = 1 .. Len(p) /\ DOMAIN q = 1 .. m
      /\ q[m].sym = c /\ \A k \in 1 .. Len(p) : q[k] = p[k]
  BY <1>2 DEF Grown
<1>4. Balanced(p) /\ (Plainly(p, m) => line = l)
  BY DEF EditInv
<1>5. /\ \A e \in 1 .. m : Plainly(q, e) <=> Plainly(p, e)
      /\ c # "nl" /\ Plainly(q, m + 1) => Plainly(p, m)
      /\ c = "bs" /\ Plainly(q, m + 1) => Count(Kept(p, m)) <= LineSize - 1
  BY <1>2, PlainIs
<1>6. Balanced(q)
  <2>1. CASE c = "nl"
    BY <1>2, <2>1, KeptEnded
  <2>2. CASE c = "bs"
    BY <1>2, <1>4, <2>2, KeptErased
  <2>3. CASE c # "nl" /\ c # "bs"
    BY <1>2, <1>4, <2>3, KeptTyped
  <2> QED
    BY <2>1, <2>2, <2>3
<1>7. Plainly(q, m + 1) => line' = LineAt(q, m + 1)
  <2> SUFFICES ASSUME Plainly(q, m + 1) PROVE line' = LineAt(q, m + 1)
    OBVIOUS
  <2>1. CASE c = "nl"
    <3>1. LineAt(q, m + 1) = <<>>
      BY <1>2, <2>1, LineEnded
    <3> QED
      BY <2>1, <3>1 DEF Feed
  <2>2. CASE c = "bs"
    <3>1. line = l /\ Count(Kept(p, m)) <= LineSize - 1
      BY <1>4, <1>5, <2>2
    <3>2. Grown(p, q, "bs")
      BY <1>2, <2>2
    <3>3. LineAt(q, m + 1) = SubSeq(l, 1, Len(l) - 1)
      BY <1>4, <3>1, <3>2, LineErased
    <3>4. line' = SubSeq(line, 1, Len(line) - 1)
      BY <2>2 DEF Feed
    <3> QED
      BY <3>1, <3>3, <3>4
  <2>3. CASE c # "nl" /\ c # "bs"
    <3>1. line = l
      BY <1>4, <1>5, <2>3
    <3>2. LineAt(q, m + 1) = IF Len(l) < LineSize - 1 THEN Append(l, c) ELSE l
      BY <1>2, <1>4, <2>3, LineTyped
    <3>3. line' = IF Len(line) < LineSize - 1 THEN Append(line, c) ELSE line
      BY <2>3 DEF Feed
    <3> QED
      BY <3>1, <3>2, <3>3
  <2> QED
    BY <2>1, <2>2, <2>3
<1>8. LinesAsParsed'
  <2> SUFFICES ASSUME \A e \in DOMAIN q : q[e].sym = "nl" => Plainly(q, e)
               PROVE  executed' = Lines(q)
    BY AsParsedIs
  <2>1. \A e \in DOMAIN p : p[e].sym = "nl" => Plainly(p, e)
    <3> SUFFICES ASSUME NEW e \in 1 .. Len(p), p[e].sym = "nl" PROVE Plainly(p, e)
      BY <1>3
    <3>1. e \in 1 .. m /\ q[e].sym = "nl"
      BY <1>2, <1>3
    <3> QED
      BY <1>3, <1>5, <3>1
  <2>2. executed = Lines(p)
    BY <2>1, AsParsedIs DEF EditInv
  <2>3. Lines(q) = IF c = "nl" /\ l # <<>> THEN Append(Lines(p), l) ELSE Lines(p)
    BY <1>2, LinesGrow
  <2>4. CASE c = "nl"
    <3>1. m \in 1 .. m /\ m \in DOMAIN q /\ q[m].sym = "nl"
      BY <1>2, <1>3, <2>4
    <3>2. Plainly(p, m)
      BY <1>5, <3>1
    <3>3. line = l
      BY <1>4, <3>2
    <3> QED
      BY <2>2, <2>3, <2>4, <3>3 DEF EndsLine
  <2>5. CASE c # "nl"
    BY <2>2, <2>3, <2>5 DEF EndsLine
  <2> QED
    BY <2>4, <2>5
<1> QED
  BY <1>3, <1>6, <1>7, <1>8, PrimesAre DEF EditInv

(* Before the first character there is no line. *)
LEMMA InitEdits == Init => EditInv
<1> SUFFICES ASSUME Init PROVE EditInv
  OBVIOUS
<1>1. parsed = <<>> /\ line = <<>> /\ executed = <<>> /\ Len(parsed) = 0
  BY EmptySeq DEF Init
<1>2. Segment(parsed, 1) = {} /\ Kept(parsed, 1) = {} /\ LineEnds(parsed) = {}
  BY <1>1 DEF Segment, Kept, LineEnds
<1>3. Count({}) = 0 /\ Lower(0, LineSize - 1) = 0
  BY FS_EmptySet, ConstantFacts DEF Count, Lower
<1>4. Balanced(parsed)
  BY <1>1, <1>2 DEF Balanced
<1>5. LineAt(parsed, 1) = <<>>
  <2>1. LineAt(parsed, 1) = [i \in 1 .. 0 |-> parsed[Nth({}, i)].sym]
    BY <1>2, <1>3 DEF LineAt
  <2> QED
    BY <2>1
<1>6. Lines(parsed) = <<>>
  <2>1. Lines(parsed) = [i \in 1 .. 0 |-> LineAt(parsed, Nth({}, i))]
    BY <1>2, <1>3 DEF Lines
  <2> QED
    BY <2>1
<1>7. LinesAsParsed
  BY <1>1, <1>6, AsParsedIs
<1> QED
  BY <1>1, <1>4, <1>5, <1>7 DEF EditInv

(* A step that takes no character. *)
LEMMA NoCharKeeps ==
    ASSUME EditInv, UNCHANGED console
    PROVE  EditInv'
<1>1. line' = line /\ parsed' = parsed /\ executed' = executed
  BY DEF console
<1>2. Balanced(parsed)' /\ (LinesAsParsed <=> LinesAsParsed')
  BY <1>1, AsParsedIs, PrimesAre DEF EditInv
<1> QED
  BY <1>1, <1>2, PrimesAre DEF EditInv

(* The lines executed are the lines parsed: whatever the host types and erases, a line
   reaches the interpreter as it is left, cut to what the line buffer holds. *)
THEOREM LinesParsed == Spec => []LinesAsParsed
<1>1. Init => EditInv
  BY InitEdits
<1>2. RxInv /\ EditInv /\ [Next]_vars => EditInv'
  <2> SUFFICES ASSUME RxInv, EditInv, [Next]_vars PROVE EditInv'
    OBVIOUS
  <2>1. CASE RxTask
    BY <2>1, CharKeeps DEF RxTask
  <2>2. CASE TlsCommand
    <3>1. /\ GetChar /\ lost' = lost /\ line' = Feed(NextChar.sym)
          /\ executed' = IF EndsLine(NextChar.sym) THEN Append(executed, line) ELSE executed
      BY <2>2 DEF TlsCommand
    <3> QED
      BY <3>1, CharKeeps
  <2>3. CASE ~RxTask /\ ~TlsCommand
    <3>1. UNCHANGED console
      BY <2>3 DEF Next, MainStep, Drained, Poll, StartHandshake, HandshakePoll, Cleanup,
                  EmbedReceive, FlushPoll, Release, AfterPoll, TlsDone, HostSend, vars, console
    <3> QED
      BY <3>1, NoCharKeeps
  <2> QED
    BY <2>1, <2>2, <2>3
<1>3. EditInv => LinesAsParsed
  BY DEF EditInv
<1> QED
  BY <1>1, <1>2, <1>3, Invariance, PTL DEF Spec
=============================================================================

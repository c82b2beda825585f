--------------------------- MODULE BridgeProofs ---------------------------
(***************************************************************************)
(* The types of Bridge, EngagesAtFirst and StreamIntact, for every set of  *)
(* messages and every length of the streams.                               *)
(*                                                                         *)
(* What a read passes on is a stretch of consecutive places (ForwardIs)    *)
(* that leaves no byte 0x16 in front of it; before it is engaged the       *)
(* bridge has forwarded nothing (NothingBefore), after it something, as    *)
(* long as it runs (SomethingAfter).                                       *)
(***************************************************************************)
EXTENDS Bridge, SequenceTheorems, NaturalsInduction, WellFoundedInduction, TLAPS

(* The places from a up to and including b, as a sequence. *)
Places(a, b) == [j \in 1 .. b - a + 1 |-> a + j - 1]

Increasing(s) == \A i, j \in DOMAIN s : i < j => s[i] < s[j]

-----------------------------------------------------------------------------
(* The least element of a set of numbers. *)
Below == {ss \in Nat \X Nat : ss[1] < ss[2]}

(* A set of places that is not empty has a least one. *)
LEMMA MinIsLeast ==
    ASSUME NEW S \in SUBSET Nat, S # {}
    PROVE  Min(S) \in S /\ \A y \in S : Min(S) <= y
<1>1. IsWellFoundedOn(Below, Nat)
      BY NatLessThanWellFounded, Zenon DEF OpToRel, Below
<1>2. PICK x \in S : \A y \in S : ~ (<<y, x>> \in Below)
  <2>1. \E x \in S : \A y \in S : ~ (<<y, x>> \in Below)
        BY ONLY <1>1, WFMin, S \in SUBSET Nat, S # {}
  <2>2. QED  BY <2>1
<1>3. \A y \in S : x <= y
  <2>1. TAKE y \in S
  <2>2. ~ (y < x)  BY <1>2 DEF Below
  <2>3. QED  BY <2>2
<1>4. QED  BY <1>2, <1>3 DEF Min

(* A place of a sequence holds one of its elements. *)
LEMMA InRange ==
    ASSUME NEW s, NEW i \in DOMAIN s
    PROVE  s[i] \in Range(s)
    BY DEF Range

(* The places from a to b behind those of f, none of them after c. *)
Behind(f, a, b, c) ==
    LET g == f \o Places(a, b)
    IN  /\ g \in Seq(1 .. c)
        /\ Increasing(g)
        /\ Range(g) = Range(f) \cup (a .. b)
        /\ f # <<>> => g # <<>> /\ g[1] = f[1]
        /\ f = <<>> /\ a <= b => g # <<>> /\ g[1] = a
        /\ f = <<>> /\ b < a => g = <<>>

(* Places that lie behind those of an increasing sequence make it a longer one. *)
LEMMA PlacesBehind ==
    ASSUME NEW r \in Nat, NEW f \in Seq(1 .. r), Increasing(f),
           NEW a \in Nat, NEW b \in Nat, r < a, a <= b + 1,
           NEW c \in Nat, r <= c, b <= c
    PROVE  Behind(f, a, b, c)
<1> DEFINE p == Places(a, b)  l == Len(f)  g == f \o p
<1>1. /\ p \in Seq(a .. b) /\ Len(p) = b - a + 1
      /\ \A j \in 1 .. b - a + 1 : p[j] = a + j - 1
      BY DEF Places
<1>2. l \in Nat /\ DOMAIN f = 1 .. l /\ \A j \in 1 .. l : f[j] \in 1 .. r
      OBVIOUS
<1>3. /\ g \in Seq(Int)
      /\ Len(g) = l + (b - a + 1) /\ DOMAIN g = 1 .. l + (b - a + 1)
      /\ \A j \in 1 .. l : g[j] = f[j]
      /\ \A j \in l + 1 .. l + (b - a + 1) : g[j] = a + (j - l) - 1
  <2>1. g = f \o p /\ f \in Seq(Int) /\ p \in Seq(Int)  BY <1>1
  <2>2. /\ g \in Seq(Int) /\ Len(g) = Len(f) + Len(p)
        /\ \A j \in 1 .. Len(f) : g[j] = f[j]
        /\ \A j \in Len(f) + 1 .. Len(f) + Len(p) : g[j] = p[j - Len(f)]
        BY <2>1
  <2> HIDE DEF p, g
  <2>3. ASSUME NEW j \in l + 1 .. l + (b - a + 1)
        PROVE  g[j] = a + (j - l) - 1
    <3>1. j - l \in 1 .. b - a + 1  BY <1>2
    <3>2. p[j - l] = a + (j - l) - 1  BY ONLY <3>1, <1>1
    <3>3. j \in Len(f) + 1 .. Len(f) + Len(p)  BY <1>1
    <3>4. g[j] = p[j - l]  BY ONLY <3>3, <2>2
    <3>5. QED  BY ONLY <3>2, <3>4
  <2>4. DOMAIN g = 1 .. Len(g)  BY <2>2
  <2>5. QED  BY ONLY <2>2, <2>3, <2>4, <1>1
<1> HIDE DEF p, l, g
<1>4. \A j \in 1 .. l + (b - a + 1) :
         g[j] \in 1 .. c
  <2>1. TAKE j \in 1 .. l + (b - a + 1)
  <2>2. j <= l \/ l < j  BY <1>2
  <2>3. CASE j <= l  BY <2>3, <1>2, <1>3
  <2>4. CASE l < j
    <3>1. j \in l + 1 .. l + (b - a + 1)  BY <2>4, <1>2
    <3>2. g[j] = a + (j - l) - 1  BY ONLY <3>1, <1>3
    <3>3. QED  BY <3>1, <3>2, <1>2
  <2>5. QED  BY <2>2, <2>3, <2>4
<1>5. g \in Seq(1 .. c)
  <2>1. g \in Seq(Int) /\ Len(g) = l + (b - a + 1)  BY <1>3
  <2>2. \A j \in 1 .. Len(g) : g[j] \in 1 .. c  BY <2>1, <1>4
  <2>3. QED  BY ONLY <2>1, <2>2, SeqDef
<1>6. Increasing(g)
  <2>1. SUFFICES ASSUME NEW i \in DOMAIN g, NEW j \in DOMAIN g, i < j
                 PROVE  g[i] < g[j]
        BY DEF Increasing
  <2>2. i \in Int /\ j \in Int /\ 1 <= i /\ j <= l + (b - a + 1)  BY <1>3, <1>2
  <2>3. j <= l \/ (i <= l /\ l < j) \/ l < i  BY <2>2, <1>2
  <2>4. CASE j <= l
    <3>1. i \in 1 .. l /\ j \in 1 .. l  BY <2>1, <2>2, <2>4, <1>2
    <3>2. f[i] < f[j]  BY <3>1, <2>1, <1>2 DEF Increasing
    <3>3. QED  BY <3>1, <3>2, <1>3
  <2>5. CASE i <= l /\ l < j
    <3>0. i \in 1 .. l /\ j \in l + 1 .. l + (b - a + 1)  BY <2>2, <2>5, <1>2
    <3>1. g[i] = f[i] /\ f[i] \in 1 .. r  BY <3>0, <1>2, <1>3
    <3>2. g[j] = a + (j - l) - 1  BY ONLY <3>0, <1>3
    <3>3. QED  BY <3>1, <3>2, <2>2, <2>5, <1>2
  <2>6. CASE l < i
    <3>0. /\ i \in l + 1 .. l + (b - a + 1)
          /\ j \in l + 1 .. l + (b - a + 1)
          BY <2>1, <2>2, <2>6, <1>2
    <3>1. g[i] = a + (i - l) - 1 /\ g[j] = a + (j - l) - 1
          BY ONLY <3>0, <1>3
    <3>2. QED  BY <3>1, <2>1, <2>2, <1>2
  <2>7. QED  BY <2>3, <2>4, <2>5, <2>6
<1>7. Range(g) = Range(f) \cup (a .. b)
  <2>1. ASSUME NEW x \in Range(g)  PROVE x \in Range(f) \cup (a .. b)
    <3>1. PICK j \in 1 .. l + (b - a + 1) : x = g[j]
      <4>1. \E j \in DOMAIN g : x = g[j]  BY <2>1 DEF Range
      <4>2. QED  BY ONLY <4>1, <1>3
    <3>2. j <= l \/ l < j  BY <1>2
    <3>3. CASE j <= l
      <4>1. j \in 1 .. l  BY <3>3, <1>2
      <4>2. j \in DOMAIN f /\ x = f[j]  BY <4>1, <3>1, <1>2, <1>3
      <4>3. QED  BY <4>2, Zenon DEF Range
    <3>4. CASE l < j   BY <3>1, <3>4, <1>2, <1>3
    <3>5. QED  BY <3>2, <3>3, <3>4
  <2>2. ASSUME NEW x \in Range(f)  PROVE x \in Range(g)
    <3>1. PICK j \in 1 .. l : x = f[j]  BY <1>2 DEF Range
    <3>2. j \in 1 .. l + (b - a + 1)  BY <3>1, <1>2
    <3>3. j \in DOMAIN g /\ x = g[j]  BY ONLY <3>1, <3>2, <1>3
    <3>4. g[j] \in Range(g)  BY <3>3, InRange
    <3>5. QED  BY ONLY <3>3, <3>4, Zenon
  <2>3. ASSUME NEW x \in a .. b  PROVE x \in Range(g)
    <3>1. l + (x - a + 1) \in l + 1 .. l + (b - a + 1)  BY <1>2
    <3>2. g[l + (x - a + 1)] = a + ((l + (x - a + 1)) - l) - 1
          BY ONLY <3>1, <1>3
    <3>6. a + ((l + (x - a + 1)) - l) - 1 = x  BY <1>2
    <3>3. l + (x - a + 1) \in DOMAIN g  BY <3>1, <1>2, <1>3
    <3>4. g[l + (x - a + 1)] \in Range(g)  BY <3>3, InRange
    <3>5. QED  BY ONLY <3>2, <3>6, <3>4
  <2>4. QED  BY <2>1, <2>2, <2>3
<1>8. f # <<>> => g # <<>> /\ g[1] = f[1]
  <2>1. f # <<>> => 1 <= l  BY <1>2 DEF l
  <2>2. QED  BY <2>1, <1>2, <1>3
<1>9. f = <<>> => l = 0  BY DEF l
<1>10. f = <<>> /\ a <= b => g # <<>> /\ g[1] = a  BY <1>9, <1>3
<1>11. f = <<>> /\ b < a => g = <<>>  BY <1>9, <1>3
<1>12. QED  BY <1>5, <1>6, <1>7, <1>8, <1>10, <1>11 DEF g, p, Behind

-----------------------------------------------------------------------------
(* What a read passes on: all of it once TLS has started, before that nothing
   or a stretch up to its end that begins with its first byte 0x16.        *)
LEMMA ForwardIs ==
    ASSUME NEW n \in Nat, 1 <= n, read \in Nat, tls_active \in BOOLEAN
    PROVE  \E a \in read + 1 .. read + n + 1 :
              /\ Forward(Chunk(n)) = Places(a, read + n)
              /\ tls_active => a = read + 1
              /\ ~tls_active /\ a <= read + n => emitted[a] \in Hellos
              /\ ~tls_active => \A k \in read + 1 .. a - 1 : emitted[k] \notin Hellos
<1> DEFINE chunk == Chunk(n)
           hellos == {k \in DOMAIN chunk : emitted[chunk[k]] \in Hellos}
<1>1. /\ chunk \in Seq(Nat) /\ Len(chunk) = n /\ DOMAIN chunk = 1 .. n
      /\ \A k \in 1 .. n : chunk[k] = read + k
      BY DEF Chunk
<1>2. CASE tls_active
  <2>1. Forward(chunk) = Chunk(n)  BY <1>2 DEF Forward
  <2>2. Chunk(n) = Places(read + 1, read + n)
    <3>1. (read + n) - (read + 1) + 1 = n  OBVIOUS
    <3>2. \A k \in 1 .. n : read + 1 + k - 1 = read + k  OBVIOUS
    <3>3. QED  BY <3>1, <3>2 DEF Chunk, Places
  <2>3. read + 1 \in read + 1 .. read + n + 1  OBVIOUS
  <2>4. QED  BY <2>1, <2>2, <2>3, <1>2
<1>3. CASE ~tls_active /\ hellos = {}
  <2>1. Forward(chunk) = <<>>  BY <1>3, Zenon DEF Forward, FromHello
  <2>2. Places(read + n + 1, read + n) = <<>>  BY DEF Places
  <2>3. /\ read + n + 1 \in read + 1 .. read + n + 1
        /\ ~ (read + n + 1 <= read + n)
        OBVIOUS
  <2>4. \A k \in read + 1 .. read + n + 1 - 1 : emitted[k] \notin Hellos
    <3>1. TAKE k \in read + 1 .. read + n + 1 - 1
    <3>2. k - read \in DOMAIN chunk /\ chunk[k - read] = k  BY <1>1
    <3>3. k - read \notin hellos  BY <1>3
    <3>4. QED  BY <3>2, <3>3
  <2> HIDE DEF chunk, hellos
  <2>5. QED  BY <2>1, <2>2, <2>3, <2>4, <1>3 DEF chunk
<1>4. CASE ~tls_active /\ hellos # {}
  <2> DEFINE h == Min(hellos)
  <2>1. hellos \subseteq 1 .. n  BY <1>1
  <2>2. h \in hellos /\ \A y \in hellos : h <= y
    <3>1. hellos \in SUBSET Nat  BY <2>1
    <3> HIDE DEF hellos
    <3>2. QED  BY <3>1, <1>4, MinIsLeast
  <2>3. h \in 1 .. n /\ emitted[read + h] \in Hellos  BY <2>1, <2>2, <1>1
  <2>4. \A k \in read + 1 .. read + h - 1 : emitted[k] \notin Hellos
    <3>1. TAKE k \in read + 1 .. read + h - 1
    <3>2. k - read \in DOMAIN chunk /\ chunk[k - read] = k /\ ~ (h <= k - read)
          BY <1>1, <2>3
    <3>3. k - read \notin hellos  BY <2>2, <3>2
    <3>4. QED  BY <3>2, <3>3
  <2>5. Forward(chunk) = SubSeq(chunk, h, Len(chunk))
        BY <1>4, Zenon DEF Forward, FromHello
  <2> HIDE DEF chunk, hellos, h
  <2>6. SubSeq(chunk, h, n) = [j \in 1 .. n - h + 1 |-> chunk[h + j - 1]]
        BY <2>3, <1>1
  <2>7. (read + n) - (read + h) + 1 = n - h + 1  BY <2>3
  <2>8. \A j \in 1 .. n - h + 1 : chunk[h + j - 1] = read + h + j - 1
        BY <2>3, <1>1
  <2>9. Forward(chunk) = Places(read + h, read + n)
        BY <2>5, <2>6, <2>7, <2>8, <1>1 DEF Places
  <2>10. read + h \in read + 1 .. read + n + 1  BY <2>3
  <2>11. QED  BY <2>9, <2>10, <2>3, <2>4, <1>4 DEF chunk
<1>5. QED  BY <1>2, <1>3, <1>4, Zenon

(* The part of a stretch that is sent before the exception. *)
LEMMA PlacesCut ==
    ASSUME NEW a \in Nat, NEW b \in Nat, NEW k \in Nat, k <= b - a + 1
    PROVE  SubSeq(Places(a, b), 1, k) = Places(a, a + k - 1)
<1> DEFINE p == Places(a, b)
<1>1. /\ p \in Seq(Nat) /\ Len(p) = b - a + 1
      /\ \A j \in 1 .. b - a + 1 : p[j] = a + j - 1
      BY DEF Places
<1> HIDE DEF p
<1>2. SubSeq(p, 1, k) = [j \in 1 .. k |-> p[1 + j - 1]]  BY <1>1
<1>3. \A j \in 1 .. k : p[1 + j - 1] = a + j - 1  BY <1>1
<1>4. (a + k - 1) - a + 1 = k  OBVIOUS
<1>5. QED  BY <1>2, <1>3, <1>4 DEF Places, p

-----------------------------------------------------------------------------
(* The inductive invariant. *)
Shape ==
    /\ emitted \in Seq(Bytes) /\ read \in 0 .. Len(emitted)
    /\ tls_active \in BOOLEAN /\ running \in BOOLEAN
    /\ forwarded \in Seq(1 .. read) /\ shown \subseteq 1 .. read
    /\ Increasing(forwarded)
    /\ down \in 0 .. MaxDown /\ claimed = down /\ written \in 0 .. down

NothingBefore == ~tls_active => forwarded = <<>>

SomethingAfter == tls_active /\ running => forwarded # <<>>

(* From the hello on, what was read and not shown has been forwarded. *)
AllButShown ==
    tls_active /\ running => Range(forwarded) = (forwarded[1] .. read) \ shown

(* Before it is engaged, the bridge has passed over a byte 0x16 only to show it. *)
NonePassed ==
    ~tls_active => \A k \in 1 .. read : emitted[k] \in Hellos => k \in shown

(* And so it is with what lies in front of the first byte forwarded. *)
NoneInFront ==
    forwarded # <<>> =>
        /\ emitted[forwarded[1]] \in Hellos
        /\ \A k \in 1 .. forwarded[1] - 1 : emitted[k] \in Hellos => k \in shown

BridgeInv ==
    /\ Shape /\ TypeFirst(emitted)
    /\ NothingBefore /\ SomethingAfter /\ NonePassed /\ NoneInFront /\ AllButShown

-----------------------------------------------------------------------------
(* What a step does to the stream. *)
LEMMA InitInv == Init => BridgeInv
<1>1. SUFFICES ASSUME Init PROVE BridgeInv  OBVIOUS
<1>2. forwarded = <<>> /\ emitted = <<>> /\ shown = {} /\ read = 0
      BY <1>1 DEF Init
<1>3. Shape
  <2>1. forwarded \in Seq(1 .. read) /\ emitted \in Seq(Bytes) /\ Len(emitted) = 0
        BY <1>2
  <2>2. Increasing(forwarded)  BY <1>2 DEF Increasing
  <2>3. read \in 0 .. Len(emitted) /\ shown \subseteq 1 .. read  BY <1>2, <2>1
  <2>4. tls_active \in BOOLEAN /\ running \in BOOLEAN  BY <1>1 DEF Init
  <2>5. down \in 0 .. MaxDown /\ claimed = down /\ written \in 0 .. down
    <3>1. down = 0 /\ claimed = 0 /\ written = 0  BY <1>1 DEF Init
    <3>2. QED  BY <3>1, BridgeAssumption
  <2>6. QED  BY <2>1, <2>2, <2>3, <2>4, <2>5 DEF Shape
<1>4. QED
      BY <1>1, <1>3 DEF Init, BridgeInv, TypeFirst, NothingBefore, SomethingAfter,
                        NonePassed, NoneInFront, AllButShown

(* The first byte forwarded stays the first, and what was shown stays shown. *)
LEMMA FrontStays ==
    ASSUME NoneInFront, emitted' = emitted, shown \subseteq shown',
           forwarded # <<>>, forwarded'[1] = forwarded[1]
    PROVE  NoneInFront'
    BY DEF NoneInFront

(* What the device sends is behind what the bridge has read. *)
LEMMA EmitStep ==
    ASSUME BridgeInv, NEW m \in Messages, Emit(m)
    PROVE  BridgeInv'
<1>1. m \in Seq(Bytes)  BY BridgeAssumption
<1>2. /\ emitted' \in Seq(Bytes) /\ Len(emitted') = Len(emitted) + Len(m)
      /\ \A k \in 1 .. Len(emitted) : emitted'[k] = emitted[k]
      BY <1>1 DEF Emit, BridgeInv, Shape
<1>3. Shape'
      BY <1>1, <1>2, Len(m) \in Nat DEF Emit, BridgeInv, Shape, Increasing
<1>4. NonePassed' /\ NoneInFront'
  <2>1. /\ read \in Nat /\ read <= Len(emitted) /\ Len(emitted) \in Nat
        /\ forwarded # <<>> => forwarded[1] \in 1 .. read
        BY DEF BridgeInv, Shape
  <2>2. \A k \in 1 .. read : k \in 1 .. Len(emitted)  BY <2>1
  <2>3. \A k \in 1 .. read : emitted'[k] = emitted[k]  BY <2>2, <1>2
  <2>4. /\ read' = read /\ tls_active' = tls_active /\ forwarded' = forwarded
        /\ shown' = shown
        BY DEF Emit
  <2>5. NonePassed'  BY <2>3, <2>4 DEF BridgeInv, NonePassed
  <2>6. NoneInFront'
    <3>1. forwarded # <<>> => 1 .. forwarded[1] - 1 \subseteq 1 .. read  BY <2>1
    <3>2. QED  BY <2>1, <2>3, <2>4, <3>1 DEF BridgeInv, NoneInFront
  <2>7. QED  BY <2>5, <2>6
<1>5. NothingBefore' /\ SomethingAfter' /\ AllButShown'
      BY Zenon DEF Emit, BridgeInv, NothingBefore, SomethingAfter, AllButShown
<1>6. TypeFirst(emitted')  BY DEF Emit
<1>7. QED  BY <1>3, <1>4, <1>5, <1>6 DEF BridgeInv

(* The read that goes to the screen. *)
LEMMA DebugStep ==
    ASSUME BridgeInv, NEW n \in 1 .. Len(emitted) - read, ReadDebug(n)
    PROVE  BridgeInv'
<1>1. /\ n \in Nat /\ 1 <= n /\ read \in Nat /\ read + n <= Len(emitted)
      /\ Len(emitted) \in Nat
      BY DEF BridgeInv, Shape
<1>2. Range(Chunk(n)) = read + 1 .. read + n
  <2>1. \A x \in read + 1 .. read + n : x - read \in 1 .. n /\ x = read + (x - read)
        BY <1>1
  <2>2. \A k \in 1 .. n : read + k \in read + 1 .. read + n  BY <1>1
  <2>3. Range(Chunk(n)) = {read + k : k \in 1 .. n}  BY DEF Range, Chunk
  <2>4. QED  BY <2>1, <2>2, <2>3
<1>3. /\ read' = read + n /\ shown' = shown \cup (read + 1 .. read + n)
      /\ emitted' = emitted /\ forwarded' = forwarded
      /\ tls_active' = tls_active /\ running' = running
      /\ down' = down /\ claimed' = claimed /\ written' = written
      BY <1>2 DEF ReadDebug
<1>4. forwarded \in Seq(1 .. read + n)
  <2>1. 1 .. read \subseteq 1 .. read + n  BY <1>1
  <2>2. QED  BY <2>1, SeqMonotonic DEF BridgeInv, Shape
<1>5. Shape'
      BY <1>1, <1>3, <1>4 DEF BridgeInv, Shape, Increasing
<1>6. NothingBefore' /\ SomethingAfter' /\ TypeFirst(emitted')
      BY <1>3, Zenon DEF BridgeInv, NothingBefore, SomethingAfter
<1>7. NonePassed'
  <2>1. \A k \in 1 .. read + n : k \in 1 .. read \/ k \in read + 1 .. read + n
        BY <1>1
  <2>2. QED  BY <1>3, <2>1 DEF BridgeInv, NonePassed
<1>8. NoneInFront'
  <2>1. forwarded = <<>> => NoneInFront'  BY <1>3 DEF NoneInFront
  <2>2. QED  BY <1>3, <2>1, FrontStays DEF BridgeInv
<1>9. AllButShown'
  <2>1. SUFFICES ASSUME tls_active, running
                 PROVE  Range(forwarded)
                           = (forwarded[1] .. read + n)
                                \ (shown \cup (read + 1 .. read + n))
        BY <1>3 DEF AllButShown
  <2>2. forwarded # <<>>  BY <2>1 DEF BridgeInv, SomethingAfter
  <2>3. forwarded[1] \in 1 .. read  BY <2>2 DEF BridgeInv, Shape
  <2>4. Range(forwarded) = (forwarded[1] .. read) \ shown
        BY <2>1 DEF BridgeInv, AllButShown
  <2>5. QED  BY <2>3, <2>4, <1>1
<1>10. QED  BY <1>5, <1>6, <1>9, <1>7, <1>8 DEF BridgeInv

(* The first stretch: to what has been read the places from a to b are added, and
   no place beyond that is shown.                                          *)
LEMMA SerialStep ==
    ASSUME BridgeInv, NEW n \in 1 .. Len(emitted) - read, ReadSerial(n)
    PROVE  BridgeInv'
<1>1. /\ n \in Nat /\ 1 <= n /\ read \in Nat /\ read + n <= Len(emitted)
      /\ Len(emitted) \in Nat /\ read + n \in Nat
      /\ tls_active \in BOOLEAN
      BY DEF BridgeInv, Shape
<1>2. PICK a \in read + 1 .. read + n + 1 :
              /\ Forward(Chunk(n)) = Places(a, read + n)
              /\ tls_active => a = read + 1
              /\ ~tls_active /\ a <= read + n => emitted[a] \in Hellos
              /\ ~tls_active => \A k \in read + 1 .. a - 1 : emitted[k] \notin Hellos
      BY <1>1, ForwardIs
<1>3. /\ forwarded' = forwarded \o Places(a, read + n)
      /\ tls_active' = (tls_active \/ Places(a, read + n) # <<>>)
      /\ read' = read + n /\ running
      /\ UNCHANGED <<emitted, running, shown, down, claimed, written>>
      BY <1>2 DEF ReadSerial
<1>4. a \in Nat /\ read < a /\ a <= read + n + 1 /\ read <= read + n  BY <1>1
<1>5. forwarded \in Seq(1 .. read) /\ Increasing(forwarded)
      BY DEF BridgeInv, Shape
<1>6. /\ forwarded' \in Seq(1 .. read + n)
      /\ Increasing(forwarded')
      /\ Range(forwarded') = Range(forwarded) \cup (a .. read + n)
      /\ forwarded # <<>> => forwarded' # <<>> /\ forwarded'[1] = forwarded[1]
      /\ forwarded = <<>> /\ a <= read + n => forwarded' # <<>> /\ forwarded'[1] = a
      /\ forwarded = <<>> /\ read + n < a => forwarded' = <<>>
  <2>1. read + n <= read + n  BY <1>1
  <2>2. Behind(forwarded, a, read + n, read + n)
        BY ONLY <1>1, <1>4, <1>5, <2>1, PlacesBehind
  <2>3. QED  BY ONLY <2>2, <1>3 DEF Behind
<1>7. Shape'
  <2>1. /\ (emitted \in Seq(Bytes))'
        /\ (tls_active \in BOOLEAN)' /\ (running \in BOOLEAN)'
        /\ (down \in 0 .. MaxDown /\ claimed = down /\ written \in 0 .. down)'
        BY <1>3 DEF BridgeInv, Shape
  <2>2. (read \in 0 .. Len(emitted) /\ shown \subseteq 1 .. read)'
        BY <1>1, <1>3 DEF BridgeInv, Shape
  <2>3. (forwarded \in Seq(1 .. read) /\ Increasing(forwarded))'
        BY <1>3, <1>6 DEF Increasing
  <2>4. QED  BY <2>1, <2>2, <2>3 DEF Shape
<1>8. Places(a, read + n) = <<>> \/ a <= read + n
  <2>1. CASE read + n < a  BY <2>1, <1>1, <1>4 DEF Places
  <2>2. QED  BY <2>1, <1>1, <1>4
<1>9. Places(a, read + n) # <<>> => a <= read + n  BY <1>8
<1>10. TypeFirst(emitted')  BY <1>3 DEF BridgeInv
<1>11. CASE tls_active
  <2>1. forwarded # <<>> /\ a = read + 1
        BY <1>2, <1>3, <1>11 DEF BridgeInv, SomethingAfter
  <2>2. tls_active' /\ forwarded' # <<>> /\ forwarded'[1] = forwarded[1]
        BY <1>3, <1>6, <1>11, <2>1
  <2>3. NonePassed' /\ NoneInFront' /\ NothingBefore' /\ SomethingAfter'
    <3>1. NoneInFront'  BY <1>3, <2>1, <2>2, FrontStays DEF BridgeInv
    <3>2. QED
          BY <3>1, <2>2 DEF NonePassed, NothingBefore, SomethingAfter
  <2>4. forwarded[1] \in 1 .. read  BY <2>1 DEF BridgeInv, Shape
  <2>5. Range(forwarded) = (forwarded[1] .. read) \ shown
        BY <1>11, <1>3 DEF BridgeInv, AllButShown
  <2>6. shown \subseteq 1 .. read  BY DEF BridgeInv, Shape
  <2>7. Range(forwarded') = (forwarded[1] .. read + n) \ shown
        BY <2>1, <2>4, <2>5, <2>6, <1>1, <1>6
  <2>8. AllButShown'  BY <2>2, <2>7, <1>3 DEF AllButShown
  <2>9. QED  BY <1>7, <1>10, <2>3, <2>8 DEF BridgeInv
<1>12. CASE ~tls_active
  <2>1. forwarded = <<>>  BY <1>12 DEF BridgeInv, NothingBefore
  <2>2. \A k \in 1 .. a - 1 : emitted[k] \in Hellos => k \in shown
    <3>1. \A k \in 1 .. a - 1 : k \in 1 .. read \/ k \in read + 1 .. a - 1
          BY <1>1, <1>4
    <3>2. QED  BY <3>1, <1>2, <1>12 DEF BridgeInv, NonePassed
  <2>3. CASE a <= read + n
    <3>1. forwarded' # <<>> /\ forwarded'[1] = a  BY <2>1, <2>3, <1>6
    <3>2. emitted[a] \in Hellos  BY <2>3, <1>2, <1>12
    <3>3. NoneInFront'  BY <3>1, <3>2, <2>2, <1>3 DEF NoneInFront
    <3>4. tls_active'
      <4>1. Places(a, read + n) # <<>>
        <5>1. 1 \in 1 .. (read + n) - a + 1  BY <2>3, <1>1, <1>4
        <5>2. QED  BY <5>1 DEF Places
      <4>2. QED  BY <4>1, <1>3
    <3>5. NothingBefore' /\ SomethingAfter' /\ NonePassed'
          BY <3>1, <3>4 DEF NothingBefore, SomethingAfter, NonePassed
    <3>6. Range(forwarded') = a .. read + n  BY <2>1, <1>6 DEF Range
    <3>7. shown \subseteq 1 .. read  BY DEF BridgeInv, Shape
    <3>8. Range(forwarded') = (a .. read + n) \ shown
          BY <3>6, <3>7, <1>1, <1>4
    <3>9. AllButShown'  BY <3>1, <3>8, <1>3 DEF AllButShown
    <3>10. QED  BY <1>7, <1>10, <3>3, <3>5, <3>9 DEF BridgeInv
  <2>4. CASE read + n < a
    <3>1. forwarded' = <<>>  BY <2>1, <2>4, <1>6
    <3>2. Places(a, read + n) = <<>>  BY <2>4, <1>1, <1>4, <1>9
    <3>3. ~tls_active'  BY <3>2, <1>3, <1>12
    <3>4. NoneInFront' /\ NothingBefore' /\ SomethingAfter' /\ AllButShown'
          BY <3>1, <3>3
          DEF NoneInFront, NothingBefore, SomethingAfter, AllButShown
    <3>5. a - 1 = read + n  BY <2>4, <1>1, <1>4
    <3>6. NonePassed'  BY <3>5, <2>2, <1>3 DEF NonePassed
    <3>7. QED  BY <1>7, <1>10, <3>4, <3>6 DEF BridgeInv
  <2>5. QED  BY <2>3, <2>4, <1>1, <1>4
<1>13. QED  BY <1>11, <1>12

(* The exception: a stretch that begins like the one of a read, cut short. *)
LEMMA FullStep ==
    ASSUME BridgeInv, NEW n \in 1 .. Len(emitted) - read, SocketFull(n)
    PROVE  BridgeInv'
<1>1. /\ n \in Nat /\ 1 <= n /\ read \in Nat /\ read + n <= Len(emitted)
      /\ Len(emitted) \in Nat /\ read + n \in Nat
      /\ tls_active \in BOOLEAN /\ running
      BY DEF BridgeInv, Shape, SocketFull
<1>2. PICK a \in read + 1 .. read + n + 1 :
              /\ Forward(Chunk(n)) = Places(a, read + n)
              /\ tls_active => a = read + 1
              /\ ~tls_active /\ a <= read + n => emitted[a] \in Hellos
              /\ ~tls_active => \A k \in read + 1 .. a - 1 : emitted[k] \notin Hellos
      BY <1>1, ForwardIs
<1>3. a \in Nat /\ read < a /\ a <= read + n + 1  BY <1>1
<1>4. Len(Places(a, read + n)) = read + n - a + 1  BY <1>1, <1>3 DEF Places
<1>5. PICK k \in 0 .. Len(Places(a, read + n)) - 1 :
              forwarded' = forwarded \o SubSeq(Places(a, read + n), 1, k)
      BY <1>2 DEF SocketFull
<1>6. k \in Nat /\ k < read + n - a + 1 /\ a <= read + n  BY <1>1, <1>3, <1>4
<1>7. forwarded' = forwarded \o Places(a, a + k - 1)
  <2>1. SubSeq(Places(a, read + n), 1, k) = Places(a, a + k - 1)
        BY ONLY <1>1, <1>3, <1>6, PlacesCut
  <2>2. QED  BY <2>1, <1>5
<1>8. /\ tls_active' = TRUE /\ running' = FALSE /\ read' = read + n
      /\ UNCHANGED <<emitted, shown, down, claimed, written>>
      BY DEF SocketFull
<1>9. forwarded \in Seq(1 .. read) /\ Increasing(forwarded)
      BY DEF BridgeInv, Shape
<1>10. /\ forwarded' \in Seq(1 .. read + n)
       /\ Increasing(forwarded')
       /\ forwarded # <<>> => forwarded'[1] = forwarded[1]
       /\ forwarded = <<>> /\ 0 < k => forwarded'[1] = a
       /\ forwarded = <<>> /\ k = 0 => forwarded' = <<>>
  <2>1. a + k - 1 \in Nat /\ read <= read + n /\ a + k - 1 <= read + n
        /\ a <= a + k - 1 + 1
        BY <1>1, <1>3, <1>6
  <2>2. Behind(forwarded, a, a + k - 1, read + n)
        BY ONLY <1>1, <1>3, <1>9, <2>1, PlacesBehind
  <2>3. 0 < k => a <= a + k - 1  BY ONLY <1>3, <1>6
  <2>4. k = 0 => a + k - 1 < a   BY ONLY <1>3, <1>6
  <2>5. QED  BY ONLY <2>2, <2>3, <2>4, <1>7 DEF Behind
<1>11. Shape'
  <2>1. (tls_active \in BOOLEAN)' /\ (running \in BOOLEAN)'  BY <1>8, Zenon
  <2>4. /\ (emitted \in Seq(Bytes))'
        /\ (down \in 0 .. MaxDown /\ claimed = down /\ written \in 0 .. down)'
        BY <1>8 DEF BridgeInv, Shape
  <2>2. (read \in 0 .. Len(emitted) /\ shown \subseteq 1 .. read)'
        BY <1>1, <1>8 DEF BridgeInv, Shape
  <2>3. (forwarded \in Seq(1 .. read) /\ Increasing(forwarded))'
        BY <1>8, <1>10 DEF Increasing
  <2>5. QED  BY <2>1, <2>2, <2>3, <2>4 DEF Shape
<1>12. NothingBefore' /\ SomethingAfter' /\ AllButShown' /\ NonePassed'
       BY <1>8 DEF NothingBefore, SomethingAfter, AllButShown, NonePassed
<1>13. NoneInFront'
  <2>1. CASE forwarded # <<>>
    <3>1. shown' = shown /\ emitted' = emitted  BY <1>8
    <3>2. QED  BY <3>1, <2>1, <1>10, FrontStays DEF BridgeInv
  <2>2. CASE forwarded = <<>> /\ forwarded' # <<>>
    <3>1. ~tls_active  BY <2>2, <1>1 DEF BridgeInv, SomethingAfter
    <3>2. 0 < k  BY <2>2, <1>6, <1>10
    <3>3. forwarded'[1] = a  BY <2>2, <3>2, <1>10
    <3>4. \A j \in 1 .. a - 1 : j \in 1 .. read \/ j \in read + 1 .. a - 1
          BY <1>1, <1>3
    <3>5. \A j \in 1 .. a - 1 : emitted[j] \in Hellos => j \in shown
          BY <3>1, <3>4, <1>2 DEF BridgeInv, NonePassed
    <3>6. emitted[a] \in Hellos  BY <3>1, <1>2, <1>6
    <3>7. QED  BY <3>3, <3>5, <3>6, <1>8 DEF NoneInFront
  <2>3. CASE forwarded' = <<>>  BY <2>3 DEF NoneInFront
  <2>4. QED  BY <2>1, <2>2, <2>3
<1>14. TypeFirst(emitted')  BY <1>8 DEF BridgeInv
<1>15. QED  BY <1>11, <1>12, <1>13, <1>14 DEF BridgeInv

(* The server's side of the bridge leaves the device's stream alone. *)
LEMMA ServerStep ==
    ASSUME BridgeInv, (\E n \in 1 .. MaxDown : ServerSends(n)) \/ ServerCloses
    PROVE  BridgeInv'
<1>1. CASE \E n \in 1 .. MaxDown : ServerSends(n)
  <2>1. PICK n \in 1 .. MaxDown : ServerSends(n)  BY <1>1
  <2>2. /\ UNCHANGED <<emitted, read, tls_active, running, forwarded, shown>>
        /\ (down \in 0 .. MaxDown /\ claimed = down /\ written \in 0 .. down)'
        BY <2>1, BridgeAssumption DEF ServerSends, BridgeInv, Shape
  <2>3. Shape'  BY <2>2 DEF BridgeInv, Shape, Increasing
  <2>4. QED
        BY <2>2, <2>3 DEF BridgeInv, NothingBefore, SomethingAfter,
                          NonePassed, NoneInFront, AllButShown
<1>2. CASE ServerCloses
  <2>1. /\ UNCHANGED <<emitted, read, tls_active, forwarded, shown>>
        /\ UNCHANGED <<down, claimed, written>> /\ ~running'
        BY <1>2 DEF ServerCloses
  <2>2. Shape'
    <3>1. running' = FALSE  BY <1>2 DEF ServerCloses
    <3>2. (running \in BOOLEAN)'  BY <3>1, Zenon
    <3>3. QED  BY <2>1, <3>2, Zenon DEF BridgeInv, Shape, Increasing
  <2>3. QED
        BY <2>1, <2>2 DEF BridgeInv, NothingBefore, SomethingAfter,
                          NonePassed, NoneInFront, AllButShown
<1>3. QED  BY <1>1, <1>2

(* Every operation of the bridge, its peers and the device keeps the invariant. *)
LEMMA StepInv == BridgeInv /\ [Next]_vars => BridgeInv'
<1>1. SUFFICES ASSUME BridgeInv, [Next]_vars PROVE BridgeInv'  OBVIOUS
<1>2. CASE \E m \in Messages : Emit(m)  BY <1>1, <1>2, EmitStep
<1>3. CASE Read  BY <1>1, <1>3, DebugStep, SerialStep, FullStep DEF Read
<1>4. CASE (\E n \in 1 .. MaxDown : ServerSends(n)) \/ ServerCloses
      BY <1>1, <1>4, ServerStep
<1>5. CASE UNCHANGED vars
      BY <1>1, <1>5 DEF vars, BridgeInv, Shape, Increasing, NothingBefore,
                        SomethingAfter, NonePassed, NoneInFront, AllButShown
<1>6. QED  BY <1>1, <1>2, <1>3, <1>4, <1>5 DEF Next

-----------------------------------------------------------------------------
(* The inductive invariant holds in every reachable state. *)
THEOREM Invariance == Spec => []BridgeInv
<1>1. Init => BridgeInv  BY InitInv
<1>2. BridgeInv /\ [Next]_vars => BridgeInv'  BY StepInv
<1>3. QED  BY <1>1, <1>2, PTL DEF Spec

(* Every variable stays in its type; nothing is forwarded or shown that has not
   been read (usb_tcp_bridge.py:59-84).                                    *)
THEOREM TypeCorrect == Spec => []TypeOK
<1>1. BridgeInv => TypeOK
  <2>1. SUFFICES ASSUME BridgeInv PROVE TypeOK  OBVIOUS
  <2>2. Range(forwarded) \subseteq 1 .. read
        BY <2>1 DEF BridgeInv, Shape, Range
  <2>3. QED  BY <2>1, <2>2 DEF BridgeInv, Shape, TypeOK
<1>2. QED  BY <1>1, Invariance, PTL

(* No byte 0x16 is passed over but in a read that went to the screen, whatever the
   device sends and wherever the reads cut it; so the server's stream begins with
   the head of the handshake, or a DEBUG text has taken the head away
   (usb_tcp_bridge.py:67-84).                                              *)
THEOREM HelloFirst == Spec => []EngagesAtFirst
<1>1. BridgeInv => EngagesAtFirst
  <2>1. SUFFICES ASSUME BridgeInv PROVE EngagesAtFirst  OBVIOUS
  <2>2. ~tls_active => \A k \in 1 .. read : emitted[k] \in Hellos => k \in shown
        BY <2>1 DEF BridgeInv, NonePassed
  <2>3. ASSUME forwarded # <<>>
        PROVE  /\ emitted[forwarded[1]] \in Hellos
               /\ \A k \in 1 .. forwarded[1] - 1 : emitted[k] \in Hellos => k \in shown
               /\ \/ emitted[forwarded[1]] = "type"
                  \/ \E k \in 1 .. forwarded[1] - 1 : emitted[k] = "type" /\ k \in shown
    <3>1. /\ emitted[forwarded[1]] \in Hellos
          /\ \A k \in 1 .. forwarded[1] - 1 : emitted[k] \in Hellos => k \in shown
          BY <2>1, <2>3 DEF BridgeInv, NoneInFront
    <3>2. CASE emitted[forwarded[1]] = "0x16"
      <4>1. forwarded[1] \in DOMAIN emitted
            BY <2>1, <2>3 DEF BridgeInv, Shape
      <4>2. PICK k \in 1 .. forwarded[1] - 1 : emitted[k] = "type"
            BY <2>1, <3>2, <4>1 DEF BridgeInv, TypeFirst
      <4>3. "type" \in Hellos  BY DEF Hellos
      <4>4. QED  BY <3>1, <4>2, <4>3
    <3>3. QED  BY <3>1, <3>2 DEF Hellos
  <2>4. QED  BY <2>2, <2>3 DEF EngagesAtFirst
<1>2. QED  BY <1>1, Invariance, PTL

(* As long as the bridge runs, the server has got what was read from the hello on,
   once and in order, but for what was shown (usb_tcp_bridge.py:61-84).    *)
THEOREM Intact == Spec => []StreamIntact
<1>1. BridgeInv => StreamIntact
      BY DEF BridgeInv, Shape, Increasing, AllButShown, StreamIntact
<1>2. QED  BY <1>1, Invariance, PTL
=============================================================================

-------------------------- MODULE VirtioNetProofs --------------------------
(***************************************************************************)
(* Proofs about VirtioNet, for every size of the ring and every number of  *)
(* buffers, transmissions and packets: type correctness, that the packets  *)
(* reach the driver in order and none is lost, and that what the device    *)
(* has used is announced.                                                  *)
(***************************************************************************)
EXTENDS VirtioNet, SequenceTheorems, FiniteSetTheorems, TLAPS

-----------------------------------------------------------------------------
(* Indices of the ring.                                                    *)

\* A remainder and its quotient.
LEMMA ModDef ==
    ASSUME NEW a \in Nat, NEW b \in Nat \ {0}
    PROVE  /\ a \div b \in Nat /\ a % b \in 0 .. (b - 1)
           /\ a = (b * (a \div b)) + (a % b)
  BY SMT

\* Two free-running indices less than a ring apart have different slots.
LEMMA DistinctSlots ==
    ASSUME NEW b \in Nat \ {0}, NEW x \in Nat, NEW y \in Nat, x < y, y - x < b
    PROVE  x % b # y % b
<1> DEFINE q == x \div b
           p == y \div b
           r == x % b
<1>1. q \in Nat /\ r \in 0 .. (b - 1) /\ x = (b * q) + r
  BY ModDef
<1>2. SUFFICES ASSUME y % b = r PROVE FALSE
  OBVIOUS
<1>3. p \in Nat /\ y = (b * p) + r
  BY <1>2, ModDef
<1> HIDE DEF q, p, r
<1>4. CASE p <= q
  <2>1. PICK d \in Nat : q = p + d
    <3>1. q - p \in Nat /\ q = p + (q - p)
      BY <1>1, <1>3, <1>4
    <3> QED
      BY <3>1
  <2>2. b * q = b * p + b * d /\ b * d \in Nat /\ b * p \in Nat
    BY <1>3, <2>1
  <2> QED
    BY <1>1, <1>3, <2>2
<1>5. CASE p > q
  <2>1. PICK d \in Nat : p = q + 1 + d
    <3>1. p - q - 1 \in Nat /\ p = q + 1 + (p - q - 1)
      BY <1>1, <1>3, <1>5
    <3> QED
      BY <3>1
  <2>2. b * p = b * q + b + b * d /\ b * d \in Nat /\ b * q \in Nat
    BY <1>1, <2>1
  <2> QED
    BY <1>1, <1>3, <2>2
<1> QED
  BY <1>1, <1>3, <1>4, <1>5

\* Every index has a slot.
LEMMA SlotOf ==
    ASSUME NEW x \in Nat
    PROVE  x % RingSize \in Slots
  BY NetAssumption, ModDef DEF Slots

\* The tail moves on by a number of packets, or to the head.
LEMMA TailOn ==
    ASSUME NEW h \in Nat, NEW t \in Nat, NEW R \in Nat, NEW m \in Nat, t <= h,
           m <= h - t, h - t <= R, NEW u, u = t + m \/ u = h
    PROVE  u \in Nat /\ u \in 0 .. h /\ t <= u /\ u <= h /\ h - u <= R
  OBVIOUS

-----------------------------------------------------------------------------
(* Largest and smallest, by which the drain is defined.                    *)

LEMMA LeastOf ==
    ASSUME NEW T, T \subseteq Nat, T # {}
    PROVE  \E x \in T : \A y \in T : x <= y
<1> DEFINE R == OpToRel(<, Nat)
<1>1. IsWellFoundedOn(R, Nat)
  BY NatLessThanWellFounded
<1>2. \A x, y \in Nat : <<y, x>> \in R <=> y < x
  BY DEF OpToRel
<1> HIDE DEF R
<1>3. PICK x \in T : \A y \in T : ~(<<y, x>> \in R)
  BY <1>1, WFMin
<1>4. ASSUME NEW y \in T PROVE x <= y
  <2>1. x \in Nat /\ y \in Nat
    OBVIOUS
  <2>2. ~(y < x)
    BY <1>2, <1>3, <2>1, Zenon
  <2> QED
    BY <2>1, <2>2
<1> QED
  BY <1>4

LEMMA MaxOf ==
    ASSUME NEW L \in Nat, NEW T, T \subseteq 0 .. L, T # {}
    PROVE  Max(T) \in T /\ \A y \in T : y <= Max(T)
<1> DEFINE U == {v \in Nat : \E x \in T : v = L - x}
<1>1. U \subseteq Nat /\ U # {}
  <2>1. PICK x : x \in T
    OBVIOUS
  <2>2. L - x \in U
    BY <2>1
  <2> QED
    BY <2>2
<1>2. PICK u \in U : \A v \in U : u <= v
  BY <1>1, LeastOf
<1>3. PICK x \in T : u = L - x
  OBVIOUS
<1>4. ASSUME NEW y \in T PROVE x >= y
  <2>1. L - y \in U
    OBVIOUS
  <2>2. L - x <= L - y
    BY <1>2, <1>3, <2>1
  <2> QED
    BY <2>2
<1>5. \E z \in T : \A y \in T : z >= y
  BY <1>4
<1>6. Max(T) \in T /\ \A y \in T : Max(T) >= y
  BY <1>5 DEF Max
<1> QED
  BY <1>6

LEMMA MinOf ==
    ASSUME NEW a \in Nat, NEW b \in Nat
    PROVE  Min({a, b}) = IF a <= b THEN a ELSE b
<1> DEFINE T == {a, b}
<1>1. \E x \in T : \A y \in T : x <= y
  OBVIOUS
<1>2. Min(T) \in T /\ \A y \in T : Min(T) <= y
  BY <1>1 DEF Min
<1> QED
  BY <1>2

-----------------------------------------------------------------------------
(* Type correctness.                                                       *)

\* The types; no more packets have entered the ring than have come; and the
\* driver's bound on transmissions.
Typed ==
    /\ TypeOK
    /\ rxHead <= arrived
    /\ txAvail + txUsed <= MaxTx

\* A slot between the indices holds a packet that has come.
Held ==
    \A n \in 1 .. (rxHead - rxTail) :
        ringBuf[(rxTail + n - 1) % RingSize] \in 1 .. arrived

\* The packets that come while the ring has room.
Fresh(c) == [n \in 1 .. c |-> arrived + n]

\* The number of packets an arrival of k puts in the ring.
Room == RingSize - (rxHead - rxTail)
Entering(k) == IF k <= Room THEN k ELSE Room

\* slirp_send_packet keeps the first packets that come, up to the room.
LEMMA KeptIs ==
    ASSUME Typed, NEW k \in Nat
    PROVE  /\ Entering(k) \in 0 .. k /\ Entering(k) <= Room
           /\ {n \in 1 .. k : Fits(n)} = 1 .. Entering(k)
           /\ Cardinality({n \in 1 .. k : Fits(n)}) = Entering(k)
<1> DEFINE c == Entering(k)
<1>1. c \in 0 .. k /\ c <= Room /\ Room \in Nat
  BY NetAssumption DEF Typed, TypeOK, Entering, Room
<1>2. {n \in 1 .. k : Fits(n)} = 1 .. c
  BY <1>1, NetAssumption DEF Typed, TypeOK, Entering, Room, Fits
<1> HIDE DEF c
<1>3. Cardinality(1 .. c) = c
  <2>1. c \in Nat /\ 1 \in Int /\ c \in Int
    BY <1>1
  <2>2. Cardinality(1 .. c) = IF 1 > c THEN 0 ELSE c - 1 + 1
    BY <2>1, FS_Interval
  <2> QED
    BY <2>1, <2>2
<1> QED
  BY <1>1, <1>2, <1>3 DEF c

\* What an arrival of k packets leaves in the ring: what was there, and
\* behind it those that entered.
LEMMA ReceiveEffect ==
    ASSUME Typed, NEW k \in Nat, arrived + k <= MaxPackets, Receive(k)
    PROVE  \E c \in 0 .. k :
              /\ c <= RingSize - (rxHead - rxTail)
              /\ arrived' = arrived + k /\ rxHead' = rxHead + c
              /\ accepted' = accepted \o Fresh(c)
              /\ ringBuf' \in [Slots -> 0 .. MaxPackets]
              /\ \A n \in 1 .. (rxHead - rxTail + c) :
                    ringBuf'[(rxTail + n - 1) % RingSize] =
                       IF n <= rxHead - rxTail
                       THEN ringBuf[(rxTail + n - 1) % RingSize]
                       ELSE arrived + (n - (rxHead - rxTail))
<1> PICK c : c = Entering(k)
  OBVIOUS
<1> DEFINE kept == {n \in 1 .. k : Fits(n)}
           here(i) == {n \in kept : (rxHead + n - 1) % RingSize = i}
<1>1. c \in 0 .. k /\ c <= RingSize - (rxHead - rxTail) /\ kept = 1 .. c
      /\ Cardinality(kept) = c
  BY KeptIs DEF Room
<1>2. /\ arrived' = arrived + k /\ rxHead' = rxHead + c
      /\ accepted' = accepted \o Fresh(c)
      /\ ringBuf' = [i \in Slots |-> IF here(i) = {} THEN ringBuf[i]
                                     ELSE arrived + Max(here(i))]
  BY <1>1 DEF Receive, Fresh
<1>3. /\ rxHead \in Nat /\ rxTail \in Nat /\ rxTail <= rxHead /\ arrived \in Nat
      /\ RingSize \in Nat \ {0} /\ ringBuf \in [Slots -> 0 .. MaxPackets]
      /\ MaxPackets \in Nat
  BY NetAssumption DEF Typed, TypeOK
<1>4. ASSUME NEW i \in Slots, here(i) # {}
      PROVE  Max(here(i)) \in here(i)
  <2>1. here(i) \subseteq 0 .. c /\ c \in Nat
    BY <1>1
  <2> HIDE DEF here
  <2> QED
    BY <2>1, <1>4, MaxOf
<1>5. ringBuf' \in [Slots -> 0 .. MaxPackets]
  <2>1. ASSUME NEW i \in Slots
        PROVE  (IF here(i) = {} THEN ringBuf[i] ELSE arrived + Max(here(i)))
                  \in 0 .. MaxPackets
    <3>1. CASE here(i) = {}
      BY <1>3, <3>1
    <3>2. CASE here(i) # {}
      <4>1. Max(here(i)) \in 1 .. c
        BY <1>1, <1>4, <3>2
      <4> HIDE DEF here
      <4> QED
        BY <1>1, <1>3, <3>2, <4>1
    <3> QED
      BY <3>1, <3>2
  <2> HIDE DEF here
  <2> QED
    BY <1>2, <2>1
<1>6. ASSUME NEW n \in 1 .. (rxHead - rxTail + c)
      PROVE  ringBuf'[(rxTail + n - 1) % RingSize] =
                IF n <= rxHead - rxTail
                THEN ringBuf[(rxTail + n - 1) % RingSize]
                ELSE arrived + (n - (rxHead - rxTail))
  <2> PICK x \in Nat : x = rxTail + n - 1
    BY <1>1, <1>3
  <2> PICK i : i = x % RingSize
    OBVIOUS
  <2>1. i \in Slots
    BY SlotOf
  <2>2. ringBuf'[i] = IF here(i) = {} THEN ringBuf[i] ELSE arrived + Max(here(i))
    BY <1>2, <2>1
  \* Slot i is that of another index in the ring only if it is the same one.
  <2>3. ASSUME NEW j \in 1 .. c, (rxHead + j - 1) % RingSize = i
        PROVE  rxHead + j - 1 = x
    <3> PICK y \in Nat : y = rxHead + j - 1
      BY <1>1, <1>3
    <3>1. y - x < RingSize /\ x - y < RingSize /\ y % RingSize = x % RingSize
      BY <1>1, <1>3, <2>3
    <3>2. ~(x < y) /\ ~(y < x)
      BY <1>3, <3>1, DistinctSlots
    <3> QED
      BY <3>2
  <2>4. CASE n <= rxHead - rxTail
    <3>1. here(i) = {}
      BY <1>1, <1>3, <2>3, <2>4
    <3> HIDE DEF here
    <3> QED
      BY <2>2, <2>4, <3>1
  <2>5. CASE n > rxHead - rxTail
    <3> PICK j : j = n - (rxHead - rxTail)
      OBVIOUS
    <3>1. j \in 1 .. c /\ x = rxHead + j - 1
      BY <1>1, <1>3, <2>5
    <3>2. here(i) = {j}
      <4>1. j \in here(i)
        BY <1>1, <3>1
      <4>2. ASSUME NEW h \in here(i) PROVE h = j
        <5>1. h \in 1 .. c /\ rxHead + h - 1 = x
          BY <1>1, <2>3
        <5> HIDE DEF here
        <5> QED
          BY <1>3, <3>1, <5>1
      <4> HIDE DEF here
      <4> QED
        BY <4>1, <4>2
    <3>3. Max(here(i)) = j
      BY <1>4, <2>1, <3>2
    <3> HIDE DEF here
    <3> QED
      BY <1>1, <1>3, <2>2, <2>5, <3>1, <3>2, <3>3
  <2> QED
    BY <1>1, <1>3, <2>4, <2>5
<1> QED
  BY <1>1, <1>2, <1>5, <1>6

\* A function on an initial segment is a sequence.
LEMMA FcnIsSeq ==
    ASSUME NEW S, NEW N \in Nat, NEW f \in [1 .. N -> S]
    PROVE  f \in Seq(S) /\ Len(f) = N /\ \A i \in 1 .. N : f[i] \in S
<1>1. f \in Seq(S)
  BY SeqDef
<1>2. DOMAIN f = 1 .. N /\ DOMAIN f = 1 .. Len(f) /\ Len(f) \in Nat
  BY <1>1, LenProperties
<1> QED
  BY <1>1, <1>2

\* What lies in the ring is a sequence of packets.
LEMMA InRingSeq ==
    ASSUME Typed, Held
    PROVE  InRing \in Seq(Packets) /\ Len(InRing) = rxHead - rxTail
<1>1. rxHead - rxTail \in Nat /\ arrived <= MaxPackets /\ arrived \in Nat /\ MaxPackets \in Nat
  BY NetAssumption DEF Typed, TypeOK
<1>2. InRing \in [1 .. (rxHead - rxTail) -> Packets]
  BY <1>1 DEF Held, InRing, Packets
<1> QED
  BY <1>1, <1>2, FcnIsSeq

\* The packets that come in one arrival are packets.
LEMMA FreshSeq ==
    ASSUME Typed, NEW c \in Nat, arrived + c <= MaxPackets
    PROVE  /\ Fresh(c) \in Seq(Packets) /\ Len(Fresh(c)) = c
           /\ \A n \in 1 .. c : Fresh(c)[n] = arrived + n
<1>1. Fresh(c) \in [1 .. c -> Packets]
  BY NetAssumption DEF Typed, TypeOK, Fresh, Packets
<1> QED
  BY <1>1, FcnIsSeq DEF Fresh

\* After an arrival, the ring holds what it held and then what entered it.
LEMMA WaitingIs ==
    ASSUME Typed, Held, NEW k \in Nat, arrived + k <= MaxPackets, Receive(k)
    PROVE  \E c \in 0 .. k :
              /\ arrived' = arrived + k /\ rxHead' = rxHead + c
              /\ c <= RingSize - (rxHead - rxTail)
              /\ accepted' = accepted \o Fresh(c)
              /\ ringBuf' \in [Slots -> 0 .. MaxPackets]
              /\ Waiting = InRing \o Fresh(c)
              /\ Waiting \in Seq(Packets) /\ Len(Waiting) = rxHead' - rxTail
              /\ \A n \in 1 .. (rxHead' - rxTail) :
                    ringBuf'[(rxTail + n - 1) % RingSize] \in 1 .. arrived'
<1>1. PICK c \in 0 .. k :
              /\ c <= RingSize - (rxHead - rxTail)
              /\ arrived' = arrived + k /\ rxHead' = rxHead + c
              /\ accepted' = accepted \o Fresh(c)
              /\ ringBuf' \in [Slots -> 0 .. MaxPackets]
              /\ \A n \in 1 .. (rxHead - rxTail + c) :
                    ringBuf'[(rxTail + n - 1) % RingSize] =
                       IF n <= rxHead - rxTail
                       THEN ringBuf[(rxTail + n - 1) % RingSize]
                       ELSE arrived + (n - (rxHead - rxTail))
  BY ReceiveEffect
<1> PICK r : r = rxHead - rxTail
  OBVIOUS
<1> DEFINE old(n) == ringBuf[(rxTail + n - 1) % RingSize]
           new(n) == ringBuf'[(rxTail + n - 1) % RingSize]
<1>2. /\ r \in Nat /\ arrived \in Nat /\ MaxPackets \in Nat /\ c \in Nat
      /\ arrived + c <= MaxPackets /\ rxHead' - rxTail = r + c
      /\ rxHead \in Nat /\ rxTail \in Nat
  BY <1>1, NetAssumption DEF Typed, TypeOK
<1>3. /\ InRing \in Seq(Packets) /\ Len(InRing) = r
      /\ Fresh(c) \in Seq(Packets) /\ Len(Fresh(c)) = c
      /\ \A n \in 1 .. c : Fresh(c)[n] = arrived + n
  BY <1>2, InRingSeq, FreshSeq
<1>a. \A n \in 1 .. (r + c) : new(n) = IF n <= r THEN old(n) ELSE arrived + (n - r)
  BY <1>1
<1>b. \A n \in 1 .. r : old(n) \in 1 .. arrived /\ InRing[n] = old(n)
  BY DEF Held, InRing
<1>c. Waiting = [n \in 1 .. (r + c) |-> new(n)]
  BY <1>2 DEF Waiting
<1>d. (\A n \in 1 .. (r + c) : new(n) \in 1 .. arrived')
         => \A n \in 1 .. (rxHead' - rxTail) :
                    ringBuf'[(rxTail + n - 1) % RingSize] \in 1 .. arrived'
  BY <1>2
<1> HIDE DEF old, new
<1>4. ASSUME NEW n \in 1 .. (r + c)
      PROVE  new(n) \in 1 .. arrived' /\ new(n) \in Packets
  BY <1>1, <1>2, <1>a, <1>b DEF Packets
<1>5. Waiting \in [1 .. (r + c) -> Packets]
  BY <1>4, <1>c
<1>6. Waiting \in Seq(Packets) /\ Len(Waiting) = r + c
  BY <1>2, <1>5, FcnIsSeq
<1> PICK u : u = InRing \o Fresh(c)
  OBVIOUS
<1>7. /\ u \in Seq(Packets) /\ Len(u) = r + c
      /\ \A n \in 1 .. (r + c) : u[n] = IF n <= r THEN InRing[n] ELSE Fresh(c)[n - r]
  <2>1. /\ InRing \o Fresh(c) \in Seq(Packets)
        /\ Len(InRing \o Fresh(c)) = Len(InRing) + Len(Fresh(c))
        /\ \A i \in 1 .. Len(InRing) + Len(Fresh(c)) : (InRing \o Fresh(c))[i] =
              IF i <= Len(InRing) THEN InRing[i] ELSE Fresh(c)[i - Len(InRing)]
    BY <1>3, ConcatProperties, Zenon
  <2> QED
    BY <1>3, <2>1
<1>8. ASSUME NEW n \in 1 .. (r + c) PROVE Waiting[n] = u[n]
  <2>1. Waiting[n] = new(n)
    BY <1>c
  <2>2. CASE n <= r
    BY <1>2, <1>7, <1>a, <1>b, <2>1, <2>2
  <2>3. CASE n > r
    <3> PICK j : j = n - r
      OBVIOUS
    <3>1. j \in 1 .. c /\ u[n] = Fresh(c)[j]
      BY <1>2, <1>7, <2>3
    <3>2. u[n] = arrived + j
      BY <1>3, <3>1
    <3> QED
      BY <1>2, <1>a, <2>1, <2>3, <3>2
  <2>4. n <= r \/ n > r
    BY <1>2
  <2> QED
    BY <2>2, <2>3, <2>4, Zenon
<1>9. Waiting = u
  BY <1>6, <1>7, <1>8, SeqEqual
<1> QED
  BY <1>1, <1>2, <1>4, <1>6, <1>9, <1>d

\* A drain moves the oldest packets to buffers; it loses the others only on
\* a buffer too short for a header.
LEMMA DrainEffect ==
    ASSUME Typed, Drain, Waiting \in Seq(Packets)
    PROVE  \E m \in 0 .. Len(Waiting) :
              /\ m <= Len(avail)
              /\ usedRx' = usedRx \o SubSeq(Waiting, 1, m)
              /\ avail' = SubSeq(avail, m + 1, Len(avail))
              /\ intStatus' = (intStatus \/ m > 0)
              /\ \/ rxTail' = rxTail + m
                 \/ rxTail' = rxHead' /\ \E n \in 1 .. Len(avail) : avail[n] # "ok"
<1>1. Len(avail) \in Nat /\ Len(Waiting) \in Nat
  BY LenProperties DEF Typed, TypeOK
<1>2. 0 \in Usable /\ Usable \subseteq 0 .. Len(avail)
  BY <1>1 DEF Usable
<1>3. Max(Usable) \in Usable /\ \A y \in Usable : y <= Max(Usable)
  BY <1>1, <1>2, MaxOf
<1> PICK M : M = Max(Usable)
  OBVIOUS
<1>4. M \in 0 .. Len(avail) /\ M \in Nat /\ \A y \in Usable : y <= M
  <2>1. M \in 0 .. Len(avail) /\ \A y \in Usable : y <= M
    BY <1>2, <1>3, Zenon
  <2> QED
    BY <1>1, <2>1
<1> PICK m : m = Min({Len(Waiting), M})
  OBVIOUS
<1>5. m = IF Len(Waiting) <= M THEN Len(Waiting) ELSE M
  BY <1>1, <1>4, MinOf
<1>6. /\ usedRx' = usedRx \o SubSeq(Waiting, 1, m)
      /\ avail' = SubSeq(avail, m + 1, Len(avail))
      /\ intStatus' = (intStatus \/ m > 0)
      /\ rxTail' = IF m < Len(Waiting) /\ m < Len(avail) THEN rxHead' ELSE rxTail + m
  BY DEF Drain
<1>7. ASSUME m < Len(Waiting), m < Len(avail)
      PROVE  \E n \in 1 .. Len(avail) : avail[n] # "ok"
  <2>1. SUFFICES ASSUME \A n \in 1 .. Len(avail) : avail[n] = "ok" PROVE FALSE
    OBVIOUS
  <2>2. Len(avail) \in Usable
    BY <1>1, <2>1 DEF Usable
  <2> QED
    BY <1>1, <1>3, <1>4, <1>5, <1>7, <2>2
<1>8. m \in 0 .. Len(Waiting) /\ m <= Len(avail)
  BY <1>1, <1>4, <1>5
<1>9. \/ rxTail' = rxTail + m
      \/ rxTail' = rxHead' /\ \E n \in 1 .. Len(avail) : avail[n] # "ok"
  BY <1>6, <1>7
<1> QED
  BY <1>6, <1>8, <1>9, Zenon

\* The types hold before the driver finds the device.
LEMMA InitTyped == Init => Typed /\ Held
<1>1. Init => TypeOK
  <2>1. /\ <<>> \in Seq({"ok", "short"}) /\ <<>> \in Seq(Packets)
        /\ Len(<<>>) = 0
    BY EmptySeq
  <2>2. Init => ringBuf \in [Slots -> 0 .. MaxPackets]
    BY NetAssumption DEF Init
  <2>3. Init => /\ avail \in Seq({"ok", "short"}) /\ Len(avail) <= NumBufs
                /\ usedRx \in Seq(Packets)
                /\ accepted \in Seq(Packets) /\ taken \in Seq(Packets)
    BY <2>1, NetAssumption DEF Init
  <2>4. Init => /\ rxHead \in 0 .. MaxPackets /\ rxTail \in 0 .. rxHead
                /\ rxHead - rxTail <= RingSize /\ arrived \in 0 .. MaxPackets
                /\ txAvail \in 0 .. MaxTx /\ txUsed \in 0 .. MaxTx
    BY NetAssumption DEF Init
  <2> QED
    BY <2>2, <2>3, <2>4 DEF Init, TypeOK
<1> QED
  BY <1>1, NetAssumption DEF Init, Typed, Held

\* The store that raises the source keeps its type.
LEMMA RaiseTyped ==
    ASSUME pending \subseteq Sources, Raise
    PROVE  pending' \subseteq Sources
  BY DEF Raise, Sources

\* Repeating a kind of buffer gives a sequence of buffers.
LEMMA BufsSeq ==
    ASSUME NEW n \in Nat, NEW b \in {"ok", "short"}, NEW s, s = [i \in 1 .. n |-> b]
    PROVE  s \in Seq({"ok", "short"}) /\ Len(s) = n /\ \A i \in 1 .. n : s[i] = b
<1>1. s \in [1 .. n -> {"ok", "short"}]
  OBVIOUS
<1> QED
  BY <1>1, FcnIsSeq

\* Polling and transmitting are the steps that let packets arrive.
LEMMA Arrivals ==
    ASSUME Typed, Poll \/ KickTx
    PROVE  \E k \in Nat : arrived + k <= MaxPackets /\ Receive(k)
<1>1. CASE Poll
  BY <1>1 DEF Poll
<1>2. CASE KickTx
  <2>1. PICK k \in 0 .. 1 : /\ k = 0 \/ (slirp /\ txAvail > 0 /\ arrived < MaxPackets)
                            /\ Receive(k)
    BY <1>2 DEF KickTx
  <2>2. arrived + k <= MaxPackets /\ k \in Nat
    BY <2>1, NetAssumption DEF Typed, TypeOK
  <2> QED
    BY <2>1, <2>2
<1> QED
  BY <1>1, <1>2

\* What the steps that leave the receive side alone keep.
LEMMA SameRing ==
    ASSUME Held, UNCHANGED <<ringBuf, rxHead, rxTail, arrived>>
    PROVE  Held'
  BY DEF Held

\* Every step keeps the types.
LEMMA NextTyped == Typed /\ Held /\ [Next]_vars => Typed' /\ Held'
<1> SUFFICES ASSUME Typed, Held, [Next]_vars PROVE Typed' /\ Held'
  OBVIOUS
<1> USE NetAssumption
<1>0. /\ avail \in Seq({"ok", "short"}) /\ Len(avail) \in Nat /\ Len(avail) <= NumBufs
      /\ usedRx \in Seq(Packets) /\ accepted \in Seq(Packets) /\ taken \in Seq(Packets)
      /\ pending \subseteq Sources
  BY LenProperties DEF Typed, TypeOK
<1>1. CASE Poll
  <2>1. PICK k \in Nat : arrived + k <= MaxPackets /\ Receive(k)
    BY <1>1, Arrivals
  <2>2. PICK c \in 0 .. k :
              /\ arrived' = arrived + k /\ rxHead' = rxHead + c
              /\ c <= RingSize - (rxHead - rxTail)
              /\ accepted' = accepted \o Fresh(c)
              /\ ringBuf' \in [Slots -> 0 .. MaxPackets]
              /\ Waiting = InRing \o Fresh(c)
              /\ Waiting \in Seq(Packets) /\ Len(Waiting) = rxHead' - rxTail
              /\ \A n \in 1 .. (rxHead' - rxTail) :
                    ringBuf'[(rxTail + n - 1) % RingSize] \in 1 .. arrived'
    BY <2>1, WaitingIs
  <2>3. accepted' \in Seq(Packets)
    <3>1. Fresh(c) \in Seq(Packets)
      BY <2>1, <2>2, FreshSeq DEF Typed, TypeOK
    <3> QED
      BY <1>0, <2>2, <3>1, ConcatProperties
  <2>4. /\ rxHead' \in 0 .. MaxPackets /\ rxTail \in 0 .. rxHead' /\ rxHead' - rxTail <= RingSize
        /\ arrived' \in 0 .. MaxPackets /\ rxHead' <= arrived'
    BY <2>1, <2>2 DEF Typed, TypeOK
  <2>b. rxHead' \in Nat /\ rxTail \in Nat /\ rxTail <= rxHead' /\ RingSize \in Nat
    BY <2>4
  <2>5. /\ rxTail' \in Nat /\ rxTail' \in 0 .. rxHead' /\ rxTail <= rxTail' /\ rxTail' <= rxHead'
        /\ rxHead' - rxTail' <= RingSize /\ intStatus' \in BOOLEAN
        /\ avail' \in Seq({"ok", "short"}) /\ Len(avail') <= NumBufs
        /\ usedRx' \in Seq(Packets)
    <3>1. CASE ready
      <4>1. Drain
        BY <1>1, <3>1 DEF Poll
      <4>2. PICK m \in 0 .. Len(Waiting) :
              /\ m <= Len(avail)
              /\ usedRx' = usedRx \o SubSeq(Waiting, 1, m)
              /\ avail' = SubSeq(avail, m + 1, Len(avail))
              /\ intStatus' = (intStatus \/ m > 0)
              /\ \/ rxTail' = rxTail + m
                 \/ rxTail' = rxHead' /\ \E n \in 1 .. Len(avail) : avail[n] # "ok"
        BY <2>2, <4>1, DrainEffect
      <4>3. /\ rxTail' \in Nat /\ rxTail' \in 0 .. rxHead' /\ rxTail <= rxTail'
            /\ rxTail' <= rxHead' /\ rxHead' - rxTail' <= RingSize
        <5>1. m \in Nat /\ m <= rxHead' - rxTail
          BY <2>2, <2>4
        <5>2. rxTail' = rxTail + m \/ rxTail' = rxHead'
          BY <4>2, Zenon
        <5> QED
          BY <2>4, <2>b, <5>1, <5>2, TailOn
      <4>4. usedRx' \in Seq(Packets)
        <5>0. Len(Waiting) \in Nat
          BY <2>2, LenProperties
        <5>1. \A i \in 1 .. m : Waiting[i] \in Packets
          BY <2>2, <5>0, ElementOfSeq
        <5>2. SubSeq(Waiting, 1, m) \in Seq(Packets)
          <6>1. 1 \in Int /\ m \in Int
            BY <5>0
          <6> HIDE DEF Waiting
          <6> QED
            BY <5>1, <6>1, SubSeqProperties
        <5> QED
          BY <1>0, <4>2, <5>2, ConcatProperties
      <4>5. avail' \in Seq({"ok", "short"}) /\ Len(avail') <= NumBufs
        <5>1. m \in Nat /\ m + 1 \in Int /\ Len(avail) \in Int
          BY <1>0, <2>2, <2>4, <4>2
        <5>2. \A i \in (m + 1) .. Len(avail) : avail[i] \in {"ok", "short"}
          BY <1>0, <5>1, ElementOfSeq
        <5>3. /\ avail' \in Seq({"ok", "short"})
              /\ Len(avail') = IF m + 1 <= Len(avail) THEN Len(avail) - (m + 1) + 1 ELSE 0
          BY <4>2, <5>1, <5>2, SubSeqProperties
        <5> QED
          BY <1>0, <5>1, <5>3
      <4>6. intStatus' \in BOOLEAN
        BY <4>2
      <4> QED
        BY <4>3, <4>4, <4>5, <4>6
    <3>2. CASE ~ready
      <4>1. UNCHANGED <<rxTail, intStatus, avail, usedRx>>
        BY <1>1, <3>2 DEF Poll
      <4>2. rxTail <= rxTail
        BY <2>b
      <4>3. /\ rxTail' \in Nat /\ rxTail' \in 0 .. rxHead' /\ rxTail <= rxTail'
            /\ rxTail' <= rxHead' /\ rxHead' - rxTail' <= RingSize
        BY <2>4, <2>b, <4>1, <4>2, Zenon
      <4> QED
        BY <1>0, <4>1, <4>3 DEF Typed, TypeOK
    <3> QED
      BY <3>1, <3>2
  <2>6. UNCHANGED <<slirp, ready, txAvail, txUsed, pending, gpc, taken, short>>
    BY <1>1 DEF Poll
  <2>7. Typed'
    BY <2>2, <2>3, <2>4, <2>5, <2>6 DEF Typed, TypeOK
  <2>8. Held'
    <3> SUFFICES ASSUME NEW n \in 1 .. (rxHead' - rxTail')
                 PROVE  ringBuf'[(rxTail' + n - 1) % RingSize] \in 1 .. arrived'
      BY DEF Held
    <3>p. PICK h, u, t : h = rxHead' /\ u = rxTail' /\ t = rxTail
      OBVIOUS
    <3>0. h \in Nat /\ u \in Nat /\ t \in Nat /\ t <= u /\ u <= h /\ n \in 1 .. (h - u)
      BY <2>b, <2>5, <3>p
    <3>q. PICK j : j = (u - t) + n
      OBVIOUS
    <3>1. j \in 1 .. (h - t) /\ u + n - 1 = t + j - 1
      BY <3>0, <3>q
    <3> QED
      BY <2>2, <3>p, <3>1
  <2> QED
    BY <2>7, <2>8
<1>2. CASE KickTx
  <2>1. PICK k \in Nat : arrived + k <= MaxPackets /\ Receive(k)
    BY <1>2, Arrivals
  <2>2. PICK c \in 0 .. k :
              /\ arrived' = arrived + k /\ rxHead' = rxHead + c
              /\ c <= RingSize - (rxHead - rxTail)
              /\ accepted' = accepted \o Fresh(c)
              /\ ringBuf' \in [Slots -> 0 .. MaxPackets]
              /\ Waiting = InRing \o Fresh(c)
              /\ Waiting \in Seq(Packets) /\ Len(Waiting) = rxHead' - rxTail
              /\ \A n \in 1 .. (rxHead' - rxTail) :
                    ringBuf'[(rxTail + n - 1) % RingSize] \in 1 .. arrived'
    BY <2>1, WaitingIs
  <2>3. accepted' \in Seq(Packets)
    <3>1. Fresh(c) \in Seq(Packets)
      BY <2>1, <2>2, FreshSeq DEF Typed, TypeOK
    <3> QED
      BY <1>0, <2>2, <3>1, ConcatProperties
  <2>4. /\ rxHead' \in 0 .. MaxPackets /\ rxTail \in 0 .. rxHead' /\ rxHead' - rxTail <= RingSize
        /\ arrived' \in 0 .. MaxPackets /\ rxHead' <= arrived'
    BY <2>1, <2>2 DEF Typed, TypeOK
  <2>5. /\ UNCHANGED <<slirp, rxTail, ready, avail, usedRx, gpc, taken, short>>
        /\ txUsed' = txUsed + txAvail /\ txAvail' = 0
        /\ intStatus' = (intStatus \/ txAvail > 0) /\ Raise
    BY <1>2 DEF KickTx, Transmit
  <2>6. /\ pending' \subseteq Sources /\ intStatus' \in BOOLEAN
        /\ txUsed' \in 0 .. MaxTx /\ txAvail' \in 0 .. MaxTx /\ txAvail' + txUsed' <= MaxTx
    <3>1. intStatus' \in BOOLEAN
      BY <2>5
    <3>2. /\ txUsed' \in 0 .. MaxTx /\ txAvail' \in 0 .. MaxTx
          /\ txAvail' + txUsed' <= MaxTx
      BY <2>5 DEF Typed, TypeOK
    <3> QED
      BY <1>0, <2>5, <3>1, <3>2, RaiseTyped
  <2>7. Typed'
    BY <2>2, <2>3, <2>4, <2>5, <2>6 DEF Typed, TypeOK
  <2>8. Held'
    BY <2>2, <2>5 DEF Held
  <2> QED
    BY <2>7, <2>8
<1>3. CASE SetUp
  <2>1. PICK n \in 0 .. NumBufs : avail' = [i \in 1 .. n |-> "ok"]
    BY <1>3 DEF SetUp
  <2>2. avail' \in Seq({"ok", "short"}) /\ Len(avail') <= NumBufs
    BY <2>1, BufsSeq
  <2>3. pending' \subseteq Sources
    BY <1>0, <1>3, RaiseTyped DEF SetUp
  <2>4. Typed'
    BY <1>3, <2>2, <2>3 DEF SetUp, host, history, Typed, TypeOK
  <2> QED
    BY <1>3, <2>4, SameRing DEF SetUp, host, history
<1>4. CASE Reset
  <2>1. /\ <<>> \in Seq({"ok", "short"}) /\ <<>> \in Seq(Packets)
        /\ Len(<<>>) = 0
    BY EmptySeq
  <2>2. ringBuf' \in [Slots -> 0 .. MaxPackets]
    BY <1>4 DEF Reset
  <2>3. pending' \subseteq Sources
    BY <1>0, <1>4, RaiseTyped DEF Reset
  <2>a. /\ avail' \in Seq({"ok", "short"}) /\ Len(avail') <= NumBufs
        /\ usedRx' \in Seq(Packets) /\ accepted' \in Seq(Packets)
    BY <1>0, <1>4, <2>1 DEF Reset
  <2>b. /\ rxHead' \in 0 .. MaxPackets /\ rxTail' \in 0 .. rxHead'
        /\ rxHead' - rxTail' <= RingSize /\ rxHead' <= arrived'
        /\ txAvail' \in 0 .. MaxTx /\ txUsed' \in 0 .. MaxTx /\ txAvail' + txUsed' <= MaxTx
    BY <1>4 DEF Reset, Typed, TypeOK
  <2>4. Typed'
    BY <1>4, <2>2, <2>3, <2>a, <2>b DEF Reset, Typed, TypeOK
  <2>5. Held'
    BY <1>4 DEF Reset, Held
  <2> QED
    BY <2>4, <2>5
<1>5. CASE Queue
  BY <1>5, SameRing DEF Queue, host, history, Typed, TypeOK
<1>6. CASE Claim
  <2>1. gpc' \in {"blk", "net"} /\ pending' \subseteq Sources
    BY <1>0, <1>6 DEF Claim, Claimed, Sources
  <2> QED
    BY <1>6, <2>1, SameRing DEF Claim, host, queues, history, Typed, TypeOK
<1>7. CASE ReadStatus
  BY <1>7, SameRing DEF ReadStatus, host, queues, history, Typed, TypeOK
<1>8. CASE Ack
  <2>1. pending' \subseteq Sources
    BY <1>0, <1>8, RaiseTyped DEF Ack
  <2> QED
    BY <1>8, <2>1, SameRing DEF Ack, Goto, host, queues, history, Typed, TypeOK
<1>9. CASE Take
  <2>1. usedRx' \in Seq(Packets) /\ taken' \in Seq(Packets)
    BY <1>0, <1>9, EmptySeq, ConcatProperties DEF Take
  <2> QED
    BY <1>9, <2>1, SameRing DEF Take, Goto, host, Typed, TypeOK
<1>10. CASE Refill
  <2>1. PICK n \in 0 .. (NumBufs - Len(avail)), b \in {"ok", "short"} :
          /\ avail' = avail \o [i \in 1 .. n |-> b]
          /\ short' = (short \/ (n > 0 /\ b = "short"))
    BY <1>10 DEF Refill
  <2> PICK s : s = [i \in 1 .. n |-> b]
    OBVIOUS
  <2>2. n \in Nat /\ s \in Seq({"ok", "short"}) /\ Len(s) = n
    BY <1>0, <2>1, BufsSeq
  <2>3. avail' \in Seq({"ok", "short"}) /\ Len(avail') = Len(avail) + n
    BY <1>0, <2>1, <2>2, ConcatProperties
  <2>4. Len(avail') <= NumBufs
    BY <1>0, <2>1, <2>3
  <2>5. short' \in BOOLEAN
    BY <2>1
  <2>6. pending' \subseteq Sources
    BY <1>0, <1>10, RaiseTyped DEF Refill
  <2> QED
    BY <1>10, <2>3, <2>4, <2>5, <2>6, SameRing DEF Refill, Goto, host, Typed, TypeOK
<1>11. CASE Finish
  BY <1>11, SameRing DEF Finish, host, queues, history, Typed, TypeOK
<1>12. CASE RaiseBlk
  BY <1>12, SameRing DEF RaiseBlk, host, queues, history, Typed, TypeOK, Sources
<1>13. CASE UNCHANGED vars
  BY <1>13, SameRing DEF vars, host, queues, history, Typed, TypeOK
<1> QED
  BY <1>1, <1>2, <1>3, <1>4, <1>5, <1>6, <1>7, <1>8, <1>9, <1>10, <1>11, <1>12, <1>13
     DEF Next, Driver

\* Types: every variable stays in its type, whatever arrives and however the
\* driver resets the device; the free-running indices of rx_ring_buffers never
\* are further apart than the ring has slots.
THEOREM NetTypeCorrect == Spec => []TypeOK
<1>1. Typed /\ Held => TypeOK
  BY DEF Typed
<1> QED
  BY <1>1, InitTyped, NextTyped, PTL DEF Spec

-----------------------------------------------------------------------------
(* The order of the packets.                                               *)

\* Numbers that rise, and numbers of packets that have come.
Rising(s) == \A i \in 1 .. Len(s) - 1 : s[i] < s[i + 1]
Come(s) == \A i \in 1 .. Len(s) : s[i] <= arrived

\* The packets on their way, in the order the driver gets them.
Line == taken \o usedRx \o InRing

\* They rise and have come; nothing is lost, and every buffer has room for
\* a header, while the driver has offered no other.
Stream ==
    /\ Rising(Line) /\ Come(Line)
    /\ ~short => /\ Line = accepted
                 /\ \A i \in 1 .. Len(avail) : avail[i] = "ok"

\* Numbers that rise, followed by the numbers next to a bound of theirs.
LEMMA RisingFcn ==
    ASSUME NEW l \in Nat, NEW c \in Nat, NEW a \in Nat, NEW k \in Nat, c <= k,
           NEW s, \A i \in 1 .. l : s[i] \in Nat /\ s[i] <= a,
           \A i \in 1 .. (l - 1) : s[i] < s[i + 1],
           NEW u, \A i \in 1 .. (l + c) : u[i] = IF i <= l THEN s[i] ELSE a + (i - l)
    PROVE  /\ \A i \in 1 .. (l + c) : u[i] <= a + k
           /\ \A i \in 1 .. ((l + c) - 1) : u[i] < u[i + 1]
<1>1. ASSUME NEW i \in 1 .. (l + c) PROVE u[i] <= a + k
  OBVIOUS
<1>2. ASSUME NEW i \in 1 .. ((l + c) - 1) PROVE u[i] < u[i + 1]
  <2>p. PICK j : j = i + 1
    OBVIOUS
  <2>1. i \in 1 .. (l + c) /\ j \in 1 .. (l + c)
    BY <2>p
  <2>2. CASE j <= l
    <3>1. i \in 1 .. (l - 1) /\ i <= l
      BY <2>p, <2>2
    <3> QED
      BY <2>p, <2>1, <2>2, <3>1
  <2>3. CASE j > l
    <3>1. u[j] = a + (j - l) /\ u[j] > a
      BY <2>1, <2>3
    <3>2. CASE i <= l
      <4>1. u[i] = s[i] /\ s[i] \in Nat /\ s[i] <= a
        BY <2>1, <3>2
      <4> QED
        BY <2>p, <2>1, <2>3, <3>1, <4>1
    <3>3. CASE i > l
      BY <2>p, <2>1, <3>1, <3>3
    <3> QED
      BY <3>2, <3>3
  <2> QED
    BY <2>p, <2>2, <2>3
<1> QED
  BY <1>1, <1>2

\* Packets that come go behind those that have come.
LEMMA RisingOn ==
    ASSUME Typed, NEW s \in Seq(Packets), Rising(s), Come(s),
           NEW k \in Nat, arrived + k <= MaxPackets, NEW c \in 0 .. k
    PROVE  /\ s \o Fresh(c) \in Seq(Packets) /\ Rising(s \o Fresh(c))
           /\ \A i \in 1 .. Len(s \o Fresh(c)) : (s \o Fresh(c))[i] <= arrived + k
<1>p. PICK t, a, l, u : t = Fresh(c) /\ a = arrived /\ l = Len(s) /\ u = s \o t
  OBVIOUS
<1>1. a \in Nat /\ c \in Nat /\ c <= k /\ l \in Nat /\ arrived + c <= MaxPackets
  BY <1>p, NetAssumption, LenProperties DEF Typed, TypeOK
<1>2. t \in Seq(Packets) /\ Len(t) = c /\ \A n \in 1 .. c : t[n] = a + n
  BY <1>p, <1>1, FreshSeq
<1>3. /\ u \in Seq(Packets) /\ Len(u) = l + c
      /\ \A i \in 1 .. (l + c) : u[i] = IF i <= l THEN s[i] ELSE t[i - l]
  <2>1. /\ s \o t \in Seq(Packets)
        /\ Len(s \o t) = Len(s) + Len(t)
        /\ \A i \in 1 .. Len(s) + Len(t) :
              (s \o t)[i] = IF i <= Len(s) THEN s[i] ELSE t[i - Len(s)]
    BY <1>2, ConcatProperties, Zenon
  <2> QED
    BY <1>p, <1>2, <2>1
<1>4. \A i \in 1 .. l : s[i] \in Nat /\ s[i] <= a
  <2>1. \A i \in 1 .. l : s[i] \in Packets
    BY <1>p, <1>1, ElementOfSeq
  <2> QED
    BY <1>p, <2>1 DEF Come, Packets
<1>5. \A i \in 1 .. (l + c) : u[i] = IF i <= l THEN s[i] ELSE a + (i - l)
  <2> TAKE i \in 1 .. (l + c)
  <2>0. i \in Nat /\ (i <= l \/ i > l)
    BY <1>1
  <2>1. CASE i <= l
    BY <1>3, <2>1
  <2>2. CASE i > l
    <3>p. PICK j : j = i - l
      OBVIOUS
    <3>1. j \in 1 .. c
      BY <1>1, <2>2, <3>p
    <3>2. u[i] = t[j] /\ t[j] = a + j
      BY <1>1, <1>2, <1>3, <2>0, <2>2, <3>p, <3>1
    <3>3. ~(i <= l)
      BY <1>1, <2>0, <2>2
    <3> QED
      BY <3>p, <3>2, <3>3, Zenon
  <2> QED
    BY <2>0, <2>1, <2>2, Zenon
<1>6. \A i \in 1 .. (l - 1) : s[i] < s[i + 1]
  BY <1>p DEF Rising
<1>7. /\ \A i \in 1 .. (l + c) : u[i] <= a + k
      /\ \A i \in 1 .. ((l + c) - 1) : u[i] < u[i + 1]
  BY <1>1, <1>4, <1>5, <1>6, RisingFcn, Zenon
<1>8. Rising(u)
  BY <1>3, <1>7 DEF Rising
<1> QED
  BY <1>p, <1>3, <1>7, <1>8

\* A part at the front of numbers that rise up to a bound does too.
LEMMA RisingFront ==
    ASSUME NEW s \in Seq(Packets), NEW t \in Seq(Packets), Rising(s \o t),
           NEW a \in Nat, \A i \in 1 .. Len(s \o t) : (s \o t)[i] <= a
    PROVE  Rising(s) /\ \A i \in 1 .. Len(s) : s[i] <= a
<1>p. PICK u : u = s \o t
  OBVIOUS
<1>1. /\ Len(u) = Len(s) + Len(t) /\ Len(s) \in Nat /\ Len(t) \in Nat
      /\ \A i \in 1 .. Len(s) + Len(t) : u[i] = IF i <= Len(s) THEN s[i] ELSE t[i - Len(s)]
  BY <1>p, ConcatProperties, LenProperties
<1>2. \A i \in 1 .. Len(s) : i \in 1 .. Len(u) /\ u[i] = s[i]
  BY <1>1
<1>3. ASSUME NEW i \in 1 .. Len(s) - 1 PROVE s[i] < s[i + 1]
  <2>1. i \in 1 .. Len(u) - 1 /\ i \in 1 .. Len(s) /\ i + 1 \in 1 .. Len(s)
    BY <1>1
  <2>2. u[i] = s[i] /\ u[i + 1] = s[i + 1]
    BY <1>2, <2>1
  <2> QED
    BY <1>p, <2>1, <2>2 DEF Rising
<1>4. ASSUME NEW i \in 1 .. Len(s) PROVE s[i] <= a
  BY <1>p, <1>2
<1> QED
  BY <1>3, <1>4 DEF Rising

\* The contents of a ring from a tail to a head.
Cells(b, t, h) == [n \in 1 .. (h - t) |-> b[(t + n - 1) % RingSize]]

LEMMA CellsSeq ==
    ASSUME NEW b, NEW t \in Nat, NEW h \in Nat, t <= h, Cells(b, t, h) \in Seq(Packets)
    PROVE  /\ Len(Cells(b, t, h)) = h - t
           /\ \A n \in 1 .. (h - t) : /\ Cells(b, t, h)[n] = b[(t + n - 1) % RingSize]
                                      /\ Cells(b, t, h)[n] \in Packets
<1>p. PICK w, l : w = Cells(b, t, h) /\ l = h - t
  OBVIOUS
<1>1. l \in Nat /\ DOMAIN w = 1 .. l
  BY <1>p DEF Cells
<1>2. DOMAIN w = 1 .. Len(w) /\ Len(w) \in Nat /\ w \in [1 .. Len(w) -> Packets]
  BY <1>p, LenProperties
<1>3. Len(w) = l
  BY <1>1, <1>2
<1> QED
  BY <1>p, <1>2, <1>3 DEF Cells

\* When the tail moves on, the ring holds the rest of what it held.
LEMMA CellsRest ==
    ASSUME NEW b, NEW t \in Nat, NEW h \in Nat, NEW m \in Nat, t + m <= h,
           Cells(b, t, h) \in Seq(Packets)
    PROVE  Cells(b, t + m, h) = SubSeq(Cells(b, t, h), m + 1, h - t)
<1>p. PICK w, u, l, r, v : /\ w = Cells(b, t, h) /\ u = t + m /\ l = h - t /\ r = h - u
                           /\ v = SubSeq(w, m + 1, l)
  OBVIOUS
<1>1. u \in Nat /\ u <= h /\ t <= h /\ l \in Nat /\ r \in Nat /\ l = m + r
  BY <1>p
<1>2. /\ Len(w) = l
      /\ \A n \in 1 .. l : w[n] = b[(t + n - 1) % RingSize] /\ w[n] \in Packets
  <2>1. /\ Len(Cells(b, t, h)) = h - t
        /\ \A n \in 1 .. (h - t) : /\ Cells(b, t, h)[n] = b[(t + n - 1) % RingSize]
                                   /\ Cells(b, t, h)[n] \in Packets
    BY <1>1, CellsSeq
  <2> QED
    BY <1>p, <2>1, Zenon
<1>3. /\ v \in Seq(Packets) /\ Len(v) = r
      /\ \A i \in 1 .. r : v[i] = w[m + 1 + i - 1]
  <2>1. \A i \in (m + 1) .. l : w[i] \in Packets
    BY <1>1, <1>2
  <2>2. m + 1 \in Int /\ l \in Int
    BY <1>1
  <2>3. /\ v \in Seq(Packets)
        /\ Len(v) = IF m + 1 <= l THEN l - (m + 1) + 1 ELSE 0
        /\ \A i \in 1 .. (l - (m + 1) + 1) : v[i] = w[m + 1 + i - 1]
    BY <1>p, <2>1, <2>2, SubSeqProperties
  <2>4. l - (m + 1) + 1 = r /\ Len(v) = r
    BY <1>1, <2>3
  <2> QED
    BY <2>3, <2>4
<1>4. ASSUME NEW i \in 1 .. r PROVE v[i] = b[(u + i - 1) % RingSize]
  <2>p. PICK j : j = m + i
    OBVIOUS
  <2>1. j \in 1 .. l /\ m + 1 + i - 1 = j /\ t + j - 1 = u + i - 1
    BY <1>1, <1>p, <2>p
  <2> QED
    BY <1>2, <1>3, <2>1
<1>5. v \in [1 .. r -> Packets]
  BY <1>3, LenProperties
<1>6. v = [i \in 1 .. r |-> b[(u + i - 1) % RingSize]]
  BY <1>4, <1>5
<1> QED
  BY <1>p, <1>6 DEF Cells

\* An empty ring.
LEMMA CellsNone ==
    ASSUME NEW b, NEW h \in Nat
    PROVE  Cells(b, h, h) = <<>>
<1>p. PICK w : w = Cells(b, h, h)
  OBVIOUS
<1>1. w \in [1 .. 0 -> Packets]
  BY <1>p DEF Cells
<1>2. w \in Seq(Packets) /\ Len(w) = 0
  BY <1>1, FcnIsSeq
<1> QED
  BY <1>p, <1>2, EmptySeq

\* Regrouping sequences of packets.
LEMMA Regroup ==
    ASSUME NEW x \in Seq(Packets), NEW r \in Seq(Packets), NEW f \in Seq(Packets)
    PROVE  x \o r \in Seq(Packets) /\ (x \o r) \o f = x \o (r \o f)
  BY ConcatProperties, ConcatAssociative

\* The first state has nothing on its way.
LEMMA InitStream == Init => Stream
<1> SUFFICES ASSUME Init PROVE Stream
  OBVIOUS
<1>1. InRing = <<>>
  <2>1. InRing = Cells(ringBuf, 0, 0)
    BY DEF Init, InRing, Cells
  <2> QED
    BY <2>1, CellsNone
<1>2. <<>> \in Seq(Packets) /\ Len(<<>>) = 0
  BY EmptySeq
<1>3. Line = <<>>
  BY <1>1, <1>2, ConcatEmptySeq DEF Init, Line
<1> QED
  BY <1>2, <1>3 DEF Init, Stream, Rising, Come

\* A step that moves nothing and makes no buffer available keeps the order.
LEMMA SameStream ==
    ASSUME Stream, UNCHANGED <<ringBuf, rxHead, rxTail, arrived, taken, usedRx, accepted,
                               short, avail>>
    PROVE  Stream'
  BY DEF Stream, Line, InRing, Rising, Come

\* What an arrival makes of the packets on their way: the new ones are last.
LEMMA LineOn ==
    ASSUME Typed, Held, Stream, NEW k \in Nat, arrived + k <= MaxPackets, Receive(k)
    PROVE  \E c \in 0 .. k :
              /\ arrived' = arrived + k /\ accepted' = accepted \o Fresh(c)
              /\ Waiting \in Seq(Packets)
              /\ rxHead' \in Nat /\ rxTail \in Nat /\ rxTail <= rxHead'
              /\ Waiting = Cells(ringBuf', rxTail, rxHead')
              /\ taken \o usedRx \o Waiting = Line \o Fresh(c)
              /\ Rising(taken \o usedRx \o Waiting)
              /\ \A i \in 1 .. Len(taken \o usedRx \o Waiting) :
                    (taken \o usedRx \o Waiting)[i] <= arrived'
<1>1. PICK c \in 0 .. k :
              /\ arrived' = arrived + k /\ rxHead' = rxHead + c
              /\ c <= RingSize - (rxHead - rxTail)
              /\ accepted' = accepted \o Fresh(c)
              /\ ringBuf' \in [Slots -> 0 .. MaxPackets]
              /\ Waiting = InRing \o Fresh(c)
              /\ Waiting \in Seq(Packets) /\ Len(Waiting) = rxHead' - rxTail
              /\ \A n \in 1 .. (rxHead' - rxTail) :
                    ringBuf'[(rxTail + n - 1) % RingSize] \in 1 .. arrived'
  BY WaitingIs
<1>2. rxHead' \in Nat /\ rxTail \in Nat /\ rxTail <= rxHead'
  BY <1>1, NetAssumption DEF Typed, TypeOK
<1>3. Waiting = Cells(ringBuf', rxTail, rxHead')
  BY DEF Waiting, Cells
<1>4. /\ taken \in Seq(Packets) /\ usedRx \in Seq(Packets) /\ InRing \in Seq(Packets)
      /\ Fresh(c) \in Seq(Packets)
  <2>1. c \in Nat /\ arrived + c <= MaxPackets
    BY <1>1, NetAssumption DEF Typed, TypeOK
  <2> QED
    BY <2>1, InRingSeq, FreshSeq DEF Typed, TypeOK
<1>5. Line \in Seq(Packets) /\ Line \o Fresh(c) = taken \o usedRx \o (InRing \o Fresh(c))
  <2>p. PICK x, r, f : x = taken \o usedRx /\ r = InRing /\ f = Fresh(c)
    OBVIOUS
  <2>1. x \in Seq(Packets) /\ r \in Seq(Packets) /\ f \in Seq(Packets)
    BY <1>4, <2>p, Regroup
  <2>2. x \o r \in Seq(Packets) /\ (x \o r) \o f = x \o (r \o f)
    BY <2>1, Regroup
  <2> QED
    BY <2>2, <2>p, Zenon DEF Line
<1>6. taken \o usedRx \o Waiting = Line \o Fresh(c)
  BY <1>1, <1>5, Zenon
<1>7. /\ Rising(Line \o Fresh(c))
      /\ \A i \in 1 .. Len(Line \o Fresh(c)) : (Line \o Fresh(c))[i] <= arrived + k
  BY <1>5, RisingOn DEF Stream
<1> QED
  BY <1>1, <1>2, <1>3, <1>6, <1>7

\* Polling keeps the order.
LEMMA PollStream == Typed /\ Held /\ Stream /\ Poll => Stream'
<1> SUFFICES ASSUME Typed, Held, Stream, Poll PROVE Stream'
  OBVIOUS
<1>1. PICK k \in Nat : arrived + k <= MaxPackets /\ Receive(k)
  BY Arrivals
<1>2. PICK c \in 0 .. k :
              /\ arrived' = arrived + k /\ accepted' = accepted \o Fresh(c)
              /\ Waiting \in Seq(Packets)
              /\ rxHead' \in Nat /\ rxTail \in Nat /\ rxTail <= rxHead'
              /\ Waiting = Cells(ringBuf', rxTail, rxHead')
              /\ taken \o usedRx \o Waiting = Line \o Fresh(c)
              /\ Rising(taken \o usedRx \o Waiting)
              /\ \A i \in 1 .. Len(taken \o usedRx \o Waiting) :
                    (taken \o usedRx \o Waiting)[i] <= arrived'
  BY <1>1, LineOn
<1>3. UNCHANGED <<taken, short>>
  BY DEF Poll
<1>4. InRing' = Cells(ringBuf', rxTail', rxHead')
  BY DEF InRing, Cells
<1>5. Line' = taken \o usedRx' \o InRing'
  BY <1>3 DEF Line
<1>6. /\ taken \in Seq(Packets) /\ usedRx \in Seq(Packets) /\ avail \in Seq({"ok", "short"})
      /\ Len(avail) \in Nat /\ arrived' \in Nat
  BY <1>2, LenProperties DEF Typed, TypeOK
<1>7. CASE ~ready
  <2>1. UNCHANGED <<rxTail, avail, usedRx>>
    BY <1>7 DEF Poll
  <2>2. Line' = taken \o usedRx \o Waiting
    BY <1>2, <1>4, <1>5, <2>1
  <2>3. Rising(Line') /\ \A i \in 1 .. Len(Line') : Line'[i] <= arrived'
    BY <1>2, <2>2
  <2>4. ~short' => /\ Line' = accepted'
                   /\ \A i \in 1 .. Len(avail') : avail'[i] = "ok"
    BY <1>2, <1>3, <2>1, <2>2 DEF Stream
  <2> QED
    BY <2>3, <2>4 DEF Stream, Rising, Come
<1>8. CASE ready
  <2>1. PICK m \in 0 .. Len(Waiting) :
              /\ m <= Len(avail)
              /\ usedRx' = usedRx \o SubSeq(Waiting, 1, m)
              /\ avail' = SubSeq(avail, m + 1, Len(avail))
              /\ intStatus' = (intStatus \/ m > 0)
              /\ \/ rxTail' = rxTail + m
                 \/ rxTail' = rxHead' /\ \E n \in 1 .. Len(avail) : avail[n] # "ok"
    BY <1>2, <1>8, DrainEffect DEF Poll
  <2>p. PICK W, w, f, g : /\ W = Waiting /\ w = Len(W)
                          /\ f = SubSeq(W, 1, m) /\ g = SubSeq(W, m + 1, w)
    OBVIOUS
  <2>2. /\ W \in Seq(Packets) /\ w \in Nat /\ m \in Nat /\ m <= w
        /\ w = rxHead' - rxTail
    <3>1. Len(Cells(ringBuf', rxTail, rxHead')) = rxHead' - rxTail
      BY <1>2, CellsSeq
    <3>2. w = rxHead' - rxTail
      BY <1>2, <2>p, <3>1, Zenon
    <3>3. W \in Seq(Packets) /\ w \in Nat /\ m \in 0 .. w
      BY <1>2, <2>1, <2>p, LenProperties
    <3> QED
      BY <3>2, <3>3
  <2>3. f \in Seq(Packets) /\ g \in Seq(Packets) /\ W = f \o g
    <3>1. \A i \in 1 .. w : W[i] \in Packets
      BY <2>2, <2>p, ElementOfSeq
    <3>2. f \in Seq(Packets)
      <4>1. \A i \in 1 .. m : W[i] \in Packets
        BY <2>2, <3>1
      <4> QED
        BY <2>2, <2>p, <4>1, SubSeqProperties
    <3>3. g \in Seq(Packets)
      <4>1. \A i \in (m + 1) .. w : W[i] \in Packets
        BY <2>2, <3>1
      <4>2. m + 1 \in Int /\ w \in Int
        BY <2>2
      <4> QED
        BY <2>p, <4>1, <4>2, SubSeqProperties
    <3>4. SubSeq(W, 1, m) \o SubSeq(W, m + 1, w) = SubSeq(W, 1, w)
      <4>1. 1 \in 1 .. Len(W) + 1 /\ m \in (1 - 1) .. Len(W) /\ w \in m .. Len(W)
        BY <2>2, <2>p
      <4> QED
        BY <2>2, <4>1, ConcatAdjacentSubSeq
    <3>5. SubSeq(W, 1, w) = W
      BY <2>2, <2>p, SubSeqFull
    <3> QED
      BY <2>p, <3>2, <3>3, <3>4, <3>5, Zenon
  <2>4. taken \o usedRx \o Waiting = taken \o usedRx' \o g
    <3>p. PICK t, u, x, y : t = taken /\ u = usedRx /\ x = t \o u /\ y = u \o f
      OBVIOUS
    <3>1. t \in Seq(Packets) /\ u \in Seq(Packets)
      BY <1>6, <3>p, Zenon
    <3>2. x \in Seq(Packets) /\ x \o f = t \o y
      <4>1. t \o u \in Seq(Packets) /\ (t \o u) \o f = t \o (u \o f)
        BY <2>3, <3>1, Regroup
      <4> QED
        BY <3>p, <4>1, Zenon
    <3>3. (x \o f) \o g = x \o (f \o g)
      BY <2>3, <3>2, Regroup
    <3>4. usedRx' = y
      BY <2>1, <2>p, <3>p, Zenon
    <3>5. Waiting = f \o g
      BY <2>3, <2>p, Zenon
    <3> QED
      BY <3>p, <3>2, <3>3, <3>4, <3>5, Zenon
  <2>5. ~short => \A i \in 1 .. Len(avail') : avail'[i] = "ok"
    <3> SUFFICES ASSUME ~short PROVE \A i \in 1 .. Len(avail') : avail'[i] = "ok"
      OBVIOUS
    <3>p. PICK a, l, q : a = avail /\ l = Len(a) /\ q = avail'
      OBVIOUS
    <3>1. l \in Nat /\ a \in Seq({"ok", "short"}) /\ m <= l /\ \A i \in 1 .. l : a[i] = "ok"
      BY <1>6, <2>1, <3>p DEF Stream
    <3>2. /\ Len(q) = IF m + 1 <= l THEN l - (m + 1) + 1 ELSE 0
          /\ \A i \in 1 .. (l - (m + 1) + 1) : q[i] = a[(m + 1) + i - 1]
      <4>1. \A i \in (m + 1) .. l : a[i] \in {"ok"}
        BY <2>2, <3>1
      <4>2. m + 1 \in Int /\ l \in Int
        BY <2>2, <3>1
      <4>3. q = SubSeq(a, m + 1, l)
        BY <2>1, <3>p, Zenon
      <4> QED
        BY <4>1, <4>2, <4>3, SubSeqProperties
    <3>3. ASSUME NEW i \in 1 .. Len(q) PROVE q[i] = "ok"
      <4>1. Len(q) = l - m /\ i \in 1 .. (l - (m + 1) + 1) /\ (m + 1) + i - 1 \in 1 .. l
        BY <2>2, <3>1, <3>2
      <4> QED
        BY <3>1, <3>2, <4>1
    <3> QED
      BY <3>p, <3>3, Zenon
  <2>6. CASE rxTail' = rxTail + m
    <3>p. PICK b, t, h : b = ringBuf' /\ t = rxTail /\ h = rxHead'
      OBVIOUS
    <3>a. t \in Nat /\ h \in Nat /\ t + m <= h /\ Cells(b, t, h) \in Seq(Packets)
      <4>1. t \in Nat /\ h \in Nat /\ t <= h /\ w = h - t
        BY <1>2, <2>2, <3>p, Zenon
      <4>2. t + m <= h
        BY <2>2, <4>1
      <4> QED
        BY <1>2, <3>p, <4>1, <4>2, Zenon
    <3>b. Cells(b, t + m, h) = SubSeq(Cells(b, t, h), m + 1, h - t)
      BY <2>2, <3>a, CellsRest
    <3>1. InRing' = g
      BY <1>2, <1>4, <2>2, <2>6, <2>p, <3>b, <3>p, Zenon
    <3>2. Line' = taken \o usedRx \o Waiting
      BY <1>5, <2>4, <3>1
    <3>3. Rising(Line') /\ \A i \in 1 .. Len(Line') : Line'[i] <= arrived'
      BY <1>2, <3>2
    <3>4. ~short' => Line' = accepted'
      BY <1>2, <1>3, <3>2 DEF Stream
    <3> QED
      BY <1>3, <2>5, <3>3, <3>4 DEF Stream, Rising, Come
  <2>7. CASE rxTail' = rxHead' /\ \E n \in 1 .. Len(avail) : avail[n] # "ok"
    <3>1. InRing' = <<>>
      BY <1>2, <1>4, <2>7, CellsNone
    <3>p. PICK x : x = taken \o usedRx'
      OBVIOUS
    <3>2. x \in Seq(Packets) /\ Line' = x /\ taken \o usedRx \o Waiting = x \o g
      <4>1. usedRx' \in Seq(Packets)
        BY <1>6, <2>1, <2>3, <2>p, ConcatProperties
      <4>2. x \in Seq(Packets)
        BY <1>6, <3>p, <4>1, ConcatProperties
      <4>3. x \o <<>> = x
        BY <4>2, ConcatEmptySeq
      <4> QED
        BY <1>5, <2>4, <3>1, <3>p, <4>2, <4>3, Zenon
    <3>3. Rising(x) /\ \A i \in 1 .. Len(x) : x[i] <= arrived'
      BY <1>2, <1>6, <2>3, <3>2, RisingFront
    <3>4. short'
      BY <1>3, <2>7 DEF Stream
    <3> QED
      BY <3>2, <3>3, <3>4 DEF Stream, Rising, Come
  <2> QED
    BY <2>1, <2>6, <2>7
<1> QED
  BY <1>7, <1>8

\* A transmission that is answered keeps the order.
LEMMA KickStream == Typed /\ Held /\ Stream /\ KickTx => Stream'
<1> SUFFICES ASSUME Typed, Held, Stream, KickTx PROVE Stream'
  OBVIOUS
<1>1. PICK k \in Nat : arrived + k <= MaxPackets /\ Receive(k)
  BY Arrivals
<1>2. PICK c \in 0 .. k :
              /\ arrived' = arrived + k /\ accepted' = accepted \o Fresh(c)
              /\ Waiting \in Seq(Packets)
              /\ rxHead' \in Nat /\ rxTail \in Nat /\ rxTail <= rxHead'
              /\ Waiting = Cells(ringBuf', rxTail, rxHead')
              /\ taken \o usedRx \o Waiting = Line \o Fresh(c)
              /\ Rising(taken \o usedRx \o Waiting)
              /\ \A i \in 1 .. Len(taken \o usedRx \o Waiting) :
                    (taken \o usedRx \o Waiting)[i] <= arrived'
  BY <1>1, LineOn
<1>3. UNCHANGED <<rxTail, avail, usedRx, taken, short>>
  BY DEF KickTx
<1>4. InRing' = Cells(ringBuf', rxTail', rxHead')
  BY DEF InRing, Cells
<1>5. Line' = taken \o usedRx \o Waiting
  BY <1>2, <1>3, <1>4 DEF Line
<1>6. Rising(Line') /\ \A i \in 1 .. Len(Line') : Line'[i] <= arrived'
  BY <1>2, <1>5
<1>7. ~short' => /\ Line' = accepted'
                 /\ \A i \in 1 .. Len(avail') : avail'[i] = "ok"
  BY <1>2, <1>3, <1>5 DEF Stream
<1> QED
  BY <1>6, <1>7 DEF Stream, Rising, Come

\* Every step keeps the order.
LEMMA NextStream == Typed /\ Held /\ Stream /\ [Next]_vars => Stream'
<1> SUFFICES ASSUME Typed, Held, Stream, [Next]_vars PROVE Stream'
  OBVIOUS
<1>0. /\ taken \in Seq(Packets) /\ usedRx \in Seq(Packets) /\ InRing \in Seq(Packets)
      /\ avail \in Seq({"ok", "short"}) /\ Len(avail) \in Nat /\ arrived \in Nat
  BY InRingSeq, LenProperties DEF Typed, TypeOK
<1>1. CASE Poll
  BY <1>1, PollStream
<1>2. CASE KickTx
  BY <1>2, KickStream
<1>3. CASE SetUp
  <2>1. PICK n \in 0 .. NumBufs : avail' = [i \in 1 .. n |-> "ok"]
    BY <1>3 DEF SetUp
  <2>2. \A i \in 1 .. Len(avail') : avail'[i] = "ok"
    BY <2>1, BufsSeq, NetAssumption
  <2>3. Line' = Line /\ UNCHANGED <<arrived, accepted, short>>
    BY <1>3 DEF SetUp, host, history, Line, InRing
  <2> QED
    BY <2>2, <2>3 DEF Stream, Rising, Come
<1>4. CASE Reset
  <2>1. /\ taken' = taken /\ accepted' = taken /\ arrived' = arrived
        /\ usedRx' = <<>> /\ avail' = <<>> /\ rxHead' = 0 /\ rxTail' = 0
    BY <1>4 DEF Reset
  <2>2. InRing' = <<>>
    <3>1. InRing' = Cells(ringBuf', 0, 0)
      BY <2>1 DEF InRing, Cells
    <3> QED
      BY <3>1, CellsNone
  <2>3. Line' = taken
    <3>1. taken \o <<>> = taken
      BY <1>0, ConcatEmptySeq
    <3>2. Line' = taken' \o usedRx' \o InRing'
      BY DEF Line
    <3> QED
      BY <2>1, <2>2, <3>1, <3>2, Zenon
  <2>p. PICK g : g = usedRx \o InRing
    OBVIOUS
  <2>4. g \in Seq(Packets) /\ Line = taken \o g
    <3>1. /\ usedRx \o InRing \in Seq(Packets)
          /\ (taken \o usedRx) \o InRing = taken \o (usedRx \o InRing)
      BY <1>0, Regroup
    <3> QED
      BY <2>p, <3>1, Zenon DEF Line
  <2>5. /\ Rising(taken \o g)
        /\ \A i \in 1 .. Len(taken \o g) : (taken \o g)[i] <= arrived
    BY <2>4 DEF Stream, Come
  <2>6. Rising(taken) /\ \A i \in 1 .. Len(taken) : taken[i] <= arrived
    BY <1>0, <2>4, <2>5, RisingFront
  <2>7. \A i \in 1 .. Len(avail') : avail'[i] = "ok"
    <3>1. Len(<<>>) = 0
      BY EmptySeq
    <3> QED
      BY <2>1, <3>1
  <2> QED
    BY <2>1, <2>3, <2>6, <2>7 DEF Stream, Rising, Come
<1>5. CASE Queue
  BY <1>5, SameStream DEF Queue, host, history
<1>6. CASE Claim
  BY <1>6, SameStream DEF Claim, host, queues, history
<1>7. CASE ReadStatus
  BY <1>7, SameStream DEF ReadStatus, host, queues, history
<1>8. CASE Ack
  BY <1>8, SameStream DEF Ack, host, queues, history
<1>9. CASE Take
  <2>1. /\ taken' = taken \o usedRx /\ usedRx' = <<>>
        /\ UNCHANGED <<ringBuf, rxHead, rxTail, avail, arrived, accepted, short>>
    BY <1>9 DEF Take, host
  <2>2. InRing' = InRing
    BY <2>1 DEF InRing
  <2>p. PICK x : x = taken \o usedRx
    OBVIOUS
  <2>3. x \o <<>> = x
    BY <1>0, <2>p, Regroup, ConcatEmptySeq
  <2>4. Line' = taken' \o usedRx' \o InRing'
    BY DEF Line
  <2>5. Line' = Line
    BY <2>1, <2>2, <2>3, <2>4, <2>p, Zenon DEF Line
  <2> QED
    BY <2>1, <2>5 DEF Stream, Rising, Come
<1>10. CASE Refill
  <2>1. PICK n \in 0 .. (NumBufs - Len(avail)), b \in {"ok", "short"} :
          /\ avail' = avail \o [i \in 1 .. n |-> b]
          /\ short' = (short \/ (n > 0 /\ b = "short"))
    BY <1>10 DEF Refill
  <2>2. Line' = Line /\ UNCHANGED <<arrived, accepted>>
    BY <1>10 DEF Refill, host, Line, InRing
  <2>3. ASSUME ~short' PROVE ~short /\ \A i \in 1 .. Len(avail') : avail'[i] = "ok"
    <3>p. PICK s, a, l : s = [i \in 1 .. n |-> b] /\ a = avail /\ l = Len(a)
      OBVIOUS
    <3>1. n \in Nat /\ l \in Nat /\ a \in Seq({"ok", "short"})
      BY <1>0, <3>p, NetAssumption
    <3>2. s \in Seq({"ok", "short"}) /\ Len(s) = n /\ \A i \in 1 .. n : s[i] = b
      BY <3>1, <3>p, BufsSeq
    <3>3. ~short /\ ~(n > 0 /\ b = "short")
      BY <2>1, <2>3, Zenon
    <3>4. \A i \in 1 .. l : a[i] = "ok"
      BY <3>3, <3>p DEF Stream
    <3>5. \A i \in 1 .. n : s[i] = "ok"
      BY <3>1, <3>2, <3>3
    <3>6. /\ Len(a \o s) = l + n
          /\ \A i \in 1 .. (l + n) : (a \o s)[i] = IF i <= l THEN a[i] ELSE s[i - l]
      BY <3>1, <3>2, <3>p, ConcatProperties
    <3>7. ASSUME NEW i \in 1 .. (l + n) PROVE (a \o s)[i] = "ok"
      <4>1. CASE i <= l
        BY <3>1, <3>4, <3>6, <4>1
      <4>2. CASE i > l
        <5>1. i - l \in 1 .. n /\ (a \o s)[i] = s[i - l]
          BY <3>1, <3>6, <4>2
        <5> QED
          BY <3>5, <5>1
      <4>3. i <= l \/ i > l
        BY <3>1
      <4> QED
        BY <4>1, <4>2, <4>3, Zenon
    <3>8. avail' = a \o s
      BY <2>1, <3>p, Zenon
    <3> QED
      BY <3>3, <3>6, <3>7, <3>8, Zenon
  <2> QED
    BY <2>2, <2>3 DEF Stream, Rising, Come
<1>11. CASE Finish
  BY <1>11, SameStream DEF Finish, host, queues, history
<1>12. CASE RaiseBlk
  BY <1>12, SameStream DEF RaiseBlk, host, queues, history
<1>13. CASE UNCHANGED vars
  BY <1>13, SameStream DEF vars, host, queues, history
<1> QED
  BY <1>1, <1>2, <1>3, <1>4, <1>5, <1>6, <1>7, <1>8, <1>9, <1>10, <1>11, <1>12, <1>13
     DEF Next, Driver

\* Order: the packets the driver has taken, those in used buffers and those
\* in rx_ring_buffers are, in this order, packets in the order they came, none
\* twice; and they are all that entered the ring as long as the driver made no
\* buffer available that is too short for a header.  For every size of the
\* ring, however arrivals, drains, refills and resets interleave.
THEOREM PacketsInOrder == Spec => []RxIsQueue
<1>1. Stream => RxIsQueue
  BY DEF Stream, RxIsQueue, Line, Rising
<1> QED
  BY <1>1, InitTyped, NextTyped, InitStream, NextStream, PTL DEF Spec

-----------------------------------------------------------------------------
(* What the device has used is announced.                                  *)

\* The store that raises a source takes none away, and raises the source of
\* the device if it has something to say.
LEMMA RaiseKeeps ==
    ASSUME Raise
    PROVE  pending \subseteq pending' /\ (intStatus' => "net" \in pending')
  BY DEF Raise

\* A drain that uses a buffer sets the flag.
LEMMA PollUsed ==
    ASSUME Typed, Held, Poll
    PROVE  (usedRx' = usedRx /\ (intStatus => intStatus')) \/ intStatus'
<1>1. PICK k \in Nat : arrived + k <= MaxPackets /\ Receive(k)
  BY Arrivals
<1>2. Waiting \in Seq(Packets)
  BY <1>1, WaitingIs
<1>3. CASE ready
  <2>1. PICK m \in 0 .. Len(Waiting) :
              /\ m <= Len(avail)
              /\ usedRx' = usedRx \o SubSeq(Waiting, 1, m)
              /\ avail' = SubSeq(avail, m + 1, Len(avail))
              /\ intStatus' = (intStatus \/ m > 0)
              /\ \/ rxTail' = rxTail + m
                 \/ rxTail' = rxHead' /\ \E n \in 1 .. Len(avail) : avail[n] # "ok"
    BY <1>2, <1>3, DrainEffect DEF Poll
  <2>2. CASE m > 0
    BY <2>1, <2>2, Zenon
  <2>3. CASE ~(m > 0)
    <3>1. m < 1 /\ m \in Int
      BY <1>2, <2>3, LenProperties
    <3>2. SubSeq(Waiting, 1, m) = <<>>
      BY <3>1, SubSeqEmpty
    <3>3. usedRx \o <<>> = usedRx
      BY ConcatEmptySeq DEF Typed, TypeOK
    <3> QED
      BY <2>1, <3>2, <3>3, Zenon
  <2> QED
    BY <2>2, <2>3
<1>4. CASE ~ready
  BY <1>4 DEF Poll
<1> QED
  BY <1>3, <1>4

\* Every step keeps both announcements.
LEMMA NextAnnounced ==
    Typed /\ Held /\ UsedAnnounced /\ TxAnnounced /\ [Next]_vars
       => UsedAnnounced' /\ TxAnnounced'
<1> SUFFICES ASSUME Typed, Held, UsedAnnounced, TxAnnounced, [Next]_vars
             PROVE  UsedAnnounced' /\ TxAnnounced'
  OBVIOUS
<1>0. txAvail \in Nat /\ txUsed \in Nat
  BY NetAssumption DEF Typed, TypeOK
<1>1. CASE Poll
  <2>1. UNCHANGED <<txUsed, pending, gpc>>
    BY <1>1 DEF Poll
  <2>2. (usedRx' = usedRx /\ (intStatus => intStatus')) \/ intStatus'
    BY <1>1, PollUsed
  <2> QED
    BY <2>1, <2>2 DEF UsedAnnounced, TxAnnounced
<1>2. CASE KickTx
  <2>1. /\ usedRx' = usedRx /\ gpc = "user" /\ gpc' = "user" /\ txUsed' = txUsed + txAvail
        /\ intStatus' = (intStatus \/ txAvail > 0)
    BY <1>2 DEF KickTx, Transmit
  <2>2. pending \subseteq pending' /\ (intStatus' => "net" \in pending')
    BY <1>2, RaiseKeeps DEF KickTx
  <2>3. CASE txAvail > 0
    <3>1. intStatus'
      BY <2>1, <2>3, Zenon
    <3> QED
      BY <2>2, <3>1 DEF UsedAnnounced, TxAnnounced
  <2>4. CASE ~(txAvail > 0)
    <3>1. txUsed' = txUsed
      BY <1>0, <2>1, <2>4
    <3>2. intStatus => intStatus'
      BY <2>1, Zenon
    <3> QED
      BY <2>1, <2>2, <3>1, <3>2 DEF UsedAnnounced, TxAnnounced
  <2> QED
    BY <2>3, <2>4
<1>3. CASE SetUp
  <2>1. UNCHANGED <<intStatus, usedRx, txUsed, gpc>>
    BY <1>3 DEF SetUp
  <2>2. pending \subseteq pending'
    BY <1>3, RaiseKeeps DEF SetUp
  <2> QED
    BY <2>1, <2>2 DEF UsedAnnounced, TxAnnounced
<1>4. CASE Reset
  BY <1>4 DEF Reset, UsedAnnounced, TxAnnounced
<1>5. CASE Queue
  BY <1>5 DEF Queue, UsedAnnounced, TxAnnounced
<1>6. CASE Claim
  BY <1>6 DEF Claim, Claimed, queues, UsedAnnounced, TxAnnounced
<1>7. CASE ReadStatus
  BY <1>7 DEF ReadStatus, queues, UsedAnnounced, TxAnnounced
<1>8. CASE Ack
  BY <1>8 DEF Ack, Goto, UsedAnnounced, TxAnnounced
<1>9. CASE Take
  BY <1>9 DEF Take, UsedAnnounced, TxAnnounced
<1>10. CASE Refill
  <2>1. gpc = "refill" /\ UNCHANGED <<intStatus, usedRx, txUsed>>
    BY <1>10 DEF Refill, Goto
  <2>2. pending \subseteq pending'
    BY <1>10, RaiseKeeps DEF Refill
  <2> QED
    BY <2>1, <2>2 DEF UsedAnnounced, TxAnnounced
<1>11. CASE Finish
  BY <1>11 DEF Finish, queues, UsedAnnounced, TxAnnounced
<1>12. CASE RaiseBlk
  BY <1>12 DEF RaiseBlk, queues, UsedAnnounced, TxAnnounced
<1>13. CASE UNCHANGED vars
  BY <1>13 DEF vars, queues, UsedAnnounced, TxAnnounced
<1> QED
  BY <1>1, <1>2, <1>3, <1>4, <1>5, <1>6, <1>7, <1>8, <1>9, <1>10, <1>11, <1>12, <1>13
     DEF Next, Driver

\* Nothing is used at first.
LEMMA InitAnnounced == Init => UsedAnnounced /\ TxAnnounced
  BY DEF Init, UsedAnnounced, TxAnnounced

\* What the device has used and the driver not taken is announced in
\* int_status, or the handler has acknowledged it and is about to look.
THEOREM UsedIsAnnounced == Spec => []UsedAnnounced
  BY InitTyped, NextTyped, InitAnnounced, NextAnnounced, PTL DEF Spec

\* A completed transmission is pending in the PLIC or the handler is on its
\* way to it: bus_store raises the source after the store that completes it,
\* and the handler does not return on a clear int_status before it has taken
\* it, since int_status is set whenever something is used.
THEOREM TransmissionsAreAnnounced == Spec => []TxAnnounced
  BY InitTyped, NextTyped, InitAnnounced, NextAnnounced, PTL DEF Spec

=============================================================================

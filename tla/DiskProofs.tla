----------------------------- MODULE DiskProofs -----------------------------
(***************************************************************************)
(* The guest's disk.  First the device, VirtioBlk, for every size of the   *)
(* disk, of the queue and of the index counters: the rings are a window of *)
(* distinct heads over the indices (Ring), and what the device does to a   *)
(* chain is what its segments add up to (Walked), so that the device       *)
(* implements BlockService.  Then the worker that stores what the device   *)
(* has written, DiskPersist, for every disk and block size, flush limit    *)
(* and set of machines.                                                    *)
(***************************************************************************)
EXTENDS VirtioBlk, DiskPersist, SequenceTheorems, FiniteSetTheorems, WellFoundedInduction,
        TLAPS

-----------------------------------------------------------------------------
(* Indices of the rings.                                                   *)

\* A remainder and its quotient.
LEMMA ModDef ==
    ASSUME NEW a \in Nat, NEW b \in Nat \ {0}
    PROVE  /\ a \div b \in Nat /\ a % b \in 0 .. (b - 1)
           /\ a = (b * (a \div b)) + (a % b)
  BY SMT

\* Two numbers less than a divisor apart have different remainders.
LEMMA DistinctMod ==
    ASSUME NEW b \in Nat \ {0}, NEW x \in Nat, NEW y \in Nat, x < y, y - x < b
    PROVE  x % b # y % b
<1> DEFINE q == x \div b
           p == y \div b
           r == x % b
<1>1. q \in Nat /\ r \in 0 .. (b - 1) /\ x = (b * q) + r
  BY ModDef
<1>2. SUFFICES ASSUME y % b = r PROVE FALSE
  OBVIOUS
<1>3. p \in Nat /\ y = (b * p) + r
  BY <1>2, ModDef
<1> HIDE DEF q, p, r
<1>4. CASE p <= q
  <2>1. PICK d \in Nat : q = p + d
    <3>1. q - p \in Nat /\ q = p + (q - p)
      BY <1>1, <1>3, <1>4
    <3> QED
      BY <3>1
  <2>2. b * q = b * p + b * d /\ b * d \in Nat /\ b * p \in Nat
    BY <1>3, <2>1
  <2> QED
    BY <1>1, <1>3, <2>2
<1>5. CASE p > q
  <2>1. PICK d \in Nat : p = q + 1 + d
    <3>1. p - q - 1 \in Nat /\ p = q + 1 + (p - q - 1)
      BY <1>1, <1>3, <1>5
    <3> QED
      BY <3>1
  <2>2. b * p = b * q + b + b * d /\ b * d \in Nat /\ b * q \in Nat
    BY <1>1, <2>1
  <2> QED
    BY <1>1, <1>3, <2>2
<1> QED
  BY <1>1, <1>3, <1>4, <1>5

\* A number with a quotient and a remainder has no other remainder.
LEMMA ModIs ==
    ASSUME NEW a \in Nat, NEW b \in Nat \ {0}, NEW q \in Nat, NEW r \in 0 .. (b - 1),
           a = (b * q) + r
    PROVE  a % b = r
<1> DEFINE p == a \div b
           s == a % b
<1>1. p \in Nat /\ s \in 0 .. (b - 1) /\ a = (b * p) + s
  BY ModDef
<1> HIDE DEF p, s
<1>2. CASE p < q
  <2>1. PICK d \in Nat : q = p + 1 + d
    <3>1. q - p - 1 \in Nat /\ q = p + 1 + (q - p - 1)
      BY <1>1, <1>2
    <3> QED
      BY <3>1
  <2>2. b * q = b * p + b + b * d /\ b * d \in Nat /\ b * p \in Nat
    BY <1>1, <2>1
  <2> QED
    BY <1>1, <2>2
<1>3. CASE q < p
  <2>1. PICK d \in Nat : p = q + 1 + d
    <3>1. p - q - 1 \in Nat /\ p = q + 1 + (p - q - 1)
      BY <1>1, <1>3
    <3> QED
      BY <3>1
  <2>2. b * p = b * q + b + b * d /\ b * d \in Nat /\ b * q \in Nat
    BY <1>1, <2>1
  <2> QED
    BY <1>1, <2>2
<1>4. CASE p = q
  <2>1. b * p \in Nat
    BY <1>1
  <2>2. s = r
    BY <1>1, <1>4, <2>1
  <2> QED
    BY <2>2 DEF s
<1> QED
  BY <1>1, <1>2, <1>3, <1>4

\* A multiple of the divisor adds nothing to a remainder.
LEMMA ModShift ==
    ASSUME NEW b \in Nat \ {0}, NEW m \in Nat, m % b = 0, NEW k \in Nat
    PROVE  (m + k) % b = k % b
<1> DEFINE c == m \div b
           q == k \div b
           r == k % b
<1>1. c \in Nat /\ m = (b * c) + 0
  BY ModDef
<1>2. q \in Nat /\ r \in 0 .. (b - 1) /\ k = (b * q) + r
  BY ModDef
<1> HIDE DEF c, q, r
<1>3. b * (c + q) = b * c + b * q /\ b * c \in Nat /\ b * q \in Nat
  BY <1>1, <1>2
<1>4. m + k \in Nat /\ c + q \in Nat /\ m + k = (b * (c + q)) + r
  BY <1>1, <1>2, <1>3
<1>5. (m + k) % b = r
  BY <1>2, <1>4, ModIs
<1> QED
  BY <1>5 DEF r

Indices == 0 .. (IdxMod - 1)

\* The slot of the k-th element behind index i.
Slot(i, k) == (i + k) % Num

LEMMA Sizes ==
    /\ Num \in Nat /\ Num > 0 /\ IdxMod \in Nat /\ IdxMod > Num
    /\ IdxMod % Num = 0 /\ MaxRequests \in Nat /\ NSectors \in Nat /\ NSectors > 0
  BY VirtioAssumption

\* Below twice the modulus a remainder is at most one subtraction.
LEMMA ModTwice ==
    ASSUME NEW b \in Nat \ {0}, NEW a \in Nat, a < 2 * b
    PROVE  a % b = IF a < b THEN a ELSE a - b
<1>1. CASE a < b
  <2>1. a \in 0 .. (b - 1) /\ a = (b * 0) + a
    BY <1>1
  <2> QED
    BY <1>1, <2>1, ModIs
<1>2. CASE ~(a < b)
  <2>1. a - b \in 0 .. (b - 1) /\ a = (b * 1) + (a - b)
    BY <1>2
  <2> QED
    BY <1>2, <2>1, ModIs
<1> QED
  BY <1>1, <1>2

LEMMA Next1Is ==
    ASSUME NEW i \in Indices
    PROVE  /\ Next1(i) = IF i + 1 < IdxMod THEN i + 1 ELSE 0
           /\ Next1(i) \in Indices
<1> DEFINE a == i + 1
<1>1. a \in Nat /\ a < 2 * IdxMod /\ IdxMod \in Nat \ {0}
  BY Sizes DEF Indices
<1>2. Next1(i) = IF a < IdxMod THEN a ELSE a - IdxMod
  <2>1. Next1(i) = a % IdxMod
    BY DEF Next1
  <2> HIDE DEF a
  <2> QED
    BY <1>1, <2>1, ModTwice
<1>3. i \in Nat /\ IdxMod \in Nat /\ IdxMod > 0 /\ i + 1 <= IdxMod
  BY Sizes DEF Indices
<1> QED
  BY <1>2, <1>3 DEF Indices

LEMMA BehindIs ==
    ASSUME NEW i \in Indices, NEW j \in Indices
    PROVE  /\ Behind(i, j) = IF j < i THEN j + IdxMod - i ELSE j - i
           /\ Behind(i, j) \in Indices
<1> DEFINE a == j + IdxMod - i
<1>1. a \in Nat /\ a < 2 * IdxMod /\ IdxMod \in Nat \ {0}
  BY Sizes DEF Indices
<1>2. Behind(i, j) = IF a < IdxMod THEN a ELSE a - IdxMod
  <2>1. Behind(i, j) = a % IdxMod
    BY DEF Behind
  <2> HIDE DEF a
  <2> QED
    BY <1>1, <2>1, ModTwice
<1>3. i \in Nat /\ j \in Nat /\ i < IdxMod /\ j < IdxMod /\ IdxMod \in Nat
  BY Sizes DEF Indices
<1> QED
  BY <1>2, <1>3 DEF Indices

\* Distances between indices.
LEMMA Distances ==
    ASSUME NEW i \in Indices, NEW j \in Indices
    PROVE  /\ Behind(i, j) = 0 <=> i = j
           /\ Behind(i, j) < IdxMod - 1 => Behind(i, Next1(j)) = Behind(i, j) + 1
           /\ Behind(i, j) > 0 => Behind(Next1(i), j) = Behind(i, j) - 1
           /\ \A k \in Indices : Behind(i, k) <= Behind(i, j)
                 => Behind(k, j) = Behind(i, j) - Behind(i, k)
<1>1. Next1(i) \in Indices /\ Next1(j) \in Indices
  BY Next1Is
<1>2. i \in Nat /\ j \in Nat /\ i < IdxMod /\ j < IdxMod /\ IdxMod \in Nat
  BY Sizes DEF Indices
<1>3. Behind(i, j) = 0 <=> i = j
  BY <1>2, BehindIs
<1>4. ASSUME Behind(i, j) < IdxMod - 1 PROVE Behind(i, Next1(j)) = Behind(i, j) + 1
  BY <1>1, <1>2, <1>4, BehindIs, Next1Is
<1>5. ASSUME Behind(i, j) > 0 PROVE Behind(Next1(i), j) = Behind(i, j) - 1
  BY <1>1, <1>2, <1>5, BehindIs, Next1Is
<1>6. ASSUME NEW k \in Indices, Behind(i, k) <= Behind(i, j)
      PROVE  Behind(k, j) = Behind(i, j) - Behind(i, k)
  <2>1. k \in Nat /\ k < IdxMod
    BY <1>2 DEF Indices
  <2> QED
    BY <1>2, <1>6, <2>1, BehindIs
<1> QED
  BY <1>3, <1>4, <1>5, <1>6

\* Slots of the rings.
LEMMA Slots ==
    ASSUME NEW i \in Indices, NEW k \in Nat
    PROVE  /\ Slot(i, k) \in Heads
           /\ Slot(Next1(i), k) = Slot(i, k + 1)
           /\ \A j \in Indices : Slot(i, Behind(i, j) + k) = Slot(j, k)
           /\ \A l \in Nat : k < l /\ l - k < Num => Slot(i, k) # Slot(i, l)
<1>0. Num \in Nat \ {0} /\ i \in Nat /\ IdxMod \in Nat /\ IdxMod % Num = 0 /\ i < IdxMod
  BY Sizes DEF Indices
<1>1. Slot(i, k) \in Heads
  <2>1. i + k \in Nat
    BY <1>0
  <2> QED
    BY <1>0, <2>1, ModDef DEF Slot, Heads
<1>2. Slot(Next1(i), k) = Slot(i, k + 1)
  <2>1. CASE i + 1 < IdxMod
    <3>1. Next1(i) + k = i + (k + 1)
      BY <1>0, <2>1, Next1Is
    <3> QED
      BY <3>1 DEF Slot
  <2>2. CASE ~(i + 1 < IdxMod)
    <3>1. Next1(i) + k = k /\ i + (k + 1) = IdxMod + k
      BY <1>0, <2>2, Next1Is
    <3>2. (IdxMod + k) % Num = k % Num
      BY <1>0, ModShift
    <3> QED
      BY <3>1, <3>2 DEF Slot
  <2> QED
    BY <2>1, <2>2
<1>3. ASSUME NEW j \in Indices PROVE Slot(i, Behind(i, j) + k) = Slot(j, k)
  <2>0. j \in Nat /\ Behind(i, j) \in Nat
    BY <1>0, BehindIs DEF Indices
  <2>1. CASE j < i
    <3>1. i + (Behind(i, j) + k) = IdxMod + (j + k) /\ j + k \in Nat
      BY <1>0, <2>0, <2>1, BehindIs
    <3>2. (IdxMod + (j + k)) % Num = (j + k) % Num
      BY <1>0, <3>1, ModShift
    <3> QED
      BY <3>1, <3>2 DEF Slot
  <2>2. CASE ~(j < i)
    <3>1. i + (Behind(i, j) + k) = j + k
      BY <1>0, <2>0, <2>2, BehindIs
    <3> QED
      BY <3>1 DEF Slot
  <2> QED
    BY <2>1, <2>2
<1>4. ASSUME NEW l \in Nat, k < l, l - k < Num PROVE Slot(i, k) # Slot(i, l)
  <2>1. i + k \in Nat /\ i + l \in Nat /\ i + k < i + l /\ (i + l) - (i + k) < Num
    BY <1>0, <1>4
  <2> QED
    BY <1>0, <2>1, DistinctMod DEF Slot
<1> QED
  BY <1>1, <1>2, <1>3, <1>4

-----------------------------------------------------------------------------
(* The walk along a chain is a recursive function; induction over its      *)
(* segments is over the set of the numbers for which a claim holds.        *)

\* A set of numbers with 0 and with the successor of each member has all.
LEMMA Induction ==
    ASSUME NEW S, 0 \in S, \A n \in Nat : n \in S => n + 1 \in S
    PROVE  \A n \in Nat : n \in S
<1> SUFFICES ASSUME NEW m \in Nat, m \notin S PROVE FALSE
  OBVIOUS
<1> DEFINE R == OpToRel(<, Nat)
           T == {n \in Nat : n \notin S}
<1>1. IsWellFoundedOn(R, Nat)
  BY NatLessThanWellFounded
<1>2. \A x, y \in Nat : <<y, x>> \in R <=> y < x
  BY DEF OpToRel
<1>3. T \subseteq Nat /\ T # {}
  OBVIOUS
<1> HIDE DEF R
<1>4. PICK x \in T : \A y \in T : ~(<<y, x>> \in R)
  BY <1>1, <1>3, WFMin
<1>5. x \in Nat /\ x \notin S /\ x # 0
  OBVIOUS
<1>6. x - 1 \in Nat /\ x - 1 < x /\ (x - 1) + 1 = x
  BY <1>5
<1>7. x - 1 \notin T
  BY <1>2, <1>4, <1>5, <1>6
<1> QED
  BY <1>5, <1>6, <1>7

Segs == Seq([len : Nat \ {0}, ok : BOOLEAN])

\* The walk exists: after n segments it is what the n-th segment makes of the
\* walk before it.
LEMMA WalkSteps ==
    ASSUME NEW r, r.segs \in Segs
    PROVE  \E f : /\ f[0] = Begin(r)
                  /\ \A n \in 1 .. Len(r.segs) :
                        f[n] = Segment(r.type, f[n - 1], r.segs[n])
                  /\ Walk(r) = f[Len(r.segs)]
<1> DEFINE L == Len(r.segs)
           G(w, i) == Segment(r.type, w, r.segs[i])
           B == Begin(r)
           Is(f, n) == f = [i \in 0 .. n |-> IF i = 0 THEN B ELSE G(f[i - 1], i)]
           S == {n \in Nat : \E f : Is(f, n)}
<1>1. L \in Nat
  BY DEF Segs
<1>2. Walk(r) = (CHOOSE f : Is(f, L))[L]
  BY DEF Walk
<1> HIDE DEF L, G, B
<1>3. 0 \in S
  <2> DEFINE g == [i \in 0 .. 0 |-> B]
  <2>1. Is(g, 0)
    OBVIOUS
  <2> QED
    BY <2>1
<1>4. ASSUME NEW n \in Nat, n \in S PROVE n + 1 \in S
  <2>1. PICK f : Is(f, n)
    BY <1>4
  <2> DEFINE g == [i \in 0 .. (n + 1) |-> IF i = 0 THEN B ELSE G(f[i - 1], i)]
  <2>2. ASSUME NEW i \in 0 .. (n + 1), i # 0 PROVE g[i - 1] = f[i - 1]
    <3>1. i - 1 \in 0 .. n /\ i - 1 \in 0 .. (n + 1)
      BY <2>2
    <3>2. f[i - 1] = IF i - 1 = 0 THEN B ELSE G(f[(i - 1) - 1], i - 1)
      BY <2>1, <3>1, Zenon
    <3>3. g[i - 1] = IF i - 1 = 0 THEN B ELSE G(f[(i - 1) - 1], i - 1)
      BY <3>1, Zenon
    <3> QED
      BY <3>2, <3>3, Zenon
  <2>3. ASSUME NEW i \in 0 .. (n + 1)
        PROVE  (IF i = 0 THEN B ELSE G(g[i - 1], i)) = (IF i = 0 THEN B ELSE G(f[i - 1], i))
    <3> HIDE DEF g
    <3>1. CASE i = 0
      BY <3>1, Zenon
    <3>2. CASE i # 0
      BY <2>2, <3>2, Zenon
    <3> QED
      BY <3>1, <3>2, Zenon
  <2>4. Is(g, n + 1)
    BY <2>3, Zenon
  <2> HIDE DEF Is
  <2> QED
    BY <2>4
<1>5. L \in S
  BY <1>1, <1>3, <1>4, Induction
<1>6. PICK f : Is(f, L) /\ Walk(r) = f[L]
  <2> DEFINE f == CHOOSE g : Is(g, L)
  <2>1. \E g : Is(g, L)
    BY <1>5
  <2> HIDE DEF Is
  <2>2. Is(f, L)
    BY <2>1
  <2> QED
    BY <1>2, <2>2
<1>7. f[0] = B
  BY <1>1, <1>6
<1>8. ASSUME NEW n \in 1 .. L PROVE f[n] = G(f[n - 1], n)
  <2>1. n \in 0 .. L /\ n # 0
    BY <1>1
  <2> QED
    BY <1>6, <2>1, Zenon
<1> QED
  BY <1>6, <1>7, <1>8 DEF L, G, B

\* A walk is a record of seven fields.
IsWalk(w) ==
    w = [id |-> w.id, sector |-> w.sector, status |-> w.status, len |-> w.len,
         data |-> w.data, disk |-> w.disk, marked |-> w.marked]

Fits(w, seg) == w.sector + seg.len <= NSectors /\ seg.ok
Covers(w, seg) == {s \in Sectors : s >= w.sector /\ s < w.sector + seg.len}
Written(w, seg) == [s \in Sectors |-> IF s \in Covers(w, seg) THEN w.id ELSE w.disk[s]]
Reported(w, seg) == IF hook THEN w.marked \cup Covers(w, seg) ELSE w.marked

\* The contents of m sectors from b on.
ReadOf(d, b, m) == [i \in 1 .. m |-> d[b + i - 1]]

\* What one segment does: a flush and an unknown request set the status, ...
LEMMA SegmentOther ==
    ASSUME NEW w, IsWalk(w), NEW seg, NEW type \in {"FLUSH", "OTHER"}
    PROVE  LET v == Segment(type, w, seg)
           IN  /\ IsWalk(v) /\ v.id = w.id /\ v.sector = w.sector /\ v.len = w.len
               /\ v.data = w.data /\ v.disk = w.disk /\ v.marked = w.marked
               /\ v.status = IF type = "FLUSH" THEN "OK" ELSE "UNSUPP"
<1> DEFINE v == Segment(type, w, seg)
<1>1. v = [w EXCEPT !.status = IF type = "FLUSH" THEN "OK" ELSE "UNSUPP"]
  BY DEF Segment
<1> HIDE DEF v
<1>2. v = [id |-> w.id, sector |-> w.sector,
           status |-> IF type = "FLUSH" THEN "OK" ELSE "UNSUPP", len |-> w.len,
           data |-> w.data, disk |-> w.disk, marked |-> w.marked]
  BY <1>1 DEF IsWalk
<1>3. /\ v.id = w.id /\ v.sector = w.sector /\ v.len = w.len
      /\ v.data = w.data /\ v.disk = w.disk /\ v.marked = w.marked
      /\ v.status = IF type = "FLUSH" THEN "OK" ELSE "UNSUPP"
  BY <1>2
<1>4. IsWalk(v)
  BY <1>2, <1>3, Zenon DEF IsWalk
<1> QED
  BY <1>3, <1>4 DEF v

\* ... one that does not fit only moves on, and the request has failed, ...
LEMMA SegmentFails ==
    ASSUME NEW w, IsWalk(w), NEW seg, NEW type \in {"IN", "OUT"}, ~Fits(w, seg)
    PROVE  LET v == Segment(type, w, seg)
           IN  /\ IsWalk(v) /\ v.id = w.id /\ v.sector = w.sector + seg.len
               /\ v.len = w.len /\ v.status = "IOERR"
               /\ v.data = w.data /\ v.disk = w.disk /\ v.marked = w.marked
<1> DEFINE v == Segment(type, w, seg)
<1>1. v = [w EXCEPT !.sector = @ + seg.len, !.status = "IOERR"]
  BY DEF Segment, Fits
<1> HIDE DEF v
<1>2. v = [id |-> w.id, sector |-> w.sector + seg.len, status |-> "IOERR", len |-> w.len,
           data |-> w.data, disk |-> w.disk, marked |-> w.marked]
  BY <1>1 DEF IsWalk
<1>3. /\ v.id = w.id /\ v.sector = w.sector + seg.len /\ v.len = w.len
      /\ v.data = w.data /\ v.disk = w.disk /\ v.marked = w.marked
      /\ v.status = "IOERR"
  BY <1>2
<1>4. IsWalk(v)
  BY <1>2, <1>3, Zenon DEF IsWalk
<1> QED
  BY <1>3, <1>4 DEF v

\* ... one that fits is read into the buffer, ...
LEMMA SegmentReads ==
    ASSUME NEW w, IsWalk(w), NEW seg, Fits(w, seg)
    PROVE  LET v == Segment("IN", w, seg)
           IN  /\ IsWalk(v) /\ v.id = w.id /\ v.sector = w.sector + seg.len
               /\ v.len = w.len + seg.len /\ v.status = w.status
               /\ v.data = w.data \o ReadOf(w.disk, w.sector, seg.len)
               /\ v.disk = w.disk /\ v.marked = w.marked
<1> DEFINE v == Segment("IN", w, seg)
           more == ReadOf(w.disk, w.sector, seg.len)
           moved == [w EXCEPT !.sector = @ + seg.len, !.len = @ + seg.len]
<1>1. v = [moved EXCEPT !.data = @ \o more]
  BY DEF Segment, Fits, ReadOf
<1> HIDE DEF v, more
<1>2. v = [id |-> w.id, sector |-> w.sector + seg.len, status |-> w.status,
           len |-> w.len + seg.len, data |-> w.data \o more, disk |-> w.disk,
           marked |-> w.marked]
  BY <1>1 DEF IsWalk
<1>3. /\ v.id = w.id /\ v.sector = w.sector + seg.len /\ v.len = w.len + seg.len
      /\ v.data = w.data \o more /\ v.disk = w.disk /\ v.marked = w.marked
      /\ v.status = w.status
  BY <1>2
<1>4. IsWalk(v)
  BY <1>2, <1>3, Zenon DEF IsWalk
<1> QED
  BY <1>3, <1>4 DEF v, more

\* ... or written to the disk and reported.
LEMMA SegmentWrites ==
    ASSUME NEW w, IsWalk(w), NEW seg, Fits(w, seg)
    PROVE  LET v == Segment("OUT", w, seg)
           IN  /\ IsWalk(v) /\ v.id = w.id /\ v.sector = w.sector + seg.len
               /\ v.len = w.len + seg.len /\ v.status = w.status /\ v.data = w.data
               /\ v.disk = Written(w, seg) /\ v.marked = Reported(w, seg)
<1> DEFINE v == Segment("OUT", w, seg)
           range == Covers(w, seg)
           new == [s \in Sectors |-> IF s \in range THEN w.id ELSE w.disk[s]]
           more == IF hook THEN w.marked \cup range ELSE w.marked
           moved == [w EXCEPT !.sector = @ + seg.len, !.len = @ + seg.len]
<1>1. moved.disk = w.disk /\ moved.marked = w.marked
  BY DEF IsWalk
<1>2. v = [moved EXCEPT !.disk = [s \in Sectors |-> IF s \in range THEN w.id ELSE @[s]],
                        !.marked = IF hook THEN @ \cup range ELSE @]
  BY DEF Segment, Fits, Covers
<1>3. v = [moved EXCEPT !.disk = new, !.marked = more]
  BY <1>1, <1>2, Zenon
<1> HIDE DEF v, new, more
<1>4. v = [id |-> w.id, sector |-> w.sector + seg.len, status |-> w.status,
           len |-> w.len + seg.len, data |-> w.data, disk |-> new, marked |-> more]
  BY <1>3 DEF IsWalk
<1>5. /\ v.id = w.id /\ v.sector = w.sector + seg.len /\ v.len = w.len + seg.len
      /\ v.data = w.data /\ v.disk = new /\ v.marked = more
      /\ v.status = w.status
  BY <1>4
<1>6. IsWalk(v)
  BY <1>4, <1>5, Zenon DEF IsWalk
<1> QED
  BY <1>5, <1>6, Zenon DEF v, new, more, Written, Reported

\* The length of a request is the sum of those of its segments.
LEMMA LengthSteps ==
    ASSUME NEW r, r.segs \in Segs
    PROVE  \E g : /\ g[0] = 0
                  /\ \A n \in 1 .. Len(r.segs) : g[n] = g[n - 1] + r.segs[n].len
                  /\ Service!Length(r) = g[Len(r.segs)]
<1> DEFINE L == Len(r.segs)
           G(w, i) == w + r.segs[i].len
           Is(f, n) == f = [i \in 0 .. n |-> IF i = 0 THEN 0 ELSE G(f[i - 1], i)]
           S == {n \in Nat : \E f : Is(f, n)}
<1>1. L \in Nat
  BY DEF Segs
<1>2. Service!Length(r) = (CHOOSE f : Is(f, L))[L]
  BY DEF Service!Length
<1> HIDE DEF L, G
<1>3. 0 \in S
  <2> DEFINE g == [i \in 0 .. 0 |-> 0]
  <2>1. Is(g, 0)
    OBVIOUS
  <2> QED
    BY <2>1
<1>4. ASSUME NEW n \in Nat, n \in S PROVE n + 1 \in S
  <2>1. PICK f : Is(f, n)
    BY <1>4
  <2> DEFINE g == [i \in 0 .. (n + 1) |-> IF i = 0 THEN 0 ELSE G(f[i - 1], i)]
  <2>2. ASSUME NEW i \in 0 .. (n + 1), i # 0 PROVE g[i - 1] = f[i - 1]
    <3>1. i - 1 \in 0 .. n /\ i - 1 \in 0 .. (n + 1)
      BY <2>2
    <3>2. f[i - 1] = IF i - 1 = 0 THEN 0 ELSE G(f[(i - 1) - 1], i - 1)
      BY <2>1, <3>1, Zenon
    <3>3. g[i - 1] = IF i - 1 = 0 THEN 0 ELSE G(f[(i - 1) - 1], i - 1)
      BY <3>1, Zenon
    <3> QED
      BY <3>2, <3>3, Zenon
  <2>3. ASSUME NEW i \in 0 .. (n + 1)
        PROVE  (IF i = 0 THEN 0 ELSE G(g[i - 1], i)) = (IF i = 0 THEN 0 ELSE G(f[i - 1], i))
    <3> HIDE DEF g
    <3>1. CASE i = 0
      BY <3>1, Zenon
    <3>2. CASE i # 0
      BY <2>2, <3>2, Zenon
    <3> QED
      BY <3>1, <3>2, Zenon
  <2>4. Is(g, n + 1)
    BY <2>3, Zenon
  <2> HIDE DEF Is
  <2> QED
    BY <2>4
<1>5. L \in S
  BY <1>1, <1>3, <1>4, Induction
<1>6. PICK f : Is(f, L) /\ Service!Length(r) = f[L]
  <2> DEFINE f == CHOOSE g : Is(g, L)
  <2>1. \E g : Is(g, L)
    BY <1>5
  <2> HIDE DEF Is
  <2>2. Is(f, L)
    BY <2>1
  <2> QED
    BY <1>2, <2>2
<1>7. f[0] = 0
  BY <1>1, <1>6
<1>8. ASSUME NEW n \in 1 .. L PROVE f[n] = G(f[n - 1], n)
  <2>1. n \in 0 .. L /\ n # 0
    BY <1>1
  <2> QED
    BY <1>6, <2>1, Zenon
<1> QED
  BY <1>6, <1>7, <1>8 DEF L, G

\* What is true of the walk of request r after segments of length m together.
Walked(r, w, m) ==
    /\ IsWalk(w) /\ w.id = r.id /\ m \in Nat
    /\ w.status \in {"OK", "IOERR", "UNSUPP"} /\ w.len \in Nat
    /\ w.disk \in [Sectors -> Values] /\ w.marked \subseteq Sectors
    /\ r.type \in {"IN", "OUT"} => w.sector = r.sector + m
    /\ r.type # "OUT" => w.disk = disk
    /\ \A s \in Sectors : ~(r.sector <= s /\ s < r.sector + m) => w.disk[s] = disk[s]
    /\ r.type = "OUT" /\ w.status = "OK" =>
          \A s \in Sectors : r.sector <= s /\ s < r.sector + m => w.disk[s] = r.id
    /\ r.type = "IN" /\ w.status = "OK" =>
          w.data = ReadOf(disk, r.sector, m)
    /\ marked \subseteq w.marked
    /\ hook => \A s \in Sectors : w.disk[s] # disk[s] => s \in w.marked

\* A request as the driver publishes it.
IsRequest(r) ==
    /\ r.id \in Ids /\ r.type \in Types /\ r.sector \in Nat /\ r.hdr \in BOOLEAN
    /\ r.segs \in Segs

\* Two reads of adjacent ranges are one.
LEMMA ReadsJoin ==
    \A d : \A b, m, l \in Nat :
        ReadOf(d, b, m) \o ReadOf(d, b + m, l) = ReadOf(d, b, m + l)
<1> SUFFICES ASSUME NEW d, NEW b \in Nat, NEW m \in Nat, NEW l \in Nat
             PROVE  ReadOf(d, b, m) \o ReadOf(d, b + m, l) = ReadOf(d, b, m + l)
  BY Zenon
<1> DEFINE T == {d[b + i - 1] : i \in Nat}
           x == [i \in 1 .. m |-> d[b + i - 1]]
           y == [i \in 1 .. l |-> d[(b + m) + i - 1]]
           z == [i \in 1 .. (m + l) |-> d[b + i - 1]]
<1>0. \A i \in Nat : d[b + i - 1] \in T
  OBVIOUS
<1>1. x \in Seq(T) /\ Len(x) = m /\ \A i \in 1 .. m : x[i] = d[b + i - 1]
  <2>1. \A i \in 1 .. m : d[b + i - 1] \in T
    BY <1>0
  <2> HIDE DEF T
  <2> QED
    BY <2>1
<1>2. y \in Seq(T) /\ Len(y) = l /\ \A i \in 1 .. l : y[i] = d[(b + m) + i - 1]
  <2>1. \A i \in 1 .. l : m + i \in Nat /\ b + (m + i) - 1 = (b + m) + i - 1
    OBVIOUS
  <2>2. \A i \in 1 .. l : d[(b + m) + i - 1] \in T
    BY <2>1
  <2> HIDE DEF T
  <2> QED
    BY <2>2
<1>3. z \in Seq(T) /\ Len(z) = m + l /\ \A i \in 1 .. (m + l) : z[i] = d[b + i - 1]
  <2>1. \A i \in 1 .. (m + l) : d[b + i - 1] \in T
    BY <1>0
  <2> HIDE DEF T
  <2> QED
    BY <2>1
<1> HIDE DEF T, x, y, z
<1>4. /\ x \o y \in Seq(T) /\ Len(x \o y) = m + l
      /\ \A i \in 1 .. (m + l) : (x \o y)[i] = IF i <= m THEN x[i] ELSE y[i - m]
  BY <1>1, <1>2, ConcatProperties
<1>5. ASSUME NEW i \in 1 .. (m + l) PROVE (x \o y)[i] = z[i]
  <2>1. CASE i <= m
    <3>1. i \in 1 .. m
      BY <2>1
    <3> QED
      BY <1>1, <1>3, <1>4, <2>1, <3>1
  <2>2. CASE ~(i <= m)
    <3>1. i - m \in 1 .. l /\ (b + m) + (i - m) - 1 = b + i - 1
      BY <2>2
    <3>2. y[i - m] = d[b + i - 1]
      BY <1>2, <3>1
    <3> QED
      BY <1>3, <1>4, <2>2, <3>2
  <2> QED
    BY <2>1, <2>2
<1>6. x \o y = z
  BY <1>3, <1>4, <1>5, SeqEqual
<1> QED
  BY <1>6 DEF x, y, z, ReadOf

\* One more segment.
LEMMA SegmentWalked ==
    ASSUME NEW r, IsRequest(r), NEW w, NEW m, Walked(r, w, m),
           NEW seg \in [len : Nat \ {0}, ok : BOOLEAN],
           disk \in [Sectors -> Values]
    PROVE  Walked(r, Segment(r.type, w, seg), m + seg.len)
<1> DEFINE v == Segment(r.type, w, seg)
           l == seg.len
<1>0. IsWalk(w) /\ l \in Nat /\ l > 0 /\ m \in Nat /\ r.sector \in Nat /\ m + l \in Nat
  BY DEF Walked, IsRequest
<1>1. CASE r.type \in {"FLUSH", "OTHER"}
  <2>1. /\ IsWalk(v) /\ v.id = w.id /\ v.len = w.len
        /\ v.data = w.data /\ v.disk = w.disk /\ v.marked = w.marked
        /\ v.status = IF r.type = "FLUSH" THEN "OK" ELSE "UNSUPP"
    BY <1>0, <1>1, SegmentOther
  <2> HIDE DEF v
  <2>2. v.disk = disk
    BY <1>1, <2>1 DEF Walked
  <2>3. Walked(r, v, m + l)
    BY <1>0, <1>1, <2>1, <2>2 DEF Walked
  <2> QED
    BY <2>3 DEF v
<1>2. CASE r.type \in {"IN", "OUT"} /\ ~Fits(w, seg)
  <2>1. /\ IsWalk(v) /\ v.id = w.id /\ v.sector = w.sector + l /\ v.len = w.len
        /\ v.status = "IOERR"
        /\ v.data = w.data /\ v.disk = w.disk /\ v.marked = w.marked
    BY <1>0, <1>2, SegmentFails
  <2> HIDE DEF v, l
  <2>2. v.sector = r.sector + (m + l)
    BY <1>0, <1>2, <2>1 DEF Walked
  <2>3. ASSUME NEW s \in Sectors, ~(r.sector <= s /\ s < r.sector + (m + l))
        PROVE  v.disk[s] = disk[s]
    <3>1. ~(r.sector <= s /\ s < r.sector + m)
      BY <1>0, <2>3 DEF Sectors
    <3> QED
      BY <2>1, <3>1 DEF Walked
  <2>4. Walked(r, v, m + l)
    BY <1>0, <1>2, <2>1, <2>2, <2>3 DEF Walked
  <2> QED
    BY <2>4 DEF v, l
<1>3. CASE r.type = "IN" /\ Fits(w, seg)
  <2>0. v = Segment("IN", w, seg)
    BY <1>3
  <2>1. /\ IsWalk(v) /\ v.id = w.id /\ v.sector = w.sector + l /\ v.len = w.len + l
        /\ v.status = w.status
        /\ v.data = w.data \o ReadOf(w.disk, w.sector, l)
        /\ v.disk = w.disk /\ v.marked = w.marked
    <3> HIDE DEF v
    <3> QED
      BY <1>0, <1>3, <2>0, SegmentReads
  <2> HIDE DEF v, l
  <2>2. v.sector = r.sector + (m + l) /\ w.sector = r.sector + m /\ w.disk = disk
    BY <1>0, <1>3, <2>1 DEF Walked
  <2>3. ASSUME w.status = "OK"
        PROVE  v.data = ReadOf(disk, r.sector, m + l)
    <3>1. w.data = ReadOf(disk, r.sector, m)
      BY <1>3, <2>3 DEF Walked
    <3>2. v.data = ReadOf(disk, r.sector, m) \o ReadOf(disk, r.sector + m, l)
      BY <2>1, <2>2, <3>1, Zenon
    <3>3. r.sector \in Nat /\ m \in Nat /\ l \in Nat
      BY <1>0
    <3>4. ReadOf(disk, r.sector, m) \o ReadOf(disk, r.sector + m, l)
            = ReadOf(disk, r.sector, m + l)
      <4>1. \A b, k, j \in Nat :
               ReadOf(disk, b, k) \o ReadOf(disk, b + k, j) = ReadOf(disk, b, k + j)
        BY ReadsJoin, Zenon
      <4> DEFINE b == r.sector
      <4>2. b \in Nat
        BY <3>3
      <4> HIDE DEF b
      <4>3. ReadOf(disk, b, m) \o ReadOf(disk, b + m, l) = ReadOf(disk, b, m + l)
        BY <3>3, <4>1, <4>2, Zenon
      <4> QED
        BY <4>3 DEF b
    <3> QED
      BY <3>2, <3>4, Zenon
  <2>4. v.len \in Nat /\ v.disk = disk
    BY <1>0, <2>1, <2>2 DEF Walked
  <2>5. Walked(r, v, m + l)
    BY <1>0, <1>3, <2>1, <2>2, <2>3, <2>4 DEF Walked
  <2> QED
    BY <2>5 DEF v, l
<1>4. CASE r.type = "OUT" /\ Fits(w, seg)
  <2> DEFINE range == Covers(w, seg)
  <2>0. v = Segment("OUT", w, seg)
    BY <1>4
  <2>1. /\ IsWalk(v) /\ v.id = w.id /\ v.sector = w.sector + l /\ v.len = w.len + l
        /\ v.status = w.status
        /\ v.disk = [s \in Sectors |-> IF s \in range THEN w.id ELSE w.disk[s]]
        /\ v.marked = IF hook THEN w.marked \cup range ELSE w.marked
    <3>1. v.disk = Written(w, seg) /\ v.marked = Reported(w, seg)
          /\ IsWalk(v) /\ v.id = w.id /\ v.sector = w.sector + l /\ v.len = w.len + l
          /\ v.status = w.status
      <4> HIDE DEF v
      <4> QED
        BY <1>0, <1>4, <2>0, SegmentWrites
    <3> QED
      BY <3>1, Zenon DEF Written, Reported
  <2> HIDE DEF v
  <2>2. v.sector = r.sector + (m + l) /\ w.sector = r.sector + m /\ w.id = r.id
    BY <1>0, <1>4, <2>1 DEF Walked
  <2>3. \A s \in Sectors : s \in range <=> r.sector + m <= s /\ s < r.sector + (m + l)
    BY <1>0, <2>2 DEF Covers, Sectors
  <2> HIDE DEF l, range
  <2>4. ASSUME NEW s \in Sectors, ~(r.sector <= s /\ s < r.sector + (m + l))
        PROVE  v.disk[s] = disk[s]
    <3>1. ~(r.sector <= s /\ s < r.sector + m) /\ s \notin range
      BY <1>0, <2>3, <2>4 DEF Sectors
    <3> QED
      BY <2>1, <3>1 DEF Walked
  <2>5. ASSUME v.status = "OK", NEW s \in Sectors, r.sector <= s, s < r.sector + (m + l)
        PROVE  v.disk[s] = r.id
    <3>1. s \notin range => r.sector <= s /\ s < r.sector + m
      BY <1>0, <2>3, <2>5 DEF Sectors
    <3> QED
      BY <1>4, <2>1, <2>2, <2>5, <3>1 DEF Walked
  <2>6. v.disk \in [Sectors -> Values] /\ v.marked \subseteq Sectors
    BY <2>1, <2>2, Sizes DEF Walked, IsRequest, Ids, Values, range, Covers
  <2>7. ASSUME hook, NEW s \in Sectors, v.disk[s] # disk[s] PROVE s \in v.marked
    BY <2>1, <2>7 DEF Walked
  <2>8. marked \subseteq v.marked
    BY <2>1 DEF Walked
  <2>9. v.len \in Nat
    BY <1>0, <2>1 DEF Walked
  <2>10. Walked(r, v, m + l)
    BY <1>0, <1>4, <2>1, <2>2, <2>4, <2>5, <2>6, <2>7, <2>8, <2>9 DEF Walked
  <2> QED
    BY <2>10 DEF v, l
<1> QED
  BY <1>1, <1>2, <1>3, <1>4 DEF IsRequest, Types

\* The walk along a whole chain.
LEMMA WalkIsWalked ==
    ASSUME NEW r, IsRequest(r), disk \in [Sectors -> Values], marked \subseteq Sectors
    PROVE  Walked(r, Walk(r), Service!Length(r))
<1> DEFINE L == Len(r.segs)
<1>0. r.segs \in Segs /\ L \in Nat /\ \A n \in 1 .. L : r.segs[n] \in [len : Nat \ {0}, ok : BOOLEAN]
  <2>1. r.segs \in Segs
    BY DEF IsRequest
  <2> DEFINE T == [len : Nat \ {0}, ok : BOOLEAN]
             q == r.segs
  <2>2. q \in Seq(T) /\ L = Len(q)
    BY <2>1 DEF Segs
  <2> HIDE DEF T, q
  <2>3. Len(q) \in Nat /\ \A n \in 1 .. Len(q) : q[n] \in T
    BY <2>2, ElementOfSeq
  <2> QED
    BY <2>1, <2>2, <2>3 DEF T, q
<1>f. PICK f : /\ f[0] = Begin(r)
               /\ \A n \in 1 .. L : f[n] = Segment(r.type, f[n - 1], r.segs[n])
               /\ Walk(r) = f[L]
  BY <1>0, WalkSteps
<1>g. PICK g : /\ g[0] = 0
               /\ \A n \in 1 .. L : g[n] = g[n - 1] + r.segs[n].len
               /\ Service!Length(r) = g[L]
  BY <1>0, LengthSteps
<1> DEFINE S == {n \in Nat : n <= L => Walked(r, f[n], g[n])}
<1>1. 0 \in S
  <2> DEFINE w == Begin(r)
  <2>1. /\ IsWalk(w) /\ w.id = r.id /\ w.sector = r.sector /\ w.status = "OK"
        /\ w.len = 0 /\ w.data = <<>> /\ w.disk = disk /\ w.marked = marked
    BY DEF Begin, IsWalk
  <2> HIDE DEF w
  <2>2. ReadOf(disk, r.sector, 0) = <<>>
    BY DEF ReadOf
  <2>3. r.sector \in Nat /\ r.sector + 0 = r.sector
    BY DEF IsRequest
  <2>4. \A s \in Sectors : ~(r.sector <= s /\ s < r.sector + 0)
    BY <2>3 DEF Sectors
  <2>5. Walked(r, w, 0)
    BY <2>1, <2>2, <2>3, <2>4 DEF Walked
  <2>6. Walked(r, f[0], g[0])
    BY <1>f, <1>g, <2>5 DEF w
  <2> QED
    BY <2>6
<1>2. ASSUME NEW n \in Nat, n \in S PROVE n + 1 \in S
  <2> SUFFICES ASSUME n + 1 <= L PROVE Walked(r, f[n + 1], g[n + 1])
    OBVIOUS
  <2> DEFINE seg == r.segs[n + 1]
  <2>1. n + 1 \in 1 .. L /\ (n + 1) - 1 = n /\ n <= L
    BY <1>0
  <2>2. Walked(r, f[n], g[n])
    BY <1>2, <2>1
  <2>3. f[n + 1] = Segment(r.type, f[n], seg) /\ g[n + 1] = g[n] + seg.len
    BY <1>f, <1>g, <2>1
  <2>4. seg \in [len : Nat \ {0}, ok : BOOLEAN]
    BY <1>0, <2>1
  <2> HIDE DEF seg
  <2>5. Walked(r, Segment(r.type, f[n], seg), g[n] + seg.len)
    BY <2>2, <2>4, SegmentWalked
  <2> QED
    BY <2>3, <2>5
<1>3. L \in S
  <2> HIDE DEF S
  <2> QED
    BY <1>0, <1>1, <1>2, Induction
<1>4. Walked(r, f[L], g[L])
  BY <1>0, <1>3
<1> QED
  BY <1>f, <1>g, <1>4

\* Templates are requests once they have a number.
LEMMA RequestsAre ==
    ASSUME NEW r \in Requests
    PROVE  IsRequest(r)
<1>1. PICK n \in Ids : r \in {Request(t, n) : t \in Templates[n]}
  BY DEF Requests
<1>2. PICK t \in Templates[n] : r = Request(t, n)
  BY <1>1
<1>3. /\ t.type \in Types /\ t.sector \in Nat /\ t.hdr \in BOOLEAN
      /\ t.segs \in Seq([len : Nat \ {0}, ok : BOOLEAN])
  BY VirtioAssumption
<1> QED
  BY <1>2, <1>3 DEF Request, IsRequest, Segs

-----------------------------------------------------------------------------
(* The rings.                                                              *)

\* The requests that the driver has not taken back, and those of them that
\* the device has served.
Out == Behind(seen, availIdx)
Got == Behind(seen, lastAvail)

\* The k-th of them.
Given(k) == avail[Slot(seen, k)]

\* Each head given to the device is in the ring once, the used ring repeats
\* the available ring, and the device is between the two ends.
Ring ==
    /\ usedIdx = lastAvail
    /\ Cardinality(busy) = Out
    /\ Got <= Out
    /\ \A k \in 0 .. (Out - 1) : Given(k) \in busy
    /\ \A k, l \in 0 .. (Out - 1) : k # l => Given(k) # Given(l)
    /\ \A k \in 0 .. (Got - 1) : used[Slot(seen, k)].head = Given(k)
    /\ \A h \in busy : chain[h] \in Requests
    /\ at = "serve" => target = availIdx /\ Behind(seen, start) <= Got

Typed ==
    /\ TypeOK
    /\ start \in Indices
    /\ buffer = [h \in Heads |-> buffer[h]]

\* The table of descriptors bounds what is under way.
LEMMA RingBounds ==
    ASSUME Typed, Ring
    PROVE  /\ seen \in Indices /\ availIdx \in Indices /\ lastAvail \in Indices
           /\ start \in Indices
           /\ Out \in Nat /\ Got \in Nat /\ Out <= Num /\ Got <= Out
           /\ IsFiniteSet(busy)
           /\ \A h \in Heads : h \notin busy => Out < Num
<1>1. seen \in Indices /\ availIdx \in Indices /\ lastAvail \in Indices /\ start \in Indices
  BY DEF Typed, TypeOK, Indices
<1>2. Out \in Nat /\ Got \in Nat
  <2>1. Out \in Indices /\ Got \in Indices
    BY <1>1, BehindIs DEF Out, Got
  <2> QED
    BY <2>1, Sizes DEF Indices
<1>3. IsFiniteSet(Heads) /\ Cardinality(Heads) = Num
  <2>1. 0 \in Int /\ Num - 1 \in Int /\ ~(0 > Num - 1) /\ (Num - 1) - 0 + 1 = Num
    BY Sizes
  <2> QED
    BY <2>1, FS_Interval DEF Heads
<1>4. busy \subseteq Heads
  BY DEF Typed, TypeOK
<1>5. IsFiniteSet(busy) /\ Cardinality(busy) <= Num
  BY <1>3, <1>4, FS_Subset
<1>6. ASSUME NEW h \in Heads, h \notin busy PROVE Out < Num
  <2>1. IsFiniteSet(busy \cup {h}) /\ Cardinality(busy \cup {h}) = Cardinality(busy) + 1
    BY <1>5, <1>6, FS_AddElement
  <2>2. busy \cup {h} \subseteq Heads
    BY <1>4
  <2>3. Cardinality(busy \cup {h}) <= Num
    BY <1>3, <2>2, FS_Subset
  <2>4. Cardinality(busy) = Out
    BY DEF Ring
  <2> QED
    BY <1>2, <2>1, <2>3, <2>4, Sizes
<1>7. Cardinality(busy) = Out /\ Got <= Out
  BY DEF Ring
<1> QED
  BY <1>1, <1>2, <1>5, <1>6, <1>7

\* A step that leaves the rings alone.
LEMMA SameRing ==
    ASSUME Ring, UNCHANGED <<chain, avail, availIdx, used, usedIdx, busy, seen, lastAvail>>,
           at' = "serve" => at = "serve" /\ UNCHANGED <<start, target>>
    PROVE  Ring'
  BY DEF Ring, Out, Got, Given, Slot, Behind

\* A published request comes behind those that are under way.
LEMMA PublishMoves ==
    ASSUME Typed, Ring, NEW h \in Heads, Publish(h)
    PROVE  /\ Out' = Out + 1 /\ Got' = Got
           /\ avail'[Slot(seen', Out)] = h
           /\ \A k \in 0 .. (Out - 1) : avail'[Slot(seen', k)] = Given(k)
<1> DEFINE new(k) == avail'[Slot(seen', k)]
<1>0. /\ seen \in Indices /\ availIdx \in Indices /\ lastAvail \in Indices
      /\ Out \in Nat /\ Got \in Nat /\ Out < Num /\ Got <= Out /\ IsFiniteSet(busy)
      /\ h \notin busy /\ Num \in Nat /\ IdxMod \in Nat /\ IdxMod > Num
  BY RingBounds, Sizes DEF Publish
<1>1. /\ busy' = busy \cup {h} /\ availIdx' = Next1(availIdx) /\ seen' = seen
      /\ lastAvail' = lastAvail /\ usedIdx' = usedIdx /\ used' = used /\ at' = at /\ at = "idle"
      /\ avail' = [avail EXCEPT ![availIdx % Num] = h]
  BY DEF Publish, device
<1>2. Out' = Out + 1
  <2>1. Behind(seen, availIdx) < IdxMod - 1
    BY <1>0 DEF Out
  <2> QED
    BY <1>0, <1>1, <2>1, Distances DEF Out
<1>3. Got' = Got
  BY <1>1 DEF Got
<1>4. availIdx % Num = Slot(seen, Out)
  <2>1. Slot(seen, Out + 0) = Slot(availIdx, 0)
    BY <1>0, Slots DEF Out
  <2>2. Out + 0 = Out /\ availIdx + 0 = availIdx
    BY <1>0 DEF Indices
  <2> QED
    BY <2>1, <2>2 DEF Slot
<1>5. avail \in [Heads -> Heads] /\ Slot(seen, Out) \in Heads
  BY <1>0, Slots DEF Typed, TypeOK
<1>6. new(Out) = h
  BY <1>1, <1>4, <1>5
<1>7. ASSUME NEW k \in 0 .. (Out - 1) PROVE new(k) = Given(k)
  <2>1. k \in Nat /\ k < Out /\ Out - k < Num
    BY <1>0, <1>7
  <2>2. Slot(seen, k) \in Heads /\ Slot(seen, k) # Slot(seen, Out)
    BY <1>0, <2>1, Slots
  <2> QED
    BY <1>1, <1>4, <1>5, <2>2 DEF Given
<1> QED
  BY <1>2, <1>3, <1>6, <1>7

LEMMA PublishRing ==
    ASSUME Typed, Ring, NEW h \in Heads, Publish(h)
    PROVE  Ring'
<1> DEFINE new(k) == avail'[Slot(seen', k)]
<1>0. /\ Out \in Nat /\ Got \in Nat /\ Out < Num /\ Got <= Out /\ IsFiniteSet(busy)
      /\ h \notin busy
  BY RingBounds DEF Publish
<1>1. /\ busy' = busy \cup {h} /\ seen' = seen
      /\ lastAvail' = lastAvail /\ usedIdx' = usedIdx /\ used' = used /\ at' = at /\ at = "idle"
  BY DEF Publish, device
<1>2. Out' = Out + 1
  BY PublishMoves
<1>3. Got' = Got
  BY PublishMoves
<1>4. new(Out) = h
  BY PublishMoves
<1>5. \A k \in 0 .. (Out - 1) : new(k) = Given(k)
  BY PublishMoves
<1> HIDE DEF new
<1>6. \A k \in 0 .. (Out' - 1) : k \in 0 .. (Out - 1) \/ k = Out
  BY <1>0, <1>2
<1>7. Cardinality(busy') = Out'
  <2>1. Cardinality(busy) = Out
    BY DEF Ring
  <2> QED
    BY <1>0, <1>1, <1>2, <2>1, FS_AddElement
<1>8. \A k \in 0 .. (Out - 1) : Given(k) \in busy
  BY DEF Ring
<1>9. \A k \in 0 .. (Out' - 1) : new(k) \in busy'
  BY <1>1, <1>4, <1>5, <1>6, <1>8
<1>10. \A k, l \in 0 .. (Out' - 1) : k # l => new(k) # new(l)
  <2>1. \A k, l \in 0 .. (Out - 1) : k # l => Given(k) # Given(l)
    BY DEF Ring
  <2> QED
    BY <1>0, <1>4, <1>5, <1>6, <1>8, <2>1
<1>11. \A k \in 0 .. (Got' - 1) : used'[Slot(seen', k)].head = new(k)
  <2>1. \A k \in 0 .. (Got - 1) : k \in 0 .. (Out - 1) /\ used[Slot(seen, k)].head = Given(k)
    BY <1>0 DEF Ring
  <2> QED
    BY <1>1, <1>3, <1>5, <2>1
<1>12. \A g \in busy' : chain'[g] \in Requests
  <2>1. PICK t \in Templates[nreq + 1] : chain' = [chain EXCEPT ![h] = Request(t, nreq + 1)]
    BY DEF Publish
  <2>2. nreq + 1 \in Ids
    BY Sizes DEF Typed, TypeOK, Publish, Ids
  <2>3. Request(t, nreq + 1) \in Requests
    BY <2>2 DEF Requests
  <2>4. chain \in [Heads -> Requests \cup {None}] /\ \A g \in busy : chain[g] \in Requests /\ g \in Heads
    BY DEF Typed, TypeOK, Ring
  <2> QED
    BY <1>1, <2>1, <2>3, <2>4
<1>13. usedIdx' = lastAvail' /\ Got' <= Out' /\ at' # "serve"
  BY <1>0, <1>1, <1>2, <1>3 DEF Ring
<1> QED
  BY <1>7, <1>9, <1>10, <1>11, <1>12, <1>13 DEF Ring, Given, new

\* The request that is served next.
LEMMA ServeNext ==
    ASSUME Typed, Ring, at = "serve", lastAvail # target
    PROVE  /\ Got < Out
           /\ Behind(seen, Next1(lastAvail)) = Got + 1
           /\ lastAvail % Num = Slot(seen, Got) /\ UsedSlot = Slot(seen, Got)
           /\ Slot(seen, Got) \in Heads /\ Given(Got) \in busy
           /\ chain[Given(Got)] \in Requests
<1>0. /\ seen \in Indices /\ availIdx \in Indices /\ lastAvail \in Indices
      /\ Out \in Nat /\ Got \in Nat /\ Out <= Num /\ Got <= Out
      /\ Num \in Nat /\ IdxMod \in Nat /\ IdxMod > Num
  BY RingBounds, Sizes
<1>1. lastAvail # availIdx /\ usedIdx = lastAvail
  BY DEF Ring
<1>2. Got < Out
  <2>1. Behind(lastAvail, availIdx) = Out - Got
    BY <1>0, Distances DEF Out, Got
  <2>2. Behind(lastAvail, availIdx) # 0
    BY <1>0, <1>1, Distances
  <2> QED
    BY <1>0, <2>1, <2>2
<1>3. Behind(seen, Next1(lastAvail)) = Got + 1
  <2>1. Behind(seen, lastAvail) < IdxMod - 1
    BY <1>0, <1>2 DEF Got
  <2> QED
    BY <1>0, <2>1, Distances DEF Got
<1>4. lastAvail % Num = Slot(seen, Got)
  <2>1. Slot(seen, Got + 0) = Slot(lastAvail, 0)
    BY <1>0, Slots DEF Got
  <2>2. Got + 0 = Got /\ lastAvail + 0 = lastAvail
    BY <1>0 DEF Indices
  <2> QED
    BY <2>1, <2>2 DEF Slot
<1>5. Slot(seen, Got) \in Heads
  BY <1>0, Slots
<1>6. Given(Got) \in busy /\ chain[Given(Got)] \in Requests
  BY <1>0, <1>2 DEF Ring
<1> QED
  BY <1>1, <1>2, <1>3, <1>4, <1>5, <1>6 DEF UsedSlot

LEMMA ServeRing ==
    ASSUME Typed, Ring, Serve
    PROVE  Ring'
<1>0. /\ seen \in Indices /\ availIdx \in Indices /\ lastAvail \in Indices
      /\ Out \in Nat /\ Got \in Nat /\ Out <= Num /\ Got <= Out
      /\ Num \in Nat /\ IdxMod \in Nat /\ IdxMod > Num
  BY RingBounds, Sizes
<1>1. /\ Got < Out /\ Behind(seen, Next1(lastAvail)) = Got + 1
      /\ lastAvail % Num = Slot(seen, Got) /\ UsedSlot = Slot(seen, Got)
      /\ Slot(seen, Got) \in Heads
  BY ServeNext DEF Serve
<1>2. /\ lastAvail' = Next1(lastAvail) /\ usedIdx' = Next1(usedIdx)
      /\ UNCHANGED <<chain, avail, availIdx, busy, seen, at, start, target>>
  BY DEF Serve, driver
<1>3. \E n : used' = [used EXCEPT ![UsedSlot] = [head |-> avail[lastAvail % Num], len |-> n]]
  BY DEF Serve
<1>4. Got' = Got + 1 /\ Out' = Out
  BY <1>1, <1>2 DEF Got, Out
<1>5. \A k \in 0 .. (Got - 1) : used[Slot(seen, k)].head = Given(k)
  BY DEF Ring
<1>6. ASSUME NEW k \in 0 .. (Got' - 1)
      PROVE  used'[Slot(seen', k)].head = avail'[Slot(seen', k)]
  <2>0. used \in [Heads -> [head : Heads, len : Nat]]
    BY DEF Typed, TypeOK
  <2>1. CASE k = Got
    BY <1>1, <1>2, <1>3, <2>0, <2>1
  <2>2. CASE k # Got
    <3>1. k \in 0 .. (Got - 1) /\ k \in Nat /\ k < Got /\ Got - k < Num
      BY <1>0, <1>1, <1>4, <2>2
    <3>2. Slot(seen, k) \in Heads /\ Slot(seen, k) # Slot(seen, Got)
      BY <1>0, <3>1, Slots
    <3>3. used'[Slot(seen, k)] = used[Slot(seen, k)]
      BY <1>1, <1>3, <2>0, <3>2
    <3> QED
      BY <1>2, <1>5, <3>1, <3>3 DEF Given
  <2> QED
    BY <2>1, <2>2
<1>7. Got' <= Out' /\ usedIdx' = lastAvail'
  BY <1>0, <1>1, <1>2, <1>4 DEF Ring
<1>8. target' = availIdx' /\ Behind(seen', start') <= Got'
  <2>1. target = availIdx /\ Behind(seen, start) <= Got /\ start \in Indices
    BY DEF Ring, Serve, Typed
  <2>2. Behind(seen, start) \in Nat
    BY <1>0, <2>1, BehindIs DEF Indices
  <2> QED
    BY <1>0, <1>2, <1>4, <2>1, <2>2
<1>9. /\ Cardinality(busy') = Out'
      /\ \A k \in 0 .. (Out' - 1) : avail'[Slot(seen', k)] \in busy'
      /\ \A k, l \in 0 .. (Out' - 1) : k # l => avail'[Slot(seen', k)] # avail'[Slot(seen', l)]
      /\ \A h \in busy' : chain'[h] \in Requests
  BY <1>2, <1>4 DEF Ring, Given
<1> QED
  BY <1>6, <1>7, <1>8, <1>9 DEF Ring, Given

\* The answer that is taken next.
LEMMA TakeNext ==
    ASSUME Typed, Ring, seen # usedIdx
    PROVE  /\ Got > 0
           /\ Behind(Next1(seen), availIdx) = Out - 1
           /\ Behind(Next1(seen), lastAvail) = Got - 1
           /\ used[seen % Num].head = Given(0) /\ Given(0) \in busy
           /\ \A k \in Nat : Slot(Next1(seen), k) = Slot(seen, k + 1)
           /\ \A k \in 1 .. (Out - 1) : Given(k) # Given(0)
<1>0. /\ seen \in Indices /\ availIdx \in Indices /\ lastAvail \in Indices
      /\ Out \in Nat /\ Got \in Nat /\ Out <= Num /\ Got <= Out
      /\ usedIdx = lastAvail
  BY RingBounds DEF Ring
<1>1. Got > 0 /\ Out > 0
  <2>1. Got # 0
    BY <1>0, Distances DEF Got
  <2> QED
    BY <1>0, <2>1
<1>2. Behind(Next1(seen), availIdx) = Out - 1 /\ Behind(Next1(seen), lastAvail) = Got - 1
  BY <1>0, <1>1, Distances DEF Out, Got
<1>3. seen % Num = Slot(seen, 0)
  <2>1. seen + 0 = seen
    BY <1>0 DEF Indices
  <2> QED
    BY <2>1 DEF Slot
<1>4. used[Slot(seen, 0)].head = Given(0) /\ Given(0) \in busy
  <2>1. 0 \in 0 .. (Got - 1) /\ 0 \in 0 .. (Out - 1)
    BY <1>0, <1>1
  <2> QED
    BY <2>1 DEF Ring
<1>5. ASSUME NEW k \in 1 .. (Out - 1) PROVE Given(k) # Given(0)
  <2>1. k \in 0 .. (Out - 1) /\ 0 \in 0 .. (Out - 1) /\ k # 0
    BY <1>0
  <2> QED
    BY <2>1 DEF Ring
<1>6. \A k \in Nat : Slot(Next1(seen), k) = Slot(seen, k + 1)
  BY <1>0, Slots
<1> QED
  BY <1>1, <1>2, <1>3, <1>4, <1>5, <1>6

LEMMA TakeRing ==
    ASSUME Typed, Ring, Take
    PROVE  Ring'
<1>a. CASE seen = usedIdx
  BY <1>a, SameRing DEF Take, memory, device
<1>b. CASE seen # usedIdx
  <2> DEFINE new(k) == avail'[Slot(seen', k)]
  <2>0. /\ Out \in Nat /\ Got \in Nat /\ Out <= Num /\ Got <= Out /\ IsFiniteSet(busy)
    BY RingBounds
  <2>1. /\ Got > 0
        /\ Behind(Next1(seen), availIdx) = Out - 1
        /\ Behind(Next1(seen), lastAvail) = Got - 1
        /\ used[seen % Num].head = Given(0) /\ Given(0) \in busy
        /\ \A k \in Nat : Slot(Next1(seen), k) = Slot(seen, k + 1)
        /\ \A k \in 1 .. (Out - 1) : Given(k) # Given(0)
    BY <1>b, TakeNext
  <2>2. /\ seen' = Next1(seen) /\ busy' = busy \ {Given(0)}
        /\ UNCHANGED <<chain, avail, availIdx, used, usedIdx, lastAvail, at, start, target>>
        /\ at = "idle"
    BY <1>b, <2>1 DEF Take, memory, device
  <2>3. Out' = Out - 1 /\ Got' = Got - 1
    BY <2>1, <2>2 DEF Out, Got
  <2>4. ASSUME NEW k \in 0 .. (Out' - 1)
        PROVE  new(k) = Given(k + 1) /\ k + 1 \in 1 .. (Out - 1) /\ Slot(seen', k) = Slot(seen, k + 1)
    BY <2>0, <2>1, <2>2, <2>3 DEF Given
  <2>5. Cardinality(busy') = Out'
    <3>1. Cardinality(busy) = Out
      BY DEF Ring
    <3> QED
      BY <2>0, <2>1, <2>2, <2>3, <3>1, FS_RemoveElement
  <2>6. /\ \A k \in 0 .. (Out - 1) : Given(k) \in busy
        /\ \A k, l \in 0 .. (Out - 1) : k # l => Given(k) # Given(l)
        /\ \A k \in 0 .. (Got - 1) : used[Slot(seen, k)].head = Given(k)
        /\ \A h \in busy : chain[h] \in Requests
        /\ usedIdx = lastAvail
    BY DEF Ring
  <2> HIDE DEF new
  <2>7. ASSUME NEW k \in 0 .. (Out' - 1) PROVE new(k) \in busy'
    <3>1. k + 1 \in 0 .. (Out - 1)
      BY <2>0, <2>4
    <3> QED
      BY <2>1, <2>2, <2>4, <2>6, <3>1
  <2>8. ASSUME NEW k \in 0 .. (Out' - 1), NEW l \in 0 .. (Out' - 1), k # l
        PROVE  new(k) # new(l)
    <3>1. k + 1 \in 0 .. (Out - 1) /\ l + 1 \in 0 .. (Out - 1) /\ k + 1 # l + 1
      BY <2>0, <2>4, <2>8
    <3> QED
      BY <2>4, <2>6, <3>1
  <2>9. ASSUME NEW k \in 0 .. (Got' - 1) PROVE used'[Slot(seen', k)].head = new(k)
    <3>1. k \in 0 .. (Out' - 1) /\ k + 1 \in 0 .. (Got - 1)
      BY <2>0, <2>3
    <3> QED
      BY <2>2, <2>4, <2>6, <3>1
  <2>10. /\ \A h \in busy' : chain'[h] \in Requests
         /\ usedIdx' = lastAvail' /\ Got' <= Out' /\ at' # "serve"
    BY <2>0, <2>2, <2>3, <2>6
  <2> QED
    BY <2>5, <2>7, <2>8, <2>9, <2>10 DEF Ring, Given, new
<1> QED
  BY <1>a, <1>b

LEMMA InitRing == Init => Ring
<1>1. Behind(0, 0) = 0
  BY BehindIs, Sizes DEF Indices
<1> QED
  BY <1>1, FS_EmptySet DEF Init, Ring, Out, Got

LEMMA NextRing ==
    ASSUME Typed, Ring, [Next]_vars
    PROVE  Ring'
<1>1. ASSUME NEW h \in Heads, Publish(h) PROVE Ring'
  BY <1>1, PublishRing
<1>2. CASE Serve
  BY <1>2, ServeRing
<1>3. CASE Take
  BY <1>3, TakeRing
<1>4. CASE Notify
  <2>1. UNCHANGED <<chain, avail, availIdx, used, usedIdx, busy, seen, lastAvail>>
        /\ start' = lastAvail /\ target' = availIdx
    BY <1>4 DEF Notify, memory, driver
  <2>2. Got \in Nat
    BY RingBounds
  <2> QED
    BY <2>1, <2>2 DEF Ring, Out, Got, Given, Slot
<1>5. CASE Reset
  <2>1. Behind(0, 0) = 0
    BY BehindIs, Sizes DEF Indices
  <2> QED
    BY <1>5, <2>1, FS_EmptySet DEF Reset, ClearRings, Ring, Out, Got
<1>6. CASE Setup \/ Claim \/ ReadIsr \/ Ack \/ EndNotify
  BY <1>6, SameRing DEF Setup, Claim, ReadIsr, Ack, EndNotify, memory, driver, device
<1>7. CASE UNCHANGED vars
  BY <1>7, SameRing DEF vars, memory, driver, device
<1> QED
  BY <1>1, <1>2, <1>3, <1>4, <1>5, <1>6, <1>7 DEF Next

-----------------------------------------------------------------------------
(* Types, reported writes and announced completions.                       *)

\* What process_queue does with one request.
LEMMA ServeEffect ==
    ASSUME Typed, Ring, Serve
    PROVE  LET h == Given(Got)
               r == chain[h]
               w == Walk(r)
           IN  /\ h \in Heads /\ r \in Requests /\ IsRequest(r)
               /\ Walked(r, w, Service!Length(r))
               /\ r.hdr => /\ disk' = w.disk /\ marked' = w.marked
                           /\ buffer' = [buffer EXCEPT ![h] = w.data]
                           /\ status' = [status EXCEPT ![h] = w.status]
               /\ ~r.hdr => UNCHANGED <<disk, marked, buffer, status>>
               /\ used' = [used EXCEPT ![Slot(seen, Got)] =
                              [head |-> h, len |-> IF r.hdr THEN w.len ELSE 0]]
<1> DEFINE h == Given(Got)
           r == chain[h]
<1>1. /\ lastAvail % Num = Slot(seen, Got) /\ UsedSlot = Slot(seen, Got)
      /\ h \in busy /\ r \in Requests
  BY ServeNext DEF Serve
<1>2. avail[lastAvail % Num] = h
  BY <1>1 DEF Given
<1>3. IsRequest(r)
  BY <1>1, RequestsAre
<1>4. disk \in [Sectors -> Values] /\ marked \subseteq Sectors /\ h \in Heads
  BY <1>1 DEF Typed, TypeOK
<1>5. Walked(r, Walk(r), Service!Length(r))
  <2> HIDE DEF h, r
  <2> QED
    BY <1>3, <1>4, WalkIsWalked
<1>6. /\ r.hdr => /\ disk' = Walk(r).disk /\ marked' = Walk(r).marked
                  /\ buffer' = [buffer EXCEPT ![h] = Walk(r).data]
                  /\ status' = [status EXCEPT ![h] = Walk(r).status]
      /\ ~r.hdr => UNCHANGED <<disk, marked, buffer, status>>
      /\ used' = [used EXCEPT ![UsedSlot] = [head |-> h, len |-> IF r.hdr THEN Walk(r).len ELSE 0]]
  <2> HIDE DEF h
  <2> QED
    BY <1>2, Zenon DEF Serve
<1> QED
  BY <1>1, <1>3, <1>4, <1>5, <1>6, Zenon

LEMMA InitTyped == Init => Typed
<1> SUFFICES ASSUME Init PROVE Typed
  OBVIOUS
<1>1. 0 \in Indices /\ 0 \in Heads /\ 0 \in 0 .. MaxRequests /\ 0 \in Values
  BY Sizes DEF Indices, Heads, Values
<1>2. TypeOK
  BY <1>1 DEF Init, TypeOK, Indices, Statuses
<1> QED
  BY <1>1, <1>2 DEF Init, Typed

\* Steps that touch only the handler, the registers and the line.
LEMMA SameTyped ==
    ASSUME Typed, UNCHANGED <<memory, nreq, disk, marked, lastAvail, start>>,
           busy' \subseteq busy, seen' \in Indices,
           irq' \in {"none", "read", "ack", "take"}, isr' \in BOOLEAN,
           ready' \in BOOLEAN, intStatus' \in BOOLEAN, pending' \in BOOLEAN,
           at' \in {"idle", "serve"}
    PROVE  Typed'
  BY DEF Typed, TypeOK, memory, Indices

LEMMA NextTyped ==
    ASSUME Typed, Ring, [Next]_vars
    PROVE  Typed'
<1>0. /\ seen \in Indices /\ lastAvail \in Indices /\ availIdx \in Indices /\ usedIdx \in Indices
      /\ irq \in {"none", "read", "ack", "take"} /\ isr \in BOOLEAN
      /\ ready \in BOOLEAN /\ intStatus \in BOOLEAN /\ pending \in BOOLEAN
      /\ at \in {"idle", "serve"}
  BY DEF Typed, TypeOK, Indices
<1>1. CASE Setup
  BY <1>0, <1>1, SameTyped DEF Setup, Raise, memory, driver
<1>2. ASSUME NEW h \in Heads, Publish(h) PROVE Typed'
  <2>1. availIdx' \in Indices
    BY <1>0, <1>2, Next1Is DEF Publish
  <2>2. nreq' \in 0 .. MaxRequests /\ nreq + 1 \in Ids
    BY <1>2, Sizes DEF Publish, Typed, TypeOK, Ids
  <2>3. PICK t \in Templates[nreq + 1] : chain' = [chain EXCEPT ![h] = Request(t, nreq + 1)]
    BY <1>2 DEF Publish
  <2>4. Request(t, nreq + 1) \in Requests
    BY <2>2 DEF Requests
  <2>5. chain' \in [Heads -> Requests \cup {None}]
    BY <2>3, <2>4 DEF Typed, TypeOK
  <2>6. avail' \in [Heads -> Heads] /\ status' \in [Heads -> Statuses] /\ busy' \subseteq Heads
    BY <1>2 DEF Publish, Typed, TypeOK, Statuses
  <2>7. buffer' = [g \in Heads |-> buffer'[g]]
    BY <1>2 DEF Publish, Typed
  <2>8. UNCHANGED <<used, usedIdx, seen, irq, isr, ready, lastAvail, intStatus, at, start, disk, marked, pending>>
    BY <1>2 DEF Publish, device
  <2>9. TypeOK'
    BY <2>1, <2>2, <2>5, <2>6, <2>8 DEF Typed, TypeOK, Indices
  <2> QED
    BY <2>7, <2>8, <2>9 DEF Typed
<1>3. CASE Notify
  <2>1. UNCHANGED <<memory, driver, ready, lastAvail, intStatus, disk, hook, marked, resets, pending>>
        /\ at' = "serve" /\ start' = lastAvail
    BY <1>3 DEF Notify
  <2>2. TypeOK'
    BY <2>1 DEF Typed, TypeOK, memory, driver
  <2> QED
    BY <1>0, <2>1, <2>2 DEF Typed, memory
<1>4. CASE Claim \/ ReadIsr
  BY <1>0, <1>4, SameTyped DEF Claim, ReadIsr, memory, device
<1>5. CASE Ack
  BY <1>0, <1>5, SameTyped DEF Ack, Raise, memory
<1>6. CASE Take
  BY <1>0, <1>6, Next1Is, SameTyped DEF Take, memory, device
<1>7. CASE Serve
  <2> DEFINE h == Given(Got)
             r == chain[h]
             w == Walk(r)
  <2>1. /\ h \in Heads /\ Walked(r, w, Service!Length(r)) /\ r.hdr \in BOOLEAN
        /\ r.hdr => /\ disk' = w.disk /\ marked' = w.marked
                    /\ buffer' = [buffer EXCEPT ![h] = w.data]
                    /\ status' = [status EXCEPT ![h] = w.status]
        /\ ~r.hdr => UNCHANGED <<disk, marked, buffer, status>>
        /\ used' = [used EXCEPT ![Slot(seen, Got)] =
                       [head |-> h, len |-> IF r.hdr THEN w.len ELSE 0]]
    BY <1>7, ServeEffect, Zenon DEF IsRequest
  <2>2. Slot(seen, Got) \in Heads
    BY <1>7, ServeNext DEF Serve
  <2>3. /\ w.disk \in [Sectors -> Values] /\ w.marked \subseteq Sectors /\ w.len \in Nat
        /\ w.status \in Statuses
    BY <2>1 DEF Walked, Statuses
  <2> HIDE DEF w, r, h
  <2>4. used' \in [Heads -> [head : Heads, len : Nat]]
    BY <2>1, <2>2, <2>3 DEF Typed, TypeOK
  <2>5. disk' \in [Sectors -> Values] /\ marked' \subseteq Sectors
    BY <2>1, <2>3 DEF Typed, TypeOK
  <2>6. status' \in [Heads -> Statuses]
    BY <2>1, <2>3 DEF Typed, TypeOK
  <2>7. buffer' = [g \in Heads |-> buffer'[g]]
    BY <2>1 DEF Typed
  <2>8. usedIdx' \in Indices /\ lastAvail' \in Indices
    BY <1>0, <1>7, Next1Is DEF Serve
  <2>9. UNCHANGED <<chain, avail, availIdx, driver, ready, intStatus, at, start, pending>>
    BY <1>7 DEF Serve
  <2>10. TypeOK'
    BY <2>4, <2>5, <2>6, <2>8, <2>9 DEF Typed, TypeOK, driver, Indices
  <2> QED
    BY <2>7, <2>9, <2>10 DEF Typed
<1>8. CASE EndNotify
  BY <1>0, <1>8, SameTyped DEF EndNotify, Raise, memory, driver
<1>9. CASE Reset
  <2>1. 0 \in Indices /\ 0 \in Heads
    BY Sizes DEF Indices, Heads
  <2>2. TypeOK'
    BY <1>9, <2>1 DEF Reset, ClearRings, Raise, Typed, TypeOK, Indices, Statuses
  <2> QED
    BY <1>9, <2>2 DEF Reset, ClearRings, Typed
<1>10. CASE UNCHANGED vars
  BY <1>0, <1>10, SameTyped DEF vars, memory, driver, device
<1> QED
  BY <1>1, <1>2, <1>3, <1>4, <1>5, <1>6, <1>7, <1>8, <1>9, <1>10 DEF Next

\* Types and rings hold together: every index stays below its modulus, every
\* head and sector in its table, for every size of the rings and of the disk.
THEOREM BlkTypeCorrect == Spec => []TypeOK
<1>1. Init => Typed /\ Ring
  BY InitTyped, InitRing
<1>2. Typed /\ Ring /\ [Next]_vars => Typed' /\ Ring'
  BY NextTyped, NextRing
<1>3. Typed => TypeOK
  BY DEF Typed
<1> QED
  BY <1>1, <1>2, <1>3, PTL DEF Spec

\* Whatever a chain of segments writes, in part or in full, is reported to
\* mark_dirty, until the driver resets the device and with it the pointer.
LEMMA NextReported ==
    ASSUME Typed, Ring, WritesAreReported, [Next]_vars
    PROVE  WritesAreReported'
<1>1. CASE Serve
  <2> DEFINE r == chain[Given(Got)]
             w == Walk(r)
  <2>1. /\ Walked(r, w, Service!Length(r)) /\ r.hdr \in BOOLEAN
        /\ r.hdr => disk' = w.disk /\ marked' = w.marked
        /\ ~r.hdr => UNCHANGED <<disk, marked>>
    BY <1>1, ServeEffect, Zenon DEF IsRequest
  <2>2. hook' = hook
    BY <1>1 DEF Serve
  <2>3. /\ marked \subseteq w.marked
        /\ hook => \A s \in Sectors : w.disk[s] # disk[s] => s \in w.marked
    BY <2>1 DEF Walked
  <2> HIDE DEF w, r
  <2> QED
    BY <2>1, <2>2, <2>3 DEF WritesAreReported
<1>2. CASE Reset
  BY <1>2 DEF Reset, WritesAreReported
<1>3. ASSUME UNCHANGED <<disk, marked, hook>> PROVE WritesAreReported'
  BY <1>3 DEF WritesAreReported
<1>4. ASSUME NEW h, Publish(h) PROVE WritesAreReported'
  BY <1>3, <1>4 DEF Publish, device
<1>5. CASE Setup \/ Notify \/ Claim \/ ReadIsr \/ Ack \/ Take \/ EndNotify
  BY <1>3, <1>5 DEF Setup, Notify, Claim, ReadIsr, Ack, Take, EndNotify, device
<1>6. CASE UNCHANGED vars
  BY <1>3, <1>6 DEF vars, device
<1> QED
  BY <1>1, <1>2, <1>4, <1>5, <1>6 DEF Next

\* For every disk and every chain, also one that fails half-way: as long as
\* mark_dirty is set, each sector that a request has changed was reported.
THEOREM WritesReachTheBitmap == Spec => []WritesAreReported
<1>1. Init => Typed /\ Ring /\ WritesAreReported
  BY InitTyped, InitRing DEF Init, WritesAreReported
<1>2. Typed /\ Ring /\ WritesAreReported /\ [Next]_vars => (Typed /\ Ring /\ WritesAreReported)'
  BY NextTyped, NextRing, NextReported
<1> QED
  BY <1>1, <1>2, PTL DEF Spec

\* The driver will look at the used ring.
Announced ==
    \/ pending /\ intStatus
    \/ irq = "read" /\ intStatus
    \/ irq = "ack" /\ isr
    \/ irq = "take"

\* CompletionAnnounced also inside a notification: what it has served so far
\* is announced at its end, since start_avail tells that there was something.
Awaited == seen # usedIdx => Announced \/ (at = "serve" /\ lastAvail # start)

LEMMA NextAwaited ==
    ASSUME Typed, Ring, Awaited, [Next]_vars
    PROVE  Awaited'
<1>0. intStatus \in BOOLEAN /\ pending \in BOOLEAN /\ isr \in BOOLEAN
  BY DEF Typed, TypeOK
<1>1. CASE Setup
  BY <1>0, <1>1 DEF Setup, Raise, Awaited, Announced, memory, driver
<1>2. ASSUME NEW h, Publish(h) PROVE Awaited'
  BY <1>2 DEF Publish, Awaited, Announced, device
<1>3. CASE Notify
  BY <1>3 DEF Notify, Awaited, Announced, memory, driver
<1>4. CASE Claim
  BY <1>4 DEF Claim, Awaited, Announced, memory, device
<1>5. CASE ReadIsr
  BY <1>5 DEF ReadIsr, Awaited, Announced, memory, device
<1>6. CASE Ack
  BY <1>0, <1>6 DEF Ack, Raise, Awaited, Announced, memory
<1>7. CASE Take
  BY <1>7 DEF Take, Awaited, Announced, memory, device
<1>8. CASE Serve
  <2>1. /\ seen \in Indices /\ lastAvail \in Indices /\ start \in Indices /\ Got \in Nat
    BY RingBounds
  <2>2. Behind(seen, lastAvail') = Got + 1 /\ start' = start /\ at' = "serve"
    BY <1>8, ServeNext DEF Serve
  <2>3. Behind(seen, start) <= Got /\ Behind(seen, start) \in Nat
    <3>1. Behind(seen, start) \in Indices
      BY <2>1, BehindIs
    <3> QED
      BY <1>8, <3>1, Sizes DEF Ring, Serve, Indices
  <2>4. lastAvail' # start'
    BY <2>1, <2>2, <2>3
  <2> QED
    BY <2>2, <2>4 DEF Awaited
<1>9. CASE EndNotify
  BY <1>0, <1>9 DEF EndNotify, Raise, Awaited, Announced, memory, driver
<1>10. CASE Reset
  BY <1>10 DEF Reset, ClearRings, Awaited
<1>11. CASE UNCHANGED vars
  BY <1>11 DEF vars, memory, driver, device, Awaited, Announced
<1> QED
  BY <1>1, <1>2, <1>3, <1>4, <1>5, <1>6, <1>7, <1>8, <1>9, <1>10, <1>11 DEF Next

\* No order of submissions, notifications and acknowledgements loses a
\* completion, for every ring size and across the wrap of the 16-bit indices:
\* a full ring is less than the indices can count, so process_queue never
\* mistakes a round for nothing served.
THEOREM CompletionsAreAnnounced == Spec => []CompletionAnnounced
<1>1. Init => Typed /\ Ring /\ Awaited
  BY InitTyped, InitRing DEF Init, Awaited
<1>2. Typed /\ Ring /\ Awaited /\ [Next]_vars => (Typed /\ Ring /\ Awaited)'
  BY NextTyped, NextRing, NextAwaited
<1>3. Awaited => CompletionAnnounced
  BY DEF Awaited, Announced, CompletionAnnounced
<1> QED
  BY <1>1, <1>2, <1>3, PTL DEF Spec

-----------------------------------------------------------------------------
(* The device implements BlockService.                                     *)

\* The requests that wait, and the answers that are on their way: the values
\* that the refinement mapping gives to queue and done.
Waiting == [i \in 1 .. Behind(lastAvail, availIdx) |-> chain[avail[(lastAvail + i - 1) % Num]]]
Ready == [i \in 1 .. Behind(seen, usedIdx) |-> Answer(used[(seen + i - 1) % Num].head)]

\* In terms of the k-th request that the driver has not taken back.
LEMMA WaitingIs ==
    Typed /\ Ring =>
        /\ Waiting = [i \in 1 .. (Out - Got) |-> Waiting[i]]
        /\ \A i \in 1 .. (Out - Got) : Waiting[i] = chain[Given(Got + i - 1)]
<1> SUFFICES ASSUME Typed, Ring
             PROVE  /\ Waiting = [i \in 1 .. (Out - Got) |-> Waiting[i]]
                    /\ \A i \in 1 .. (Out - Got) : Waiting[i] = chain[Given(Got + i - 1)]
  OBVIOUS
<1>0. /\ seen \in Indices /\ lastAvail \in Indices /\ availIdx \in Indices
      /\ Got \in Nat /\ Out \in Nat /\ Got <= Out
  BY RingBounds
<1>1. Behind(lastAvail, availIdx) = Out - Got
  BY <1>0, Distances DEF Out, Got
<1>2. ASSUME NEW i \in 1 .. (Out - Got)
      PROVE  avail[(lastAvail + i - 1) % Num] = Given(Got + i - 1)
  <2> DEFINE k == i - 1
  <2>1. k \in Nat /\ lastAvail + i - 1 = lastAvail + k /\ Got + i - 1 = Got + k
    BY <1>0 DEF Indices
  <2> HIDE DEF k
  <2>2. Slot(seen, Got + k) = Slot(lastAvail, k)
    BY <1>0, <2>1, Slots DEF Got
  <2> QED
    BY <2>1, <2>2 DEF Given, Slot
<1> QED
  BY <1>1, <1>2 DEF Waiting

LEMMA ReadyIs ==
    Typed /\ Ring =>
        /\ Ready = [i \in 1 .. Got |-> Ready[i]]
        /\ \A i \in 1 .. Got : Ready[i] = Answer(Given(i - 1))
<1> SUFFICES ASSUME Typed, Ring
             PROVE  /\ Ready = [i \in 1 .. Got |-> Ready[i]]
                    /\ \A i \in 1 .. Got : Ready[i] = Answer(Given(i - 1))
  OBVIOUS
<1>0. seen \in Indices /\ Got \in Nat /\ usedIdx = lastAvail
  BY RingBounds DEF Ring
<1>1. Behind(seen, usedIdx) = Got
  BY <1>0 DEF Got
<1>2. ASSUME NEW i \in 1 .. Got
      PROVE  used[(seen + i - 1) % Num].head = Given(i - 1)
  <2>1. i - 1 \in 0 .. (Got - 1) /\ seen + i - 1 = seen + (i - 1)
    BY <1>0 DEF Indices
  <2>2. used[Slot(seen, i - 1)].head = Given(i - 1)
    BY <2>1 DEF Ring
  <2> QED
    BY <2>1, <2>2 DEF Slot
<1> QED
  BY <1>1, <1>2 DEF Ready

\* Sequences that differ by their last or by their first element.
LEMMA AppendIs ==
    ASSUME NEW n \in Nat, NEW s, s = [i \in 1 .. n |-> s[i]],
           NEW t, t = [i \in 1 .. (n + 1) |-> t[i]], \A i \in 1 .. n : t[i] = s[i]
    PROVE  t = Append(s, t[n + 1]) /\ Len(t) = n + 1 /\ t # <<>>
<1> DEFINE T == {t[i] : i \in 1 .. (n + 1)}
           e == t[n + 1]
<1>1. \A i \in 1 .. (n + 1) : t[i] \in T
  OBVIOUS
<1>2. \A i \in 1 .. n : i \in 1 .. (n + 1)
  OBVIOUS
<1>3. e \in T
  OBVIOUS
<1> HIDE DEF T, e
<1>4. s \in Seq(T) /\ Len(s) = n
  <2>1. \A i \in 1 .. n : s[i] \in T
    BY <1>1, <1>2
  <2> QED
    BY <2>1
<1>5. t \in Seq(T) /\ Len(t) = n + 1
  BY <1>1
<1>6. /\ Append(s, e) \in Seq(T) /\ Len(Append(s, e)) = n + 1
      /\ \A i \in 1 .. n : Append(s, e)[i] = s[i]
      /\ Append(s, e)[n + 1] = e
  BY <1>3, <1>4, AppendProperties
<1>7. \A i \in 1 .. (n + 1) : i \in 1 .. n \/ i = n + 1
  OBVIOUS
<1>8. \A i \in 1 .. (n + 1) : t[i] = Append(s, e)[i]
  BY <1>6, <1>7 DEF e
<1>9. t = Append(s, e)
  BY <1>5, <1>6, <1>8, SeqEqual
<1> QED
  BY <1>5, <1>9 DEF e

\* t has n elements, which are those of s after the first.
IsRest(n, s, t) ==
    /\ s = [i \in 1 .. (n + 1) |-> s[i]] /\ t = [i \in 1 .. n |-> t[i]]
    /\ \A i \in 1 .. n : t[i] = s[i + 1]

LEMMA TailIs ==
    ASSUME NEW n \in Nat, NEW s, NEW t, IsRest(n, s, t)
    PROVE  t = Tail(s) /\ s # <<>> /\ Head(s) = s[1]
<1> USE DEF IsRest
<1> DEFINE T == {s[i] : i \in 1 .. (n + 1)}
<1>1. \A i \in 1 .. (n + 1) : s[i] \in T
  OBVIOUS
<1>2. \A i \in 1 .. n : i + 1 \in 1 .. (n + 1)
  OBVIOUS
<1> HIDE DEF T
<1>3. s \in Seq(T) /\ Len(s) = n + 1 /\ s # <<>>
  BY <1>1
<1>4. t \in Seq(T) /\ Len(t) = n
  BY <1>1, <1>2
<1>5. /\ Head(s) = s[1] /\ Tail(s) \in Seq(T) /\ Len(Tail(s)) = n
      /\ \A i \in 1 .. n : Tail(s)[i] = s[i + 1]
  BY <1>3, HeadTailProperties
<1>6. t = Tail(s)
  BY <1>4, <1>5, SeqEqual
<1> QED
  BY <1>3, <1>5, <1>6

LEMMA SameSeq ==
    ASSUME NEW n \in Nat, NEW s, s = [i \in 1 .. n |-> s[i]],
           NEW t, t = [i \in 1 .. n |-> t[i]], \A i \in 1 .. n : t[i] = s[i]
    PROVE  t = s
  OBVIOUS

\* A request that the device has not reached has no status yet: that of a
\* chain without a readable header therefore never says that it was done.
Untouched == \A k \in Got .. (Out - 1) : status[Given(k)] = "none"

\* Steps that move neither the indices nor what they point to.
LEMMA SameViews ==
    ASSUME UNCHANGED <<chain, buffer, status, avail, availIdx, used, usedIdx, seen, lastAvail>>
    PROVE  /\ Waiting' = Waiting /\ Ready' = Ready
           /\ Untouched => Untouched'
<1>1. Waiting' = Waiting
  BY DEF Waiting, Behind
<1>2. Ready' = Ready
  BY DEF Ready, Behind, Answer
<1>3. Untouched => Untouched'
  BY DEF Untouched, Out, Got, Given, Behind, Slot
<1> QED
  BY <1>1, <1>2, <1>3

\* What each kind of step does to the abstract queue and answers.
LEMMA PublishSubmits ==
    ASSUME Typed, Ring, Untouched, Typed', Ring', NEW h \in Heads, Publish(h)
    PROVE  /\ \E r \in Requests : Waiting' = Append(Waiting, r)
           /\ Ready' = Ready /\ disk' = disk /\ answers' = answers
           /\ Untouched'
<1> DEFINE new(k) == avail'[Slot(seen', k)]
<1>0. /\ Out \in Nat /\ Got \in Nat /\ Got <= Out /\ h \notin busy
  BY RingBounds DEF Publish
<1>1. /\ Out' = Out + 1 /\ Got' = Got /\ new(Out) = h
      /\ \A k \in 0 .. (Out - 1) : new(k) = Given(k)
  BY PublishMoves
<1>2. PICK r \in Requests : chain' = [chain EXCEPT ![h] = r]
  <2>1. PICK t \in Templates[nreq + 1] : chain' = [chain EXCEPT ![h] = Request(t, nreq + 1)]
    BY DEF Publish
  <2>2. nreq + 1 \in Ids
    BY Sizes DEF Typed, TypeOK, Publish, Ids
  <2>3. Request(t, nreq + 1) \in Requests
    BY <2>2 DEF Requests
  <2> QED
    BY <2>1, <2>3
<1>3. \A k \in 0 .. (Out - 1) : Given(k) \in busy /\ Given(k) # h
  BY <1>0 DEF Ring
<1>4. /\ chain'[h] = r /\ status'[h] = "none"
      /\ \A g \in Heads : g # h => chain'[g] = chain[g] /\ status'[g] = status[g]
                                   /\ buffer'[g] = buffer[g]
  BY <1>2 DEF Publish, Typed, TypeOK
<1>5. busy \subseteq Heads
  BY DEF Typed, TypeOK
<1>6. (Typed /\ Ring =>
        /\ Waiting = [i \in 1 .. (Out - Got) |-> Waiting[i]]
        /\ \A i \in 1 .. (Out - Got) : Waiting[i] = chain[Given(Got + i - 1)])'
  BY WaitingIs, PTL
<1>7. (Typed /\ Ring =>
        /\ Ready = [i \in 1 .. Got |-> Ready[i]]
        /\ \A i \in 1 .. Got : Ready[i] = Answer(Given(i - 1)))'
  BY ReadyIs, PTL
<1>8. /\ Waiting' = [i \in 1 .. (Out' - Got') |-> Waiting'[i]]
      /\ \A i \in 1 .. (Out' - Got') : Waiting'[i] = chain'[new(Got' + i - 1)]
  BY <1>6 DEF Given
<1>9. /\ Ready' = [i \in 1 .. Got' |-> Ready'[i]]
      /\ \A i \in 1 .. Got' :
            Ready'[i] = [req |-> chain'[new(i - 1)], status |-> status'[new(i - 1)],
                         data |-> buffer'[new(i - 1)]]
  BY <1>7 DEF Given, Answer
<1> HIDE DEF new
<1>10. Waiting' = Append(Waiting, r)
  <2> DEFINE n == Out - Got
  <2>1. n \in Nat /\ Out' - Got' = n + 1
    BY <1>0, <1>1
  <2>2. Waiting = [i \in 1 .. n |-> Waiting[i]]
    BY WaitingIs
  <2>3. Waiting' = [i \in 1 .. (n + 1) |-> Waiting'[i]]
    BY <1>8, <2>1
  <2>4. ASSUME NEW i \in 1 .. n PROVE Waiting'[i] = Waiting[i]
    <3>1. Got + i - 1 \in 0 .. (Out - 1) /\ i \in 1 .. (Out' - Got')
      BY <1>0, <1>1
    <3>2. Waiting[i] = chain[Given(Got + i - 1)]
      BY WaitingIs
    <3> QED
      BY <1>1, <1>3, <1>4, <1>5, <1>8, <3>1, <3>2
  <2>5. Waiting'[n + 1] = r
    <3>1. n + 1 \in 1 .. (Out' - Got') /\ Got + (n + 1) - 1 = Out
      BY <1>0, <2>1
    <3> QED
      BY <1>1, <1>4, <1>8, <3>1
  <2> HIDE DEF n
  <2>6. Waiting' = Append(Waiting, Waiting'[n + 1])
    BY <2>1, <2>2, <2>3, <2>4, AppendIs
  <2> QED
    BY <2>5, <2>6
<1>11. Ready' = Ready
  <2>1. Ready = [i \in 1 .. Got |-> Ready[i]]
    BY ReadyIs
  <2>2. Ready' = [i \in 1 .. Got |-> Ready'[i]]
    BY <1>1, <1>9
  <2>3. ASSUME NEW i \in 1 .. Got PROVE Ready'[i] = Ready[i]
    <3>1. i - 1 \in 0 .. (Out - 1) /\ i \in 1 .. Got'
      BY <1>0, <1>1
    <3>2. Ready[i] = Answer(Given(i - 1))
      BY ReadyIs
    <3> QED
      BY <1>1, <1>3, <1>4, <1>5, <1>9, <3>1, <3>2 DEF Answer
  <2> QED
    BY <1>0, <2>1, <2>2, <2>3, SameSeq
<1>12. Untouched'
  <2>1. ASSUME NEW k \in Got' .. (Out' - 1) PROVE status'[new(k)] = "none"
    <3>1. CASE k = Out
      BY <1>1, <1>4, <3>1
    <3>2. CASE k # Out
      <4>1. k \in Got .. (Out - 1) /\ k \in 0 .. (Out - 1)
        BY <1>0, <1>1, <3>2
      <4> QED
        BY <1>1, <1>3, <1>4, <1>5, <4>1 DEF Untouched
    <3> QED
      BY <3>1, <3>2
  <2> QED
    BY <2>1 DEF Untouched, Given, new
<1>13. disk' = disk /\ answers' = answers
  BY DEF Publish, device
<1> QED
  BY <1>10, <1>11, <1>12, <1>13

LEMMA ServeServes ==
    ASSUME Typed, Ring, Untouched, Typed', Ring', Serve
    PROVE  /\ Waiting # <<>> /\ Waiting' = Tail(Waiting)
           /\ \E st, d :
                 LET a == [req |-> Head(Waiting), status |-> st, data |-> d]
                 IN  /\ Ready' = Append(Ready, a) /\ Ready' # <<>>
                     /\ Ready'[Len(Ready')] = a
                     /\ Service!Serves(Head(Waiting), st, d)
           /\ answers' = answers
           /\ Untouched'
<1> DEFINE h == Given(Got)
           r == chain[h]
           w == Walk(r)
           m == Service!Length(r)
<1>0. /\ Out \in Nat /\ Got \in Nat /\ Got < Out
  BY RingBounds, ServeNext DEF Serve
<1>1. /\ h \in Heads /\ IsRequest(r) /\ Walked(r, w, m)
      /\ r.hdr => /\ disk' = w.disk
                  /\ buffer' = [buffer EXCEPT ![h] = w.data]
                  /\ status' = [status EXCEPT ![h] = w.status]
      /\ ~r.hdr => UNCHANGED <<disk, buffer, status>>
  BY ServeEffect, Zenon
<1>2. /\ lastAvail' = Next1(lastAvail) /\ Behind(seen, Next1(lastAvail)) = Got + 1
      /\ UNCHANGED <<chain, avail, availIdx, seen, answers>>
  BY ServeNext DEF Serve, driver
<1>3. Got' = Got + 1 /\ Out' = Out
  BY <1>2 DEF Got, Out
<1>4. ASSUME NEW k \in 0 .. (Out - 1), k # Got PROVE Given(k) # h /\ Given(k) \in Heads
  <2>1. Got \in 0 .. (Out - 1) /\ busy \subseteq Heads
    BY <1>0 DEF Typed, TypeOK
  <2> QED
    BY <1>4, <2>1 DEF Ring
<1>5. ASSUME NEW g \in Heads, g # h PROVE status'[g] = status[g] /\ buffer'[g] = buffer[g]
  <2>1. status \in [Heads -> Statuses] /\ buffer = [x \in Heads |-> buffer[x]]
    BY DEF Typed, TypeOK
  <2>2. r.hdr \in BOOLEAN
    BY <1>1 DEF IsRequest
  <2> HIDE DEF h, r, w
  <2> QED
    BY <1>1, <1>5, <2>1, <2>2
<1>6. (Typed /\ Ring =>
        /\ Waiting = [i \in 1 .. (Out - Got) |-> Waiting[i]]
        /\ \A i \in 1 .. (Out - Got) : Waiting[i] = chain[Given(Got + i - 1)])'
  BY WaitingIs, PTL
<1>7. (Typed /\ Ring =>
        /\ Ready = [i \in 1 .. Got |-> Ready[i]]
        /\ \A i \in 1 .. Got : Ready[i] = Answer(Given(i - 1)))'
  BY ReadyIs, PTL
<1>8. /\ Waiting' = [i \in 1 .. (Out' - Got') |-> Waiting'[i]]
      /\ \A i \in 1 .. (Out' - Got') : Waiting'[i] = chain[Given(Got' + i - 1)]
  BY <1>2, <1>6 DEF Given
<1>9. /\ Ready' = [i \in 1 .. Got' |-> Ready'[i]]
      /\ \A i \in 1 .. Got' :
            Ready'[i] = [req |-> chain[Given(i - 1)], status |-> status'[Given(i - 1)],
                         data |-> buffer'[Given(i - 1)]]
  BY <1>2, <1>7 DEF Given, Answer
<1>10. Waiting # <<>> /\ Waiting' = Tail(Waiting) /\ Head(Waiting) = r
  <2> DEFINE n == Out - Got - 1
  <2>1. n \in Nat /\ Out - Got = n + 1 /\ Out' - Got' = n
    BY <1>0, <1>3
  <2>2. Waiting = [i \in 1 .. (n + 1) |-> Waiting[i]]
    BY <2>1, WaitingIs
  <2>3. Waiting' = [i \in 1 .. n |-> Waiting'[i]]
    BY <1>8, <2>1
  <2>4. ASSUME NEW i \in 1 .. n PROVE Waiting'[i] = Waiting[i + 1]
    <3>1. /\ i \in 1 .. (Out' - Got') /\ i + 1 \in 1 .. (Out - Got)
          /\ Got' + i - 1 = Got + (i + 1) - 1
      BY <1>0, <1>3
    <3>2. Waiting[i + 1] = chain[Given(Got + (i + 1) - 1)]
      BY <3>1, WaitingIs
    <3> QED
      BY <1>8, <3>1, <3>2
  <2>5. Waiting[1] = r
    <3>1. 1 \in 1 .. (Out - Got) /\ Got + 1 - 1 = Got
      BY <1>0
    <3> QED
      BY <3>1, WaitingIs
  <2> DEFINE s == Waiting
             t == Waiting'
  <2>6. IsRest(n, s, t)
    BY <2>2, <2>3, <2>4 DEF IsRest
  <2> HIDE DEF n, r, s, t
  <2>7. t = Tail(s) /\ s # <<>> /\ Head(s) = s[1]
    BY <2>1, <2>6, TailIs
  <2> QED
    BY <2>5, <2>7 DEF s, t
<1> DEFINE a == [req |-> r, status |-> status'[h], data |-> buffer'[h]]
<1>11. Ready' = Append(Ready, a) /\ Ready' # <<>> /\ Ready'[Len(Ready')] = a
  <2>1. Ready = [i \in 1 .. Got |-> Ready[i]]
    BY ReadyIs
  <2>2. Ready' = [i \in 1 .. (Got + 1) |-> Ready'[i]]
    BY <1>3, <1>9
  <2>3. ASSUME NEW i \in 1 .. Got PROVE Ready'[i] = Ready[i]
    <3>1. i - 1 \in 0 .. (Out - 1) /\ i \in 1 .. Got' /\ i - 1 # Got
      BY <1>0, <1>3
    <3>2. Ready[i] = Answer(Given(i - 1))
      BY ReadyIs
    <3>3. status'[Given(i - 1)] = status[Given(i - 1)] /\ buffer'[Given(i - 1)] = buffer[Given(i - 1)]
      BY <1>4, <1>5, <3>1
    <3> QED
      BY <1>9, <3>1, <3>2, <3>3 DEF Answer
  <2>4. Ready'[Got + 1] = a
    <3>1. Got + 1 \in 1 .. Got' /\ (Got + 1) - 1 = Got
      BY <1>0, <1>3
    <3> QED
      BY <1>9, <3>1
  <2> HIDE DEF a
  <2>5. Ready' = Append(Ready, Ready'[Got + 1]) /\ Len(Ready') = Got + 1 /\ Ready' # <<>>
    BY <1>0, <2>1, <2>2, <2>3, AppendIs
  <2> QED
    BY <2>4, <2>5
<1>12. Service!Serves(r, status'[h], buffer'[h])
  <2>1. /\ w.disk \in [Sectors -> Values] /\ m \in Nat /\ r.sector \in Nat
        /\ r.type # "OUT" => w.disk = disk
        /\ \A s \in Sectors : ~(r.sector <= s /\ s < r.sector + m) => w.disk[s] = disk[s]
        /\ r.type = "OUT" /\ w.status = "OK" =>
             \A s \in Sectors : r.sector <= s /\ s < r.sector + m => w.disk[s] = r.id
        /\ r.type = "IN" /\ w.status = "OK" => w.data = ReadOf(disk, r.sector, m)
    BY <1>1 DEF Walked, IsRequest
  <2>2. \A s \in Sectors : s \in Service!RangeOf(r) <=> r.sector <= s /\ s < r.sector + m
    <3>1. \A s \in Sectors : s \in Nat
      BY DEF Sectors
    <3>2. \A s \in Sectors : s \in Service!RangeOf(r) <=> s \in r.sector .. (r.sector + m - 1)
      BY DEF Service!RangeOf, Service!Sectors, Sectors
    <3> HIDE DEF m, r
    <3> QED
      BY <2>1, <3>1, <3>2
  <2>3. status \in [Heads -> Statuses] /\ buffer = [x \in Heads |-> buffer[x]]
    BY DEF Typed, TypeOK
  <2>4. status[h] = "none"
    BY <1>0 DEF Untouched
  <2>5. r.hdr \in BOOLEAN
    BY <1>1 DEF IsRequest
  <2> HIDE DEF h, r, w, m
  <2>6. CASE r.hdr
    <3>1. disk' = w.disk /\ status'[h] = w.status /\ buffer'[h] = w.data
      BY <1>1, <2>3, <2>6
    <3>2. ASSUME w.status = "OK", r.type = "OUT"
          PROVE  disk' = [s \in Sectors |-> IF s \in Service!RangeOf(r) THEN r.id ELSE disk[s]]
      BY <2>1, <2>2, <3>1, <3>2
    <3>3. ASSUME w.status = "OK", r.type = "IN"
          PROVE  buffer'[h] = [i \in 1 .. m |-> disk[r.sector + i - 1]]
      BY <2>1, <3>1, <3>3, Zenon DEF ReadOf
    <3>4. \A s \in Sectors \ Service!RangeOf(r) : disk'[s] = disk[s]
      BY <2>1, <2>2, <3>1
    <3>5. r.type # "OUT" => disk' = disk
      BY <2>1, <3>1
    <3> QED
      BY <3>1, <3>2, <3>3, <3>4, <3>5, Zenon DEF Service!Serves, Service!Sectors, Sectors, m
  <2>7. CASE ~r.hdr
    <3>1. disk' = disk /\ status'[h] # "OK"
      BY <1>1, <2>4, <2>7
    <3> QED
      BY <3>1 DEF Service!Serves
  <2> QED
    BY <2>5, <2>6, <2>7
<1>13. Untouched'
  <2>1. ASSUME NEW k \in Got' .. (Out' - 1) PROVE status'[Given(k)] = "none"
    <3>1. k \in 0 .. (Out - 1) /\ k # Got /\ k \in Got .. (Out - 1)
      BY <1>0, <1>3
    <3> QED
      BY <1>4, <1>5, <3>1 DEF Untouched
  <2> QED
    BY <1>2, <2>1 DEF Untouched, Given
<1> QED
  BY <1>2, <1>10, <1>11, <1>12, <1>13, Zenon

LEMMA TakeDelivers ==
    ASSUME Typed, Ring, Untouched, Typed', Ring', Take, seen # usedIdx
    PROVE  /\ Ready # <<>> /\ Ready' = Tail(Ready)
           /\ answers' = answers \cup {Head(Ready)}
           /\ Waiting' = Waiting /\ disk' = disk
           /\ Untouched'
<1> DEFINE new(k) == avail'[Slot(seen', k)]
<1>0. /\ Out \in Nat /\ Got \in Nat /\ Got <= Out
  BY RingBounds
<1>1. /\ Got > 0
      /\ Behind(Next1(seen), availIdx) = Out - 1
      /\ Behind(Next1(seen), lastAvail) = Got - 1
      /\ used[seen % Num].head = Given(0)
      /\ \A k \in Nat : Slot(Next1(seen), k) = Slot(seen, k + 1)
  BY TakeNext
<1>2. /\ seen' = Next1(seen) /\ answers' = answers \cup {Answer(Given(0))}
      /\ UNCHANGED <<chain, status, buffer, avail, availIdx, lastAvail, disk>>
  BY <1>1 DEF Take, memory, device, Answer
<1>3. Out' = Out - 1 /\ Got' = Got - 1
  BY <1>1, <1>2 DEF Out, Got
<1>4. \A k \in Nat : new(k) = Given(k + 1)
  BY <1>1, <1>2 DEF Given
<1>6. (Typed /\ Ring =>
        /\ Waiting = [i \in 1 .. (Out - Got) |-> Waiting[i]]
        /\ \A i \in 1 .. (Out - Got) : Waiting[i] = chain[Given(Got + i - 1)])'
  BY WaitingIs, PTL
<1>7. (Typed /\ Ring =>
        /\ Ready = [i \in 1 .. Got |-> Ready[i]]
        /\ \A i \in 1 .. Got : Ready[i] = Answer(Given(i - 1)))'
  BY ReadyIs, PTL
<1>8. /\ Waiting' = [i \in 1 .. (Out' - Got') |-> Waiting'[i]]
      /\ \A i \in 1 .. (Out' - Got') : Waiting'[i] = chain[new(Got' + i - 1)]
  BY <1>2, <1>6 DEF Given
<1>9. /\ Ready' = [i \in 1 .. Got' |-> Ready'[i]]
      /\ \A i \in 1 .. Got' : Ready'[i] = Answer(new(i - 1))
  BY <1>2, <1>7 DEF Given, Answer
<1> HIDE DEF new
<1>10. Ready # <<>> /\ Ready' = Tail(Ready) /\ Head(Ready) = Answer(Given(0))
  <2> DEFINE n == Got - 1
  <2>1. n \in Nat /\ Got = n + 1 /\ Got' = n
    BY <1>0, <1>1, <1>3
  <2>2. Ready = [i \in 1 .. (n + 1) |-> Ready[i]]
    BY <2>1, ReadyIs
  <2>3. Ready' = [i \in 1 .. n |-> Ready'[i]]
    BY <1>9, <2>1
  <2>4. ASSUME NEW i \in 1 .. n PROVE Ready'[i] = Ready[i + 1]
    <3>1. i \in 1 .. Got' /\ i + 1 \in 1 .. Got /\ i - 1 \in Nat /\ (i - 1) + 1 = (i + 1) - 1
      BY <1>0, <2>1
    <3>2. Ready[i + 1] = Answer(Given((i + 1) - 1))
      BY <3>1, ReadyIs
    <3> QED
      BY <1>4, <1>9, <3>1, <3>2
  <2>5. Ready[1] = Answer(Given(0))
    <3>1. 1 \in 1 .. Got /\ 1 - 1 = 0
      BY <1>0, <1>1
    <3> QED
      BY <3>1, ReadyIs
  <2> DEFINE s == Ready
             t == Ready'
  <2>6. IsRest(n, s, t)
    BY <2>2, <2>3, <2>4 DEF IsRest
  <2> HIDE DEF n, s, t
  <2>7. t = Tail(s) /\ s # <<>> /\ Head(s) = s[1]
    BY <2>1, <2>6, TailIs
  <2> QED
    BY <2>5, <2>7 DEF s, t
<1>11. Waiting' = Waiting
  <2> DEFINE n == Out - Got
  <2>1. n \in Nat /\ Out' - Got' = n
    BY <1>0, <1>3
  <2>2. Waiting = [i \in 1 .. n |-> Waiting[i]]
    BY WaitingIs
  <2>3. Waiting' = [i \in 1 .. n |-> Waiting'[i]]
    BY <1>8, <2>1
  <2>4. ASSUME NEW i \in 1 .. n PROVE Waiting'[i] = Waiting[i]
    <3>1. /\ i \in 1 .. (Out' - Got') /\ Got' + i - 1 \in Nat
          /\ (Got' + i - 1) + 1 = Got + i - 1
      BY <1>0, <1>1, <1>3, <2>1
    <3>2. Waiting[i] = chain[Given(Got + i - 1)]
      BY WaitingIs
    <3> QED
      BY <1>4, <1>8, <3>1, <3>2
  <2> HIDE DEF n
  <2> QED
    BY <2>1, <2>2, <2>3, <2>4, SameSeq
<1>12. Untouched'
  <2>1. ASSUME NEW k \in Got' .. (Out' - 1) PROVE status'[new(k)] = "none"
    <3>1. k \in Nat /\ k + 1 \in Got .. (Out - 1)
      BY <1>0, <1>1, <1>3
    <3> QED
      BY <1>2, <1>4, <3>1 DEF Untouched
  <2> QED
    BY <2>1 DEF Untouched, Given, new
<1> QED
  BY <1>2, <1>10, <1>11, <1>12

\* The initial state, and that after a reset: the rings are empty.
LEMMA EmptyViews ==
    availIdx = 0 /\ lastAvail = 0 /\ usedIdx = 0 /\ seen = 0 =>
        Waiting = <<>> /\ Ready = <<>> /\ Untouched
<1> SUFFICES ASSUME availIdx = 0, lastAvail = 0, usedIdx = 0, seen = 0
             PROVE  Waiting = <<>> /\ Ready = <<>> /\ Untouched
  OBVIOUS
<1>1. Behind(0, 0) = 0
  BY BehindIs, Sizes DEF Indices
<1>2. Waiting = <<>> /\ Ready = <<>>
  BY <1>1 DEF Waiting, Ready
<1>3. Untouched
  BY <1>1 DEF Untouched, Out, Got
<1> QED
  BY <1>2, <1>3

LEMMA InitService == Init => Service!Init /\ Untouched
<1> SUFFICES ASSUME Init PROVE Service!Init /\ Untouched
  OBVIOUS
<1>1. Waiting = <<>> /\ Ready = <<>> /\ Untouched
  BY EmptyViews DEF Init
<1>2. disk \in [Sectors -> Values] /\ answers = {}
  BY InitTyped DEF Init, Typed, TypeOK
<1> QED
  BY <1>1, <1>2, Zenon DEF Service!Init, Service!Sectors, Sectors, Waiting, Ready

\* Every step of the device is a step of the service or leaves it unchanged.
LEMMA NextService ==
    ASSUME Typed, Ring, Untouched, Typed', Ring', [Next]_vars
    PROVE  [Service!Next]_(Service!vars) /\ Untouched'
<1> DEFINE Same == /\ Waiting' = Waiting /\ Ready' = Ready
                   /\ disk' = disk /\ answers' = answers
<1>1. Same => [Service!Next]_(Service!vars)
  BY Zenon DEF Service!vars, Waiting, Ready
<1>2. ASSUME UNCHANGED <<memory, seen, lastAvail, disk, answers>>
      PROVE  [Service!Next]_(Service!vars) /\ Untouched'
  <2>1. Same /\ Untouched'
    BY <1>2, SameViews DEF memory
  <2> QED
    BY <1>1, <2>1
<1>3. ASSUME NEW h \in Heads, Publish(h) PROVE Service!Next /\ Untouched'
  <2>1. PICK r \in Requests : Waiting' = Append(Waiting, r)
    BY <1>3, PublishSubmits
  <2>2. Ready' = Ready /\ disk' = disk /\ answers' = answers /\ Untouched'
    BY <1>3, PublishSubmits
  <2>3. Service!Submit(r)
    BY <2>1, <2>2, Zenon DEF Service!Submit, Waiting, Ready
  <2> QED
    BY <2>2, <2>3, Zenon DEF Service!Next
<1>4. ASSUME Serve PROVE Service!Next /\ Untouched'
  <2>1. PICK st, d :
           LET a == [req |-> Head(Waiting), status |-> st, data |-> d]
           IN  /\ Ready' = Append(Ready, a) /\ Ready' # <<>>
               /\ Ready'[Len(Ready')] = a
               /\ Service!Serves(Head(Waiting), st, d)
    BY <1>4, ServeServes
  <2>2. /\ Waiting # <<>> /\ Waiting' = Tail(Waiting) /\ answers' = answers /\ Untouched'
    BY <1>4, ServeServes
  <2> DEFINE a == Ready'[Len(Ready')]
  <2>3. /\ a.req = Head(Waiting) /\ a.status = st /\ a.data = d
        /\ Ready' = Append(Ready, a) /\ Ready' # <<>>
        /\ Service!Serves(Head(Waiting), st, d)
    BY <2>1
  <2> HIDE DEF a
  <2>4. Service!Serves(a.req, a.status, a.data)
    BY <2>3
  <2>5. Service!Serve
    BY <2>2, <2>3, <2>4, Zenon DEF Service!Serve, Waiting, Ready, a
  <2> QED
    BY <2>2, <2>5, Zenon DEF Service!Next
<1>5. ASSUME Take PROVE [Service!Next]_(Service!vars) /\ Untouched'
  <2>1. CASE seen = usedIdx
    BY <1>2, <1>5, <2>1 DEF Take, memory, device
  <2>2. CASE seen # usedIdx
    <3>1. /\ Ready # <<>> /\ Ready' = Tail(Ready)
          /\ answers' = answers \cup {Head(Ready)}
          /\ Waiting' = Waiting /\ disk' = disk /\ Untouched'
      BY <1>5, <2>2, TakeDelivers
    <3>2. Service!Deliver
      BY <3>1, Zenon DEF Service!Deliver, Waiting, Ready
    <3> QED
      BY <3>1, <3>2, Zenon DEF Service!Next
  <2> QED
    BY <2>1, <2>2
<1>6. ASSUME Reset PROVE Service!Next /\ Untouched'
  <2>1. (availIdx = 0 /\ lastAvail = 0 /\ usedIdx = 0 /\ seen = 0 =>
            Waiting = <<>> /\ Ready = <<>> /\ Untouched)'
    BY EmptyViews, PTL
  <2>2. /\ availIdx' = 0 /\ lastAvail' = 0 /\ usedIdx' = 0 /\ seen' = 0
        /\ disk' = disk /\ answers' = answers
    BY <1>6 DEF Reset, ClearRings
  <2>3. Waiting' = <<>> /\ Ready' = <<>> /\ Untouched'
    BY <2>1, <2>2
  <2>4. Service!Reset
    BY <2>2, <2>3, Zenon DEF Service!Reset, Waiting, Ready
  <2> QED
    BY <2>3, <2>4, Zenon DEF Service!Next
<1>7. ASSUME Setup \/ Notify \/ Claim \/ ReadIsr \/ Ack \/ EndNotify \/ UNCHANGED vars
      PROVE  [Service!Next]_(Service!vars) /\ Untouched'
  BY <1>2, <1>7 DEF Setup, Notify, Claim, ReadIsr, Ack, EndNotify, vars, memory, driver, device
<1> QED
  BY <1>3, <1>4, <1>5, <1>6, <1>7 DEF Next

\* Spec implements BlockService: whatever the order of submissions,
\* notifications, interrupts and resets, for every size of the queue and of
\* the index counters, requests are served once, in order, completely when
\* answered "OK", and the driver learns the answers in that order.
THEOREM DeviceIsAService == Spec => ImplementsBlockService
<1>1. Init => Typed /\ Ring /\ Untouched /\ Service!Init
  BY InitTyped, InitRing, InitService
<1>2. Typed /\ Ring /\ Untouched /\ [Next]_vars =>
        /\ Typed' /\ Ring' /\ Untouched'
        /\ [Service!Next]_(Service!vars)
  BY NextTyped, NextRing, NextService
<1> QED
  BY <1>1, <1>2, PTL DEF Spec, ImplementsBlockService, Service!Spec

-----------------------------------------------------------------------------
(* Division: the block arithmetic of vm_dirty_callback.                    *)

\* The quotient is the one whole number of times b fits into a.
LEMMA DivDef ==
    ASSUME NEW a \in Nat, NEW b \in Nat \ {0}
    PROVE  /\ a \div b \in Nat
           /\ b * (a \div b) <= a
           /\ a < b * ((a \div b) + 1)
  BY SMT

\* A multiple of b grows with its factor.
LEMMA TimesMono ==
    ASSUME NEW b \in Nat \ {0}, NEW p \in Nat, NEW q \in Nat, p <= q
    PROVE  b * p <= b * q
  BY SMT

\* A later sector is not in an earlier block.
LEMMA DivMono ==
    ASSUME NEW a \in Nat, NEW c \in Nat, a <= c, NEW b \in Nat \ {0}
    PROVE  a \div b <= c \div b
<1> DEFINE p == a \div b
           q == c \div b
<1>1. p \in Nat /\ q \in Nat /\ b * p <= a /\ c < b * (q + 1)
  BY DivDef
<1> HIDE DEF p, q
<1>2. SUFFICES ASSUME q + 1 <= p PROVE FALSE
  BY <1>1 DEF p, q
<1>3. b * (q + 1) <= b * p
  BY <1>1, <1>2, TimesMono
<1>4. b * p \in Nat /\ b * (q + 1) \in Nat
  BY <1>1
<1> QED
  BY <1>1, <1>3, <1>4

\* One block further is one block more.
LEMMA DivNext ==
    ASSUME NEW a \in Nat, NEW b \in Nat \ {0}
    PROVE  (a + b) \div b = (a \div b) + 1
<1> DEFINE p == a \div b
           q == (a + b) \div b
<1>1. p \in Nat /\ q \in Nat /\ b * p <= a /\ a < b * (p + 1)
      /\ b * q <= a + b /\ a + b < b * (q + 1)
  BY DivDef
<1> HIDE DEF p, q
<1>2. b * (p + 1) = b * p + b /\ b * ((p + 1) + 1) = b * (p + 1) + b /\ b * (q + 1) = b * q + b
  BY <1>1
<1>3. b * p \in Nat /\ b * q \in Nat
  BY <1>1
<1>4. ~(q + 1 <= p + 1)
  BY <1>1, <1>2, <1>3, TimesMono
<1>5. ~((p + 1) + 1 <= q)
  BY <1>1, <1>2, <1>3, TimesMono
<1> QED
  BY <1>1, <1>4, <1>5 DEF p, q

\* vm_dirty_callback marks the block of every sector of the written range,
\* and marks no block beyond the end of the disk.
LEMMA MarkedCovers ==
    ASSUME NEW off \in Sectors, NEW len \in Nat \ {0}, off + len <= NSectors
    PROVE  /\ \A s \in off .. (off + len - 1) : BlockOf(s) \in Marked(off, len)
           /\ Marked(off, len) \subseteq Blocks
<1> DEFINE lo == off \div SPB
           hi == (off + len + SPB - 1) \div SPB
           n  == (NSectors + SPB - 1) \div SPB
<1>1. /\ SPB \in Nat \ {0} /\ NSectors \in Nat /\ off \in Nat
      /\ off + len + SPB - 1 \in Nat /\ NSectors + SPB - 1 \in Nat
      /\ off + len + SPB - 1 <= NSectors + SPB - 1
  BY DiskAssumption DEF Sectors
<1>2. lo \in Nat /\ hi \in Nat /\ n \in Nat
  BY <1>1, DivDef
<1>3. hi <= n
  BY <1>1, DivMono
<1>4. ASSUME NEW s \in off .. (off + len - 1)
      PROVE  BlockOf(s) \in Marked(off, len)
  <2>1. s \in Nat /\ off <= s /\ s + SPB \in Nat /\ s + SPB <= off + len + SPB - 1
    BY <1>1
  <2>2. s \div SPB \in Nat
    BY <1>1, <2>1, DivDef
  <2>3. lo <= s \div SPB
    BY <1>1, <2>1, DivMono
  <2>4. (s \div SPB) + 1 <= hi
    <3>1. (s + SPB) \div SPB <= hi
      BY <1>1, <2>1, DivMono
    <3>2. (s + SPB) \div SPB = (s \div SPB) + 1
      BY <1>1, <2>1, DivNext
    <3> QED
      BY <3>1, <3>2
  <2> HIDE DEF lo, hi
  <2>5. s \div SPB \in lo .. (hi - 1)
    BY <1>2, <2>2, <2>3, <2>4
  <2> QED
    BY <2>5 DEF BlockOf, Marked, lo, hi
<1>5. Marked(off, len) \subseteq Blocks
  <2> HIDE DEF lo, hi, n
  <2>1. lo .. (hi - 1) \subseteq 0 .. (n - 1)
    BY <1>2, <1>3
  <2> QED
    BY <2>1 DEF Marked, Blocks, NBlocks, lo, hi, n
<1> QED
  BY <1>4, <1>5

-----------------------------------------------------------------------------
(* Type correctness.                                                       *)

\* A boot builds an image.
LEMMA OverlayType ==
    ASSUME DiskTypeOK, NEW v \in Vms
    PROVE  Overlay(v) \in Image
  BY DiskAssumption DEF DiskTypeOK, Overlay, Image

\* The first state has the types.
LEMMA DiskInitType == DiskInit => DiskTypeOK
<1> SUFFICES ASSUME DiskInit PROVE DiskTypeOK
  OBVIOUS
<1>1. rows \in [Vms -> [Sectors -> Contents \cup {NoRow}]]
  BY DEF DiskInit
<1>2. disk \in Image /\ image \in Image
  BY DiskAssumption DEF DiskInit, Image
<1>3. vmId \in Vms
  BY DiskAssumption DEF DiskInit
<1>4. /\ saved \subseteq Vms /\ place \in {"off", "idle", "run", "flush"}
      /\ dirty \subseteq Blocks /\ split \in BOOLEAN /\ hook \in BOOLEAN
      /\ cloned \in BOOLEAN
  BY DEF DiskInit
<1> QED
  BY <1>1, <1>2, <1>3, <1>4 DEF DiskTypeOK

\* Every step keeps the types.
LEMMA DiskNextType == DiskTypeOK /\ [DiskNext]_diskVars => DiskTypeOK'
<1> SUFFICES ASSUME DiskTypeOK, [DiskNext]_diskVars PROVE DiskTypeOK'
  OBVIOUS
<1> USE DiskAssumption
<1>1. ASSUME NEW v \in Vms, Boot(v) PROVE DiskTypeOK'
  BY <1>1, OverlayType DEF DiskTypeOK, Boot
<1>2. ASSUME NEW v \in Vms, FailedBoot(v) PROVE DiskTypeOK'
  BY <1>2 DEF DiskTypeOK, FailedBoot, Image
<1>3. CASE Step
  BY <1>3 DEF DiskTypeOK, Step
<1>4. ASSUME NEW off \in Sectors, NEW len \in 1 .. NSectors, NEW val \in Contents,
             GuestWrite(off, len, val)
      PROVE  DiskTypeOK'
  <2>1. len \in Nat \ {0} /\ off + len <= NSectors
    BY <1>4 DEF GuestWrite
  <2>2. Marked(off, len) \subseteq Blocks
    BY <2>1, MarkedCovers
  <2>3. disk' \in Image /\ image' \in Image
    BY <1>4 DEF GuestWrite, DiskTypeOK, Image
  <2>4. dirty' \subseteq Blocks
    BY <1>4, <2>2 DEF GuestWrite, DiskTypeOK
  <2> QED
    BY <1>4, <2>3, <2>4 DEF GuestWrite, DiskTypeOK
<1>5. CASE DriverReset
  BY <1>5 DEF DiskTypeOK, DriverReset
<1>6. CASE EndStep
  BY <1>6 DEF DiskTypeOK, EndStep
<1>7. CASE Flush
  <2>1. rows' \in [Vms -> [Sectors -> Contents \cup {NoRow}]]
    BY <1>7 DEF Flush, DiskTypeOK, Image
  <2>2. dirty' \subseteq Blocks
    BY <1>7 DEF Flush, DiskTypeOK
  <2> QED
    BY <1>7, <2>1, <2>2 DEF Flush, DiskTypeOK
<1>8. CASE FlushError
  BY <1>8 DEF DiskTypeOK, FlushError
<1>9. CASE Halt
  BY <1>9 DEF DiskTypeOK, Halt
<1>10. CASE Crash
  BY <1>10 DEF DiskTypeOK, Crash
<1>11. ASSUME NEW v \in Vms, StateSave(v) PROVE DiskTypeOK'
  BY <1>11 DEF DiskTypeOK, StateSave
<1>12. CASE StateReset
  BY <1>12 DEF DiskTypeOK, StateReset
<1>13. ASSUME NEW src \in Vms, NEW dst \in Vms, SnapshotCreate(src, dst)
       PROVE  DiskTypeOK'
  BY <1>13 DEF DiskTypeOK, SnapshotCreate
<1>14. CASE UNCHANGED diskVars
  BY <1>14 DEF DiskTypeOK, diskVars
<1> QED
  BY <1>1, <1>2, <1>3, <1>4, <1>5, <1>6, <1>7, <1>8, <1>9, <1>10, <1>11, <1>12,
     <1>13, <1>14 DEF DiskNext

\* The variables of the disk model keep their types; in particular the range
\* computed by vm_dirty_callback never leaves the bitmap, for every disk and
\* block size.
THEOREM DiskTypeCorrect == DiskSpec => []DiskTypeOK
<1>1. DiskInit => DiskTypeOK
  BY DiskInitType
<1>2. DiskTypeOK /\ [DiskNext]_diskVars => DiskTypeOK'
  BY DiskNextType
<1> QED
  BY <1>1, <1>2, PTL DEF DiskSpec

-----------------------------------------------------------------------------
(* No write is forgotten.                                                  *)

\* Besides the property, what each flush relies on: as long as no boot has
\* failed half-way, vm_disk is the device's buffer.
Tracking ==
    /\ DiskTypeOK
    /\ ~split => image = disk
    /\ TrackedIsMarked

\* The first state is tracked.
LEMMA InitTracking == DiskInit => Tracking
  BY DiskInitType DEF DiskInit, Tracking, TrackedIsMarked, Tracked

\* Steps that touch neither the disk nor its bitmap nor the stored rows.
LEMMA SameDisk ==
    ASSUME Tracking, DiskTypeOK', UNCHANGED <<rows, vmId, disk, image, split, dirty, hook, cloned>>
    PROVE  Tracking'
  BY DEF Tracking, TrackedIsMarked, Tracked, UnstoredIsMarked, Overlay

\* Every step keeps the tracking.
LEMMA NextTracking == Tracking /\ [DiskNext]_diskVars => Tracking'
<1> SUFFICES ASSUME Tracking, [DiskNext]_diskVars PROVE Tracking'
  OBVIOUS
<1>0. DiskTypeOK /\ DiskTypeOK'
  BY DiskNextType DEF Tracking
<1>1. ASSUME NEW v \in Vms, Boot(v) PROVE Tracking'
  <2>1. rows' = rows /\ vmId' = v
    BY <1>1 DEF Boot
  <2>2. \A s \in Sectors : disk'[s] = Overlay(vmId)'[s]
    BY <1>1, <2>1 DEF Boot, Overlay
  <2> QED
    BY <1>0, <1>1, <2>2 DEF Boot, Tracking, TrackedIsMarked, UnstoredIsMarked
<1>2. ASSUME NEW v \in Vms, FailedBoot(v) PROVE Tracking'
  BY <1>0, <1>2 DEF FailedBoot, Tracking, TrackedIsMarked, Tracked
<1>3. CASE Step
  BY <1>0, <1>3, SameDisk DEF Step
<1>4. ASSUME NEW off \in Sectors, NEW len \in 1 .. NSectors, NEW val \in Contents,
             GuestWrite(off, len, val)
      PROVE  Tracking'
  <2>1. len \in Nat \ {0} /\ off + len <= NSectors
    BY <1>4, DiskAssumption DEF GuestWrite
  <2>2. \A s \in off .. (off + len - 1) : BlockOf(s) \in Marked(off, len)
    BY <2>1, MarkedCovers
  <2>3. rows' = rows /\ vmId' = vmId /\ hook' = hook /\ split' = split
      /\ cloned' = cloned
    BY <1>4 DEF GuestWrite
  <2>4. ASSUME Tracked, NEW s \in Sectors
        PROVE  disk'[s] = Overlay(vmId)'[s] \/ BlockOf(s) \in dirty'
    <3>0. dirty' = dirty \cup Marked(off, len)
      BY <1>4, <2>4 DEF GuestWrite, Tracked
    <3>1. CASE s \in off .. (off + len - 1)
      BY <2>2, <3>0, <3>1
    <3>2. CASE s \notin off .. (off + len - 1)
      <4>1. disk'[s] = disk[s]
        BY <1>4, <3>2 DEF GuestWrite
      <4>2. Overlay(vmId)'[s] = Overlay(vmId)[s]
        BY <2>3 DEF Overlay
      <4> QED
        BY <2>4, <3>0, <4>1, <4>2 DEF Tracking, TrackedIsMarked, UnstoredIsMarked
    <3> QED
      BY <3>1, <3>2
  <2>5. TrackedIsMarked'
    BY <2>3, <2>4 DEF TrackedIsMarked, Tracked, UnstoredIsMarked, BlockOf
  <2> QED
    BY <1>0, <1>4, <2>5 DEF GuestWrite, Tracking
<1>5. CASE DriverReset
  BY <1>0, <1>5 DEF DriverReset, Tracking, TrackedIsMarked, Tracked
<1>6. CASE EndStep
  BY <1>0, <1>6, SameDisk DEF EndStep
<1>7. CASE Flush
  <2>1. vmId' = vmId /\ disk' = disk /\ image' = image /\ hook' = hook /\ split' = split
      /\ cloned' = cloned
    BY <1>7 DEF Flush
  <2>2. ASSUME Tracked, NEW s \in Sectors
        PROVE  disk'[s] = Overlay(1)'[s] \/ BlockOf(s) \in dirty'
    <3>0. image = disk
      BY <2>2 DEF Tracking, Tracked
    <3>1. rows'[1][s] = IF BlockOf(s) \in Batch THEN image[s] ELSE rows[1][s]
      BY <1>0, <1>7, DiskAssumption DEF Flush, DiskTypeOK
    <3>2. disk[s] \in Contents
      BY <1>0 DEF DiskTypeOK, Image
    <3>3. CASE BlockOf(s) \in Batch
      BY <2>1, <3>0, <3>1, <3>2, <3>3, DiskAssumption DEF Overlay
    <3>4. CASE BlockOf(s) \notin Batch
      <4>1. Overlay(1)'[s] = Overlay(1)[s]
        BY <3>1, <3>4 DEF Overlay
      <4>2. BlockOf(s) \in dirty => BlockOf(s) \in dirty'
        BY <1>7, <3>4 DEF Flush
      <4> QED
        BY <2>1, <2>2, <4>1, <4>2
        DEF Tracking, TrackedIsMarked, Tracked, UnstoredIsMarked
    <3> QED
      BY <3>3, <3>4
  <2>3. TrackedIsMarked'
    BY <2>1, <2>2 DEF TrackedIsMarked, Tracked, UnstoredIsMarked, BlockOf
  <2> QED
    BY <1>0, <2>1, <2>3 DEF Tracking
<1>8. CASE FlushError
  BY <1>0, <1>8, SameDisk DEF FlushError
<1>9. CASE Halt
  BY <1>0, <1>9, SameDisk DEF Halt
<1>10. CASE Crash
  BY <1>0, <1>10, SameDisk DEF Crash
<1>11. ASSUME NEW v \in Vms, StateSave(v) PROVE Tracking'
  BY <1>0, <1>11, SameDisk DEF StateSave
<1>12. CASE StateReset
  BY <1>0, <1>12, SameDisk DEF StateReset
<1>13. ASSUME NEW src \in Vms, NEW dst \in Vms, SnapshotCreate(src, dst)
       PROVE  Tracking'
  <2>1. UNCHANGED <<vmId, disk, image, split, dirty, hook>>
    BY <1>13 DEF SnapshotCreate
  <2>2. CASE dst = vmId
    <3>1. cloned'
      BY <1>13, <2>2, Zenon DEF SnapshotCreate
    <3>2. TrackedIsMarked'
      BY <3>1 DEF TrackedIsMarked, Tracked
    <3> QED
      BY <1>0, <2>1, <3>2 DEF Tracking
  <2>3. CASE dst # vmId
    <3>1. rows'[vmId] = rows[vmId] /\ cloned' = cloned
      BY <1>0, <1>13, <2>3 DEF SnapshotCreate, DiskTypeOK
    <3>2. \A s \in Sectors : Overlay(vmId)'[s] = Overlay(vmId)[s]
      BY <2>1, <3>1 DEF Overlay
    <3>3. TrackedIsMarked'
      BY <2>1, <3>1, <3>2
      DEF Tracking, TrackedIsMarked, Tracked, UnstoredIsMarked, BlockOf
    <3> QED
      BY <1>0, <2>1, <3>3 DEF Tracking
  <2> QED
    BY <2>2, <2>3
<1>14. CASE UNCHANGED diskVars
  BY <1>0, <1>14, SameDisk DEF diskVars
<1> QED
  BY <1>1, <1>2, <1>3, <1>4, <1>5, <1>6, <1>7, <1>8, <1>9, <1>10, <1>11, <1>12,
     <1>13, <1>14 DEF DiskNext

\* For every disk size, block size and flush limit, and however writes,
\* partial flushes, boots, halts, resets and failures follow each other: what
\* a boot would not bring back is still marked, unless the worker has lost
\* track of the disk.
THEOREM NothingForgotten == DiskSpec => []TrackedIsMarked
<1>1. DiskInit => Tracking
  BY InitTracking
<1>2. Tracking /\ [DiskNext]_diskVars => Tracking'
  BY NextTracking
<1>3. Tracking => TrackedIsMarked
  BY DEF Tracking
<1> QED
  BY <1>1, <1>2, <1>3, PTL DEF DiskSpec

\* A boot therefore gives the guest back every sector of a block that was not
\* marked when the machine ended.
THEOREM RebootIsFaithful == DiskSpec => RebootKeepsStored
<1>1. Tracking /\ [DiskNext]_diskVars =>
          [\A v \in Vms : Boot(v) /\ v = vmId /\ Tracked =>
             \A s \in Sectors : disk'[s] = disk[s] \/ BlockOf(s) \in dirty]_diskVars
  <2> SUFFICES ASSUME Tracking, NEW v \in Vms, Boot(v), v = vmId, Tracked,
                      NEW s \in Sectors
               PROVE  disk'[s] = disk[s] \/ BlockOf(s) \in dirty
    OBVIOUS
  <2>1. disk'[s] = Overlay(vmId)[s]
    BY DEF Boot
  <2> QED
    BY <2>1 DEF Tracking, TrackedIsMarked, UnstoredIsMarked
<1>2. DiskInit => Tracking
  BY InitTracking
<1>3. Tracking /\ [DiskNext]_diskVars => Tracking'
  BY NextTracking
<1> QED
  BY <1>1, <1>2, <1>3, PTL DEF DiskSpec, RebootKeepsStored

=============================================================================

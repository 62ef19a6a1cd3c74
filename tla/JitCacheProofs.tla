--------------------------- MODULE JitCacheProofs ---------------------------
(***************************************************************************)
(* Proofs about JitCache, for every number of pages, size of page, cache   *)
(* and block, program and set of page tables: type correctness, that the   *)
(* cached blocks are the program and obey their configuration, that        *)
(* requests are applied, and that a block resumes where it left.           *)
(***************************************************************************)
EXTENDS JitCache, WellFoundedInduction, TLAPS

-----------------------------------------------------------------------------
(* The largest of a bounded set of numbers, by which a block's length is   *)
(* defined.                                                                *)

LEMMA LeastOf ==
    ASSUME NEW T, T \subseteq Nat, T # {}
    PROVE  \E x \in T : \A y \in T : x <= y
<1> DEFINE R == OpToRel(<, Nat)
<1>1. IsWellFoundedOn(R, Nat)
  BY NatLessThanWellFounded
<1>2. \A x, y \in Nat : <<y, x>> \in R <=> y < x
  BY DEF OpToRel
<1> HIDE DEF R
<1>3. PICK x \in T : \A y \in T : ~(<<y, x>> \in R)
  BY <1>1, WFMin
<1>4. ASSUME NEW y \in T PROVE x <= y
  <2>1. x \in Nat /\ y \in Nat
    OBVIOUS
  <2>2. ~(y < x)
    BY <1>2, <1>3, <2>1, Zenon
  <2> QED
    BY <2>1, <2>2
<1> QED
  BY <1>4

LEMMA MaxOf ==
    ASSUME NEW L \in Nat, NEW T, T \subseteq 0 .. L, T # {}
    PROVE  Max(T) \in T /\ \A y \in T : y <= Max(T)
<1> DEFINE U == {v \in Nat : \E x \in T : v = L - x}
<1>1. U \subseteq Nat /\ U # {}
  <2>1. PICK x : x \in T
    OBVIOUS
  <2>2. L - x \in U
    BY <2>1
  <2> QED
    BY <2>2
<1>2. PICK u \in U : \A v \in U : u <= v
  BY <1>1, LeastOf
<1>3. PICK x \in T : u = L - x
  OBVIOUS
<1>4. ASSUME NEW y \in T PROVE x >= y
  <2>1. L - y \in U
    OBVIOUS
  <2>2. L - x <= L - y
    BY <1>2, <1>3, <2>1
  <2> QED
    BY <2>2
<1>5. \E z \in T : \A y \in T : z >= y
  BY <1>4
<1>6. Max(T) \in T /\ \A y \in T : Max(T) >= y
  BY <1>5 DEF Max
<1> QED
  BY <1>6

-----------------------------------------------------------------------------
(* Pages and places.                                                       *)

LEMMA Times ==
    ASSUME NEW i \in Nat, NEW j \in Nat, NEW k \in Nat, i <= j
    PROVE  i * k <= j * k /\ i * k \in Nat
  OBVIOUS

\* The page of an address, and its place in any frame.
LEMMA PageOfAddr ==
    ASSUME NEW a \in Addrs
    PROVE  PageOf(a) \in Pages
<1>0. NumPages \in Nat /\ NumPages > 0 /\ PageLen \in Nat /\ PageLen > 0
  BY JitAssumption
<1> DEFINE p == a \div PageLen
           n == NumPages * PageLen
<1>1. n \in Nat /\ a \in 0 .. (n - 1)
  BY <1>0 DEF Addrs
<1>2. p \in Nat /\ p * PageLen \in Nat /\ p * PageLen <= a
  BY <1>0, <1>1
<1> HIDE DEF p
<1>3. p < NumPages
  <2> SUFFICES ASSUME p >= NumPages PROVE FALSE
    BY <1>0, <1>2
  <2>1. NumPages * PageLen <= p * PageLen
    BY <1>0, <1>2, Times
  <2>2. n <= p * PageLen
    BY <2>1
  <2> HIDE DEF n
  <2> QED
    BY <1>1, <1>2, <2>2
<1> QED
  BY <1>0, <1>2, <1>3 DEF p, PageOf, Pages

LEMMA PlaceIsAddr ==
    ASSUME NEW f \in Pages, NEW a \in Addrs
    PROVE  Place(f, a) \in Addrs
<1>0. NumPages \in Nat /\ NumPages > 0 /\ PageLen \in Nat /\ PageLen > 0
  BY JitAssumption
<1>1. f \in Nat /\ f + 1 <= NumPages
  BY <1>0 DEF Pages
<1>2. a % PageLen \in 0 .. (PageLen - 1)
  BY <1>0 DEF Addrs
<1>3. f * PageLen \in Nat /\ (f + 1) * PageLen <= NumPages * PageLen
  BY <1>0, <1>1, Times
<1>4. (f + 1) * PageLen = f * PageLen + PageLen
  BY <1>0, <1>1
<1> QED
  BY <1>0, <1>2, <1>3, <1>4 DEF Place, Addrs

-----------------------------------------------------------------------------
(* What is compiled.                                                       *)

Indices == 0 .. (CacheSize - 1)
Block == [start : Addrs \cup {-1}, ops : Seq(Kinds \ {"sys"})]

LEMMA LimitIsNat ==
    ASSUME TypeOK
    PROVE  Limit \in Nat
  BY JitAssumption DEF TypeOK, Limit

\* The length of a block is the largest that fits.
LEMMA CompiledLength ==
    ASSUME TypeOK, NEW v, NEW first
    PROVE  \E len \in 0 .. Limit :
              /\ Compiled(v, first) = [i \in 1 .. len |-> Emit(Fetch(v, first + i - 1))]
              /\ \A i \in 1 .. len : /\ Compilable(v, first + i - 1)
                                     /\ i < len => ~EndsBlock(v, first, i)
<1> DEFINE fits(n) == \A i \in 1 .. n : /\ Compilable(v, first + i - 1)
                                        /\ i < n => ~EndsBlock(v, first, i)
           T == {n \in 0 .. Limit : fits(n)}
<1>1. Limit \in Nat
  BY LimitIsNat
<1>2. 0 \in T
  BY <1>1
<1>3. T \subseteq 0 .. Limit /\ T # {}
  BY <1>2
<1>4. Max(T) \in T
  BY <1>1, <1>3, MaxOf
<1>5. Compiled(v, first) = [i \in 1 .. Max(T) |-> Emit(Fetch(v, first + i - 1))]
  BY DEF Compiled
<1>6. Max(T) \in 0 .. Limit /\ fits(Max(T))
  BY <1>4
<1> QED
  BY <1>5, <1>6

\* A view gives each page a frame it has had, or none.
LEMMA ViewFacts ==
    ASSUME TypeOK, NEW v \in Views
    PROVE  /\ \A p \in Pages : v[p] \in Pages \cup {NoPage}
           /\ \A p \in Pages : v[p] = Frame(map, paged, p) \/ v[p] \in seen[p] \ {NoPage}
  BY DEF Views

\* The words behind a compiled block: what the view shows at each address.
LEMMA CompiledFacts ==
    ASSUME TypeOK, NEW v \in Views, NEW first \in Addrs
    PROVE  LET b == Compiled(v, first)
           IN  /\ b \in Seq(Kinds \ {"sys"}) /\ Len(b) <= Limit
               /\ \A k \in 1 .. Len(b) :
                     /\ first + k - 1 \in Addrs
                     /\ v[PageOf(first + k - 1)] \in Pages
                     /\ b[k] = Emit(code[Place(v[PageOf(first + k - 1)], first + k - 1)])
                     /\ b[k] \notin disabled
                     /\ k < Len(b) => b[k] # "jump"
<1> DEFINE b == Compiled(v, first)
<1>1. PICK len \in 0 .. Limit :
         /\ b = [i \in 1 .. len |-> Emit(Fetch(v, first + i - 1))]
         /\ \A i \in 1 .. len : /\ Compilable(v, first + i - 1)
                                /\ i < len => ~EndsBlock(v, first, i)
  BY CompiledLength
<1> HIDE DEF b
<1>2. Limit \in Nat /\ len \in Nat /\ len <= Limit
  BY LimitIsNat
<1>3. ASSUME NEW k \in 1 .. len
      PROVE  /\ first + k - 1 \in Addrs /\ v[PageOf(first + k - 1)] \in Pages
             /\ b[k] = Emit(code[Place(v[PageOf(first + k - 1)], first + k - 1)])
             /\ b[k] \in Kinds \ {"sys"} /\ b[k] \notin disabled
             /\ k < len => b[k] # "jump"
  <2> DEFINE a == first + k - 1
  <2>1. Compilable(v, a) /\ (k < len => ~EndsBlock(v, first, k)) /\ b[k] = Emit(Fetch(v, a))
    BY <1>1
  <2>2. k < len => Fetch(v, a) # "jump"
    BY <2>1 DEF EndsBlock
  <2> HIDE DEF a
  <2>3. a \in Addrs /\ v[PageOf(a)] # NoPage
    BY <2>1 DEF Compilable, Fetchable
  <2>4. v[PageOf(a)] \in Pages
    BY <2>3, PageOfAddr, ViewFacts
  <2>5. Place(v[PageOf(a)], a) \in Addrs
    BY <2>3, <2>4, PlaceIsAddr
  <2>6. Fetch(v, a) \in Kinds
    BY <2>5 DEF Fetch, TypeOK
  <2>7. b[k] \in Kinds \ {"sys"} /\ b[k] \notin disabled /\ (k < len => b[k] # "jump")
    BY <2>1, <2>2, <2>6 DEF Compilable, Emit, Opcode, Kinds
  <2>8. b[k] = Emit(code[Place(v[PageOf(a)], a)])
    BY <2>1 DEF Fetch
  <2> QED
    BY <2>3, <2>4, <2>7, <2>8 DEF a
<1>4. b \in Seq(Kinds \ {"sys"}) /\ Len(b) = len
  <2>1. b \in [1 .. len -> Kinds \ {"sys"}]
    BY <1>1, <1>3
  <2> QED
    BY <1>2, <2>1
<1> QED
  BY <1>2, <1>3, <1>4 DEF b

-----------------------------------------------------------------------------
(* Type correctness.                                                       *)

\* The instructions of a block are at addresses.
InMemory == \A i \in Indices : \A k \in 1 .. Len(cache[i].ops) : cache[i].start + k - 1 \in Addrs

LEMMA NoBlocksFacts ==
    /\ NoBlocks \in [Indices -> Block]
    /\ \A i \in Indices : NoBlocks[i].start = -1 /\ Len(NoBlocks[i].ops) = 0
  BY DEF NoBlocks, Indices, Block, Invalid

LEMMA SlotIsIndex ==
    ASSUME NEW a \in Addrs
    PROVE  Slot(a) \in Indices
  BY JitAssumption DEF Addrs, Slot, Indices

LEMMA FrameIsPage ==
    ASSUME NEW m \in Maps, NEW on \in BOOLEAN, NEW p \in Pages
    PROVE  Frame(m, on, p) \in Pages \cup {NoPage}
<1>1. m \in [Pages -> Pages \cup {NoPage}]
  BY JitAssumption
<1> QED
  BY <1>1 DEF Frame

\* A store, or none, keeps types; a word changes only if it grows stale.
LEMMA StoreEffect ==
    ASSUME TypeOK, Store \/ NoStore
    PROVE  /\ code' \in [Addrs -> Kinds] /\ map' \in Maps /\ stale' \subseteq Addrs
           /\ changes' \in 0 .. MaxChanges
           /\ \A a \in Addrs \ stale' : a \notin stale /\ code'[a] = code[a]
<1>1. CASE NoStore
  BY <1>1 DEF NoStore, TypeOK
<1>2. CASE Store /\ ~NoStore
  <2>1. changes' \in 0 .. MaxChanges
    BY <1>2, JitAssumption DEF Store, TypeOK
  <2>2. CASE map' \in Maps /\ UNCHANGED <<code, stale>>
    BY <2>1, <2>2 DEF TypeOK
  <2>3. ASSUME NEW a \in Addrs, NEW w \in {"add", "jump"}, code' = [code EXCEPT ![a] = w],
               stale' = stale \cup {a}, UNCHANGED map
        PROVE  /\ code' \in [Addrs -> Kinds] /\ map' \in Maps /\ stale' \subseteq Addrs
               /\ \A x \in Addrs \ stale' : x \notin stale /\ code'[x] = code[x]
    BY <2>3 DEF TypeOK, Kinds
  <2>4. \/ map' \in Maps /\ UNCHANGED <<code, stale>>
        \/ \E a \in Addrs, w \in {"add", "jump"} :
              code' = [code EXCEPT ![a] = w] /\ stale' = stale \cup {a} /\ UNCHANGED map
    BY <1>2 DEF Store
  <2> QED
    BY <2>1, <2>2, <2>3, <2>4
<1> QED
  BY <1>1, <1>2

\* Frames are added to those a page has had.
LEMMA TrackEffect ==
    ASSUME TypeOK, Track, map' \in Maps, paged' \in BOOLEAN
    PROVE  /\ seen' \in [Pages -> SUBSET (Pages \cup {NoPage})]
           /\ \A p \in Pages : seen[p] \subseteq seen'[p] /\ Frame(map', paged', p) \in seen'[p]
<1>1. \A p \in Pages : /\ Frame(map', paged, p) \in Pages \cup {NoPage}
                       /\ Frame(map', paged', p) \in Pages \cup {NoPage}
  BY FrameIsPage DEF TypeOK
<1> QED
  BY <1>1 DEF Track, TypeOK

LEMMA FlushEffect ==
    ASSUME TypeOK, TlbFlush, map' \in Maps
    PROVE  /\ seen' \in [Pages -> SUBSET (Pages \cup {NoPage})] /\ cache' = NoBlocks
           /\ \A p \in Pages : Frame(map', paged, p) \in seen'[p]
<1>1. \A p \in Pages : Frame(map', paged, p) \in Pages \cup {NoPage}
  BY FrameIsPage DEF TypeOK
<1> QED
  BY <1>1 DEF TlbFlush

\* The machine's variables and those a step of it touches.
MachineOK ==
    /\ code \in [Addrs -> Kinds] /\ map \in Maps /\ paged \in BOOLEAN
    /\ pc \in Addrs \cup {NumPages * PageLen}
    /\ seen \in [Pages -> SUBSET (Pages \cup {NoPage})] /\ stale \subseteq Addrs
    /\ changes \in 0 .. MaxChanges

\* A step that adds to what the cache may have been compiled from, but takes
\* nothing away.
Keeps ==
    /\ cache' = cache
    /\ \A p \in Pages : seen[p] \subseteq seen'[p]
    /\ \A a \in Addrs \ stale' : a \notin stale /\ code'[a] = code[a]

\* Each page has been seen in the frame it has now.
SeenNow == \A p \in Pages : Frame(map, paged, p) \in seen[p]

LEMMA ZeroIsAddr == 0 \in Addrs
<1>1. NumPages \in Nat /\ NumPages >= 1 /\ PageLen \in Nat /\ PageLen >= 1
  BY JitAssumption
<1>2. 1 * PageLen <= NumPages * PageLen
  BY <1>1, Times
<1> QED
  BY <1>1, <1>2 DEF Addrs

\* The address behind one that is fetched from.
LEMMA NextAddr ==
    ASSUME NEW a \in Addrs
    PROVE  a + 1 \in Addrs \cup {NumPages * PageLen}
<1> DEFINE n == NumPages * PageLen
<1>1. n \in Nat
  BY JitAssumption
<1> HIDE DEF n
<1>2. a \in 0 .. (n - 1)
  BY DEF n, Addrs
<1>3. a + 1 \in 0 .. (n - 1) \/ a + 1 = n
  BY <1>1, <1>2
<1> QED
  BY <1>3 DEF n, Addrs

LEMMA SystemEffect ==
    ASSUME TypeOK, SeenNow, pc \in Addrs, System
    PROVE  MachineOK' /\ SeenNow' /\ (Keeps \/ cache' = NoBlocks)
<1>0. pc + 1 \in Addrs \cup {NumPages * PageLen}
  BY NextAddr
<1>1. CASE /\ cache' = NoBlocks /\ stale' = {} /\ pc' = pc + 1
           /\ UNCHANGED <<code, map, paged, seen, changes>>
  BY <1>0, <1>1 DEF TypeOK, MachineOK, SeenNow
<1>2. CASE /\ map' \in Maps /\ TlbFlush /\ stale' = {} /\ pc' = pc + 1
           /\ UNCHANGED <<code, paged, changes>>
  <2>1. /\ seen' \in [Pages -> SUBSET (Pages \cup {NoPage})] /\ cache' = NoBlocks
        /\ \A p \in Pages : Frame(map', paged, p) \in seen'[p]
    BY <1>2, FlushEffect
  <2> QED
    BY <1>0, <1>2, <2>1 DEF TypeOK, MachineOK, SeenNow
<1>3. CASE paged' \in BOOLEAN /\ pc' \in Addrs /\ NoStore /\ Track /\ UNCHANGED cache
  <2>1. map' \in Maps
    BY <1>3, StoreEffect
  <2>2. /\ seen' \in [Pages -> SUBSET (Pages \cup {NoPage})]
        /\ \A p \in Pages : seen[p] \subseteq seen'[p] /\ Frame(map', paged', p) \in seen'[p]
    BY <1>3, <2>1, TrackEffect
  <2> QED
    BY <1>3, <2>2, StoreEffect DEF MachineOK, SeenNow, Keeps
<1>4. CASE pc' = pc + 1 /\ Store /\ UNCHANGED <<paged, cache>> /\ Track
  <2>1. map' \in Maps /\ paged' \in BOOLEAN
    BY <1>4, StoreEffect DEF TypeOK
  <2>2. /\ seen' \in [Pages -> SUBSET (Pages \cup {NoPage})]
        /\ \A p \in Pages : seen[p] \subseteq seen'[p] /\ Frame(map', paged', p) \in seen'[p]
    BY <1>4, <2>1, TrackEffect
  <2> QED
    BY <1>0, <1>4, <2>1, <2>2, StoreEffect DEF MachineOK, SeenNow, Keeps
<1> QED
  BY <1>1, <1>2, <1>3, <1>4 DEF System

\* Where a block leaves pc.
LEMMA ContinueInMemory ==
    ASSUME TypeOK, InMemory, pc \in Addrs, cache[Slot(pc)].start = pc,
           cache[Slot(pc)].ops # <<>>, NEW n \in 0 .. Len(cache[Slot(pc)].ops),
           NEW q \in Continue(pc, cache[Slot(pc)].ops, n)
    PROVE  q \in Addrs \cup {NumPages * PageLen}
<1> DEFINE ops == cache[Slot(pc)].ops
<1>1. ops \in Seq(Kinds \ {"sys"}) /\ \A k \in 1 .. Len(ops) : pc + k - 1 \in Addrs
  BY SlotIsIndex DEF TypeOK, InMemory, Indices
<1>2. Len(ops) \in Nat /\ Len(ops) > 0 /\ pc \in Int
  BY <1>1 DEF Addrs
<1>3. q \in Addrs \/ q = pc + n \/ (n = Len(ops) /\ q = pc + n - 1)
  BY <1>2 DEF Continue
<1> HIDE DEF ops
<1>4. CASE n = Len(ops)
  <2>1. pc + n - 1 \in Addrs
    BY <1>1, <1>2, <1>4
  <2>2. pc + n = (pc + n - 1) + 1
    BY <1>2, <1>4
  <2>3. pc + n \in Addrs \cup {NumPages * PageLen}
    BY <2>1, <2>2, NextAddr
  <2> QED
    BY <1>3, <2>1, <2>3
<1>5. CASE n # Len(ops)
  <2>1. n + 1 \in 1 .. Len(ops) /\ pc + (n + 1) - 1 = pc + n
    BY <1>2, <1>5 DEF ops
  <2>2. pc + n \in Addrs
    BY <1>1, <2>1
  <2> QED
    BY <1>3, <1>5, <2>2
<1> QED
  BY <1>4, <1>5

\* What any step does: it keeps the types, and it keeps the cache, empties it
\* or compiles a block.
LEMMA StepEffect ==
    ASSUME TypeOK, InMemory, SeenNow, [Next]_vars
    PROVE  /\ TypeOK' /\ SeenNow'
           /\ (Keeps /\ UNCHANGED config) \/ cache' = NoBlocks \/ (Compile /\ UNCHANGED config)
<1> DEFINE Goal == /\ TypeOK' /\ SeenNow'
                   /\ \/ Keeps /\ UNCHANGED config
                      \/ cache' = NoBlocks
                      \/ Compile /\ UNCHANGED config
<1> SUFFICES Goal
  OBVIOUS
<1>0. cache \in [Indices -> Block]
  BY DEF TypeOK, Indices, Block
<1>a. ASSUME UNCHANGED <<config, request, wpc>>, MachineOK', cache' \in [Indices -> Block]
      PROVE  TypeOK'
  BY <1>a DEF config, request, TypeOK, MachineOK, Indices, Block
<1>b. ASSUME UNCHANGED <<machine, seen, stale>> PROVE SeenNow' /\ (cache' = cache => Keeps)
  BY <1>b DEF machine, SeenNow, Keeps
\* the machine moves on
<1>c. ASSUME UNCHANGED <<cache, config, request, wpc>>, Store \/ NoStore, Track,
             paged' \in BOOLEAN, pc' \in Addrs \cup {NumPages * PageLen}
      PROVE  Goal
  <2>1. map' \in Maps
    BY <1>c, StoreEffect
  <2>2. /\ seen' \in [Pages -> SUBSET (Pages \cup {NoPage})]
        /\ \A p \in Pages : seen[p] \subseteq seen'[p] /\ Frame(map', paged', p) \in seen'[p]
    BY <1>c, <2>1, TrackEffect
  <2>3. MachineOK' /\ SeenNow' /\ Keeps
    BY <1>c, <2>2, StoreEffect DEF MachineOK, SeenNow, Keeps
  <2> QED
    BY <1>0, <1>a, <1>c, <2>3
<1>1. CASE Compile
  <2>1. PICK v \in Views :
           cache' = [cache EXCEPT ![Slot(pc)] = [start |-> pc, ops |-> Compiled(v, pc)]]
    BY <1>1 DEF Compile
  <2>2. pc \in Addrs /\ UNCHANGED <<machine, config, request, wpc, seen, stale, changes>>
    BY <1>1 DEF Compile
  <2>3. Compiled(v, pc) \in Seq(Kinds \ {"sys"})
    BY <2>2, CompiledFacts
  <2>4. [start |-> pc, ops |-> Compiled(v, pc)] \in Block
    BY <2>2, <2>3 DEF Block
  <2>5. cache' \in [Indices -> Block]
    BY <1>0, <2>1, <2>4
  <2>6. MachineOK'
    BY <2>2 DEF MachineOK, TypeOK, machine
  <2> QED
    BY <1>1, <1>a, <1>b, <2>2, <2>5, <2>6
<1>2. CASE RunBlock
  <2> DEFINE ops == cache[Slot(pc)].ops
  <2>1. /\ UNCHANGED <<cache, config, request, wpc>> /\ pc \in Addrs
        /\ cache[Slot(pc)].start = pc /\ ops # <<>>
    BY <1>2 DEF RunBlock
  <2>2. PICK n \in 0 .. Len(ops) :
           /\ \/ pc' \in Continue(pc, ops, n) /\ UNCHANGED paged
              \/ pc' \in Addrs /\ paged' \in BOOLEAN
           /\ (Store \/ NoStore) /\ Track
    BY <1>2 DEF RunBlock
  <2>3. paged' \in BOOLEAN
    BY <2>2 DEF TypeOK
  <2>4. pc' \in Addrs \cup {NumPages * PageLen}
    BY <2>1, <2>2, ContinueInMemory
  <2> QED
    BY <1>c, <2>1, <2>2, <2>3, <2>4
<1>3. CASE Interpret
  <2>1. UNCHANGED <<config, request, wpc>>
    BY <1>3 DEF Interpret
  <2>2. PICK v \in Views :
           /\ Fetchable(v, pc)
           /\ \/ System
              \/ /\ pc' \in Addrs \/ pc' = pc + 1
                 /\ (Store \/ NoStore) /\ UNCHANGED <<paged, cache>> /\ Track
    BY <1>3 DEF Interpret
  <2>3. pc \in Addrs /\ pc + 1 \in Addrs \cup {NumPages * PageLen}
    BY <2>2, NextAddr DEF Fetchable
  <2>4. CASE System
    <3>1. MachineOK' /\ SeenNow' /\ (Keeps \/ cache' = NoBlocks)
      BY <2>3, <2>4, SystemEffect
    <3>2. cache' \in [Indices -> Block]
      BY <1>0, <3>1, NoBlocksFacts DEF Keeps
    <3> QED
      BY <1>a, <2>1, <3>1, <3>2 DEF config
  <2>5. CASE /\ pc' \in Addrs \/ pc' = pc + 1
             /\ (Store \/ NoStore) /\ UNCHANGED <<paged, cache>> /\ Track
    <3>1. paged' \in BOOLEAN /\ pc' \in Addrs \cup {NumPages * PageLen}
      BY <2>3, <2>5 DEF TypeOK
    <3> QED
      BY <1>c, <2>1, <2>5, <3>1
  <2> QED
    BY <2>2, <2>4, <2>5
<1>4. CASE Trap
  BY <1>4, <1>c DEF Trap
<1>5. ASSUME NEW n \in Sizes \cup {0}, AskSize(n) PROVE Goal
  <2>1. UNCHANGED <<machine, cache, config, opsReq, opsDirty, wpc, seen, stale>>
    BY <1>5 DEF AskSize
  <2>2. /\ sizeReq' = n /\ wanted' = n /\ raced' \in BOOLEAN /\ changes' \in 0 .. MaxChanges
        /\ forgot' \subseteq {"size", "ops"}
    BY <1>5, JitAssumption DEF AskSize, TypeOK
  <2>3. TypeOK'
    BY <2>1, <2>2 DEF TypeOK, machine, config
  <2> QED
    BY <1>b, <2>1, <2>3
<1>6. ASSUME NEW ops \in SUBSET {"add", "mem"}, AskOps(ops) PROVE Goal
  <2>1. UNCHANGED <<machine, cache, config, sizeReq, wanted, wpc, seen, stale>>
    BY <1>6 DEF AskOps
  <2>2. /\ opsReq' = ops /\ opsDirty' = TRUE /\ raced' \in BOOLEAN /\ changes' \in 0 .. MaxChanges
        /\ forgot' \subseteq {"size", "ops"}
    BY <1>6, JitAssumption DEF AskOps, TypeOK
  <2>3. ops \subseteq Kinds
    BY DEF Kinds
  <2>4. TypeOK'
    BY <2>1, <2>2, <2>3 DEF TypeOK, machine, config
  <2> QED
    BY <1>b, <2>1, <2>4
<1>7. CASE ReadSize
  <2>1. UNCHANGED <<machine, jit, disabled, request, seen, changes>>
    BY <1>7 DEF ReadSize
  <2>2. \/ sizeReq >= 0 /\ wpc' = "sized" /\ rtMax' = sizeReq /\ cache' = NoBlocks /\ stale' = {}
        \/ wpc' = "ops" /\ UNCHANGED <<rtMax, cache, stale>>
    BY <1>7 DEF ReadSize
  <2>3. SeenNow'
    BY <2>1 DEF SeenNow, machine
  <2>4. rtMax' \in Sizes \cup {0} /\ cache' \in [Indices -> Block] /\ stale' \subseteq Addrs
    BY <1>0, <2>2, NoBlocksFacts DEF TypeOK
  <2>5. wpc' \in {"sized", "ops"}
    BY <2>2
  <2>6. TypeOK'
    BY <2>1, <2>4, <2>5 DEF TypeOK, machine, request, Indices, Block
  <2> QED
    BY <1>b, <2>1, <2>2, <2>3, <2>6 DEF config
<1>8. CASE ReadOps
  <2>1. UNCHANGED <<machine, jit, rtMax, request, seen, changes>>
    BY <1>8 DEF ReadOps
  <2>2. \/ wpc' = "opsRead" /\ disabled' = opsReq /\ cache' = NoBlocks /\ stale' = {}
        \/ wpc' = "run" /\ UNCHANGED <<disabled, cache, stale>>
    BY <1>8 DEF ReadOps
  <2>3. SeenNow'
    BY <2>1 DEF SeenNow, machine
  <2>4. disabled' \subseteq Kinds /\ cache' \in [Indices -> Block] /\ stale' \subseteq Addrs
    BY <1>0, <2>2, NoBlocksFacts DEF TypeOK
  <2>5. wpc' \in {"opsRead", "run"}
    BY <2>2
  <2>6. TypeOK'
    BY <2>1, <2>4, <2>5 DEF TypeOK, machine, request, Indices, Block
  <2> QED
    BY <1>b, <2>1, <2>2, <2>3, <2>6 DEF config
<1>9. CASE ResetSize \/ ResetOps \/ EndStep
  <2>1. /\ UNCHANGED <<machine, cache, config, opsReq, wanted, raced, forgot, seen, stale, changes>>
        /\ wpc' \in {"ops", "run", "idle"} /\ opsDirty' \in {opsDirty, FALSE}
        /\ sizeReq' \in {sizeReq, -1}
    BY <1>9 DEF ResetSize, ResetOps, EndStep, request
  <2>2. TypeOK'
    BY <2>1 DEF TypeOK, machine, config
  <2> QED
    BY <1>b, <2>1, <2>2
<1>10. CASE Boot
  <2>a. code' \in [Addrs -> Kinds] /\ map' \in Maps
    BY <1>10, JitAssumption DEF Boot
  <2>b. paged' \in BOOLEAN
    BY <1>10, Zenon DEF Boot
  <2>c. changes' \in 0 .. MaxChanges
    BY <1>10, JitAssumption DEF Boot, TypeOK
  <2>1. /\ code' \in [Addrs -> Kinds] /\ map' \in Maps /\ paged' \in BOOLEAN
        /\ changes' \in 0 .. MaxChanges
    BY <2>a, <2>b, <2>c
  <2>2. pc' \in Addrs /\ jit' \in BOOLEAN
    BY <1>10, ZeroIsAddr DEF Boot
  <2>3. \A p \in Pages : Frame(map', paged', p) \in Pages \cup {NoPage}
    BY <2>1, FrameIsPage
  <2>4. seen' \in [Pages -> SUBSET (Pages \cup {NoPage})] /\ SeenNow'
    BY <1>10, <2>3 DEF Boot, SeenNow
  <2>5. /\ cache' = NoBlocks /\ rtMax' = 0 /\ disabled' = {} /\ stale' = {}
        /\ forgot' \subseteq {"size", "ops"}
        /\ UNCHANGED <<sizeReq, opsReq, opsDirty, wanted, raced, wpc>>
    BY <1>10 DEF Boot
  <2>6. cache' \in [Indices -> Block]
    BY <2>5, NoBlocksFacts
  <2>7. TypeOK'
    BY <2>1, <2>2, <2>4, <2>5, <2>6 DEF TypeOK, Indices, Block
  <2> QED
    BY <2>4, <2>5, <2>7
<1>11. CASE FailedBoot
  <2>1. /\ code' \in [Addrs -> Kinds] /\ stale' = Addrs /\ changes' \in 0 .. MaxChanges
        /\ UNCHANGED <<map, paged, pc, cache, config, request, wpc, seen>>
    BY <1>11, JitAssumption DEF FailedBoot, TypeOK
  <2>2. TypeOK'
    BY <2>1 DEF TypeOK, config, request
  <2>3. SeenNow' /\ Keeps
    BY <2>1 DEF SeenNow, Keeps
  <2> QED
    BY <2>1, <2>2, <2>3
<1>12. CASE UNCHANGED vars
  <2>1. UNCHANGED <<machine, cache, config, request, wpc, seen, stale, changes>>
    BY <1>12 DEF vars
  <2>2. TypeOK'
    BY <2>1 DEF TypeOK, machine, config, request
  <2> QED
    BY <1>b, <2>1, <2>2
<1> QED
  BY <1>1, <1>2, <1>3, <1>4, <1>5, <1>6, <1>7, <1>8, <1>9, <1>10,
     <1>11, <1>12 DEF Next

-----------------------------------------------------------------------------
(* The blocks.                                                             *)

\* The page of the k-th instruction of block i has had a frame; if it has had
\* one only, and the word there is not stale, the instruction is that word.
CodeAt(i, k) ==
    LET a == cache[i].start + k - 1
        frames == seen[PageOf(a)] \ {NoPage}
    IN  /\ a \in Addrs /\ frames # {}
        /\ \A f \in frames : frames = {f} /\ Place(f, a) \notin stale =>
                                cache[i].ops[k] = Emit(code[Place(f, a)])

\* It is allowed by the configuration.
AllowedAt(i, k) ==
    /\ k <= Limit /\ cache[i].ops[k] \notin disabled
    /\ k < Len(cache[i].ops) => cache[i].ops[k] # "jump"

\* The inductive invariant of BlockIsCode and BlocksObeyConfig, with the types.
Blocks == \A i \in Indices : \A k \in 1 .. Len(cache[i].ops) : CodeAt(i, k) /\ AllowedAt(i, k)
BlockInv == TypeOK /\ SeenNow /\ Blocks

LEMMA BlocksInMemory == Blocks => InMemory
  BY DEF Blocks, InMemory, CodeAt

\* A step that takes nothing away keeps an instruction what it is.
LEMMA KeepsCode ==
    ASSUME TypeOK, NEW i \in Indices, NEW k \in 1 .. Len(cache[i].ops), CodeAt(i, k),
           \A p \in Pages : seen[p] \subseteq seen'[p],
           \A a \in Addrs \ stale' : a \notin stale /\ code'[a] = code[a],
           cache'[i] = cache[i], TypeOK'
    PROVE  CodeAt(i, k)'
<1> DEFINE a == cache[i].start + k - 1
           p == PageOf(a)
           frames == seen[p] \ {NoPage}
           framesN == seen'[p] \ {NoPage}
<1>1. a \in Addrs /\ frames # {}
      /\ \A f \in frames : frames = {f} /\ Place(f, a) \notin stale =>
                              cache[i].ops[k] = Emit(code[Place(f, a)])
  BY DEF CodeAt
<1>2. a = cache'[i].start + k - 1
  OBVIOUS
<1> HIDE DEF a
<1>3. p \in Pages
  BY <1>1, PageOfAddr
<1>4. frames \subseteq framesN /\ framesN # {}
  BY <1>1, <1>3
<1>5. ASSUME NEW f \in framesN, framesN = {f}, Place(f, a) \notin stale'
      PROVE  cache[i].ops[k] = Emit(code'[Place(f, a)])
  <2>1. frames = {f}
    BY <1>1, <1>4, <1>5
  <2>2. f \in Pages
    BY <1>3, <1>5 DEF TypeOK
  <2>3. Place(f, a) \in Addrs
    BY <1>1, <2>2, PlaceIsAddr
  <2>4. Place(f, a) \notin stale /\ code'[Place(f, a)] = code[Place(f, a)]
    BY <1>5, <2>3
  <2> QED
    BY <1>1, <2>1, <2>4
<1>6. /\ a \in Addrs /\ framesN # {}
      /\ \A f \in framesN : framesN = {f} /\ Place(f, a) \notin stale' =>
                               cache'[i].ops[k] = Emit(code'[Place(f, a)])
  BY <1>1, <1>4, <1>5
<1> QED
  BY <1>2, <1>6 DEF CodeAt

LEMMA NextBlocks == BlockInv /\ [Next]_vars => BlockInv'
<1> SUFFICES ASSUME BlockInv, [Next]_vars PROVE BlockInv'
  OBVIOUS
<1>0. TypeOK /\ SeenNow /\ Blocks /\ InMemory
  BY BlocksInMemory DEF BlockInv
<1>1. /\ TypeOK' /\ SeenNow'
      /\ (Keeps /\ UNCHANGED config) \/ cache' = NoBlocks \/ (Compile /\ UNCHANGED config)
  BY <1>0, StepEffect
<1>2. CASE cache' = NoBlocks
  <2>1. \A i \in Indices : 1 .. Len(cache'[i].ops) = {}
    BY <1>2, NoBlocksFacts
  <2> QED
    BY <1>1, <2>1 DEF BlockInv, Blocks
<1>3. ASSUME UNCHANGED config, NEW i \in Indices, NEW k \in 1 .. Len(cache[i].ops),
             cache'[i] = cache[i]
      PROVE  AllowedAt(i, k)'
  BY <1>0, <1>3 DEF Blocks, AllowedAt, Limit, config
<1>4. CASE Keeps /\ UNCHANGED config
  <2> SUFFICES ASSUME NEW i \in Indices, NEW k \in 1 .. Len(cache'[i].ops)
               PROVE  CodeAt(i, k)' /\ AllowedAt(i, k)'
    BY <1>1 DEF BlockInv, Blocks
  <2>1. cache'[i] = cache[i] /\ k \in 1 .. Len(cache[i].ops)
    BY <1>4 DEF Keeps
  <2>2. CodeAt(i, k)
    BY <1>0, <2>1 DEF Blocks
  <2>3. CodeAt(i, k)'
    BY <1>0, <1>1, <1>4, <2>1, <2>2, KeepsCode DEF Keeps
  <2> QED
    BY <1>3, <1>4, <2>1, <2>3
<1>5. CASE Compile /\ UNCHANGED config
  <2>1. PICK v \in Views :
           cache' = [cache EXCEPT ![Slot(pc)] = [start |-> pc, ops |-> Compiled(v, pc)]]
    BY <1>5 DEF Compile
  <2>2. pc \in Addrs /\ UNCHANGED <<code, map, paged, pc, seen, stale>>
    BY <1>5 DEF Compile, machine
  <2> DEFINE c == Slot(pc)
             b == Compiled(v, pc)
  <2>3. /\ b \in Seq(Kinds \ {"sys"}) /\ Len(b) <= Limit
        /\ \A k \in 1 .. Len(b) :
              /\ pc + k - 1 \in Addrs
              /\ v[PageOf(pc + k - 1)] \in Pages
              /\ b[k] = Emit(code[Place(v[PageOf(pc + k - 1)], pc + k - 1)])
              /\ b[k] \notin disabled
              /\ k < Len(b) => b[k] # "jump"
    BY <1>0, <2>2, CompiledFacts
  <2>4. c \in Indices /\ cache'[c].start = pc /\ cache'[c].ops = b
        /\ \A i \in Indices \ {c} : cache'[i] = cache[i]
    BY <1>0, <2>1, <2>2, SlotIsIndex DEF TypeOK, Indices
  <2> HIDE DEF b
  <2>5. PICK d \in Indices : /\ d = c /\ cache'[d].start = pc /\ cache'[d].ops = b
                             /\ \A i \in Indices \ {d} : cache'[i] = cache[i]
    BY <2>4
  <2>6. ASSUME NEW k \in 1 .. Len(b) PROVE CodeAt(d, k)' /\ AllowedAt(d, k)'
    <3> DEFINE a == pc + k - 1
               f == v[PageOf(a)]
    <3>1. /\ a \in Addrs /\ f \in Pages /\ b[k] = Emit(code[Place(f, a)])
          /\ b[k] \notin disabled /\ (k < Len(b) => b[k] # "jump")
      BY <2>3
    <3>2. PageOf(a) \in Pages
      BY <3>1, PageOfAddr
    <3>3. a = cache'[d].start + k - 1
      BY <2>5
    <3> HIDE DEF a
    <3>4. f # NoPage
      BY <3>1, JitAssumption DEF Pages, NoPage
    <3>5. f \in seen[PageOf(a)] \ {NoPage}
      BY <1>0, <3>2, <3>4, ViewFacts DEF SeenNow
    <3> HIDE DEF f
    <3>6. /\ seen'[PageOf(a)] \ {NoPage} # {}
          /\ \A g \in seen'[PageOf(a)] \ {NoPage} :
                seen'[PageOf(a)] \ {NoPage} = {g} /\ Place(g, a) \notin stale' =>
                    b[k] = Emit(code'[Place(g, a)])
      BY <2>2, <3>1, <3>5
    <3>7. CodeAt(d, k)'
      BY <2>5, <3>1, <3>3, <3>6 DEF CodeAt
    <3>8. k <= Limit
      BY <1>0, <2>3, LimitIsNat
    <3>9. AllowedAt(d, k)'
      BY <1>5, <2>5, <3>1, <3>8 DEF AllowedAt, Limit, config
    <3> QED
      BY <3>7, <3>9
  <2>7. ASSUME NEW i \in Indices \ {d}, NEW k \in 1 .. Len(cache'[i].ops)
        PROVE  CodeAt(i, k)' /\ AllowedAt(i, k)'
    <3>1. cache'[i] = cache[i] /\ k \in 1 .. Len(cache[i].ops)
      BY <2>5
    <3>2. CodeAt(i, k)
      BY <1>0, <3>1 DEF Blocks
    <3>3. CodeAt(i, k)'
      BY <2>2, <3>1, <3>2 DEF CodeAt
    <3> QED
      BY <1>3, <1>5, <3>1, <3>3
  <2>8. \A i \in Indices : \A k \in 1 .. Len(cache'[i].ops) : CodeAt(i, k)' /\ AllowedAt(i, k)'
    BY <2>5, <2>6, <2>7
  <2> QED
    BY <1>1, <2>8 DEF BlockInv, Blocks
<1> QED
  BY <1>1, <1>2, <1>4, <1>5

LEMMA BlockInvHolds == Spec => []BlockInv
<1>1. Init => BlockInv
  <2> SUFFICES ASSUME Init PROVE BlockInv
    OBVIOUS
  <2>1. code \in [Addrs -> Kinds] /\ map \in Maps
    BY JitAssumption DEF Init
  <2>2. 0 \in Addrs
    BY ZeroIsAddr
  <2>3. cache \in [Indices -> Block] /\ \A i \in Indices : 1 .. Len(cache[i].ops) = {}
    BY NoBlocksFacts DEF Init
  <2>4. 0 \in 0 .. MaxChanges
    BY JitAssumption
  <2>5. seen \in [Pages -> SUBSET (Pages \cup {NoPage})] /\ SeenNow
    BY DEF Init, SeenNow, Frame
  <2>6. TypeOK
    BY <2>1, <2>2, <2>3, <2>4, <2>5 DEF Init, TypeOK, Indices, Block
  <2> QED
    BY <2>3, <2>5, <2>6 DEF BlockInv, Blocks
<1> QED
  BY <1>1, NextBlocks, PTL DEF Spec

\* The machine, the cache, the configuration, the requests and the worker keep
\* their types: pc never passes the end of memory, and a block holds only
\* instructions that the compiler knows.
THEOREM JitTypeCorrect == Spec => []TypeOK
<1>1. BlockInv => TypeOK
  BY DEF BlockInv
<1> QED
  BY <1>1, BlockInvHolds, PTL

LEMMA CachedIs ==
    ASSUME NEW si \in Cached
    PROVE  si[1] \in Indices /\ si[2] \in Nat /\ si[2] >= 1 /\ si[2] <= Len(cache[si[1]].ops)
  BY DEF Cached, Indices

\* Compiled code is the program, for a guest that fences as it must.
THEOREM BlocksAreTheProgram == Spec => []BlockIsCode
<1>1. BlockInv => BlockIsCode
  <2> SUFFICES ASSUME BlockInv, NEW si \in Cached
               PROVE  LET a == cache[si[1]].start + si[2] - 1
                          frames == seen[PageOf(a)] \ {NoPage}
                      IN  \A f \in frames : frames = {f} /\ Place(f, a) \notin stale =>
                             cache[si[1]].ops[si[2]] = Emit(code[Place(f, a)])
    BY DEF BlockIsCode
  <2>1. PICK i \in Indices, k \in Nat : /\ i = si[1] /\ k = si[2]
                                        /\ k >= 1 /\ k <= Len(cache[i].ops)
    BY CachedIs
  <2>2. Len(cache[i].ops) \in Nat
    BY DEF BlockInv, TypeOK, Indices
  <2>3. k \in 1 .. Len(cache[i].ops)
    BY <2>1, <2>2
  <2>4. CodeAt(i, k)
    BY <2>3 DEF BlockInv, Blocks
  <2> QED
    BY <2>1, <2>4 DEF CodeAt
<1> QED
  BY <1>1, BlockInvHolds, PTL

\* A change of the block size or of the disabled opcodes leaves no block that
\* does not obey it.
THEOREM BlocksObey == Spec => []BlocksObeyConfig
<1>1. BlockInv => BlocksObeyConfig
  <2> SUFFICES ASSUME BlockInv, NEW si \in Cached
               PROVE  /\ si[2] <= Limit
                      /\ cache[si[1]].ops[si[2]] \notin disabled
                      /\ si[2] < Len(cache[si[1]].ops) => cache[si[1]].ops[si[2]] # "jump"
    BY DEF BlocksObeyConfig, Limit
  <2>1. PICK i \in Indices, k \in Nat : /\ i = si[1] /\ k = si[2]
                                        /\ k >= 1 /\ k <= Len(cache[i].ops)
    BY CachedIs
  <2>2. Len(cache[i].ops) \in Nat
    BY DEF BlockInv, TypeOK, Indices
  <2>3. k \in 1 .. Len(cache[i].ops)
    BY <2>1, <2>2
  <2>4. AllowedAt(i, k)
    BY <2>3 DEF BlockInv, Blocks
  <2> QED
    BY <2>1, <2>4 DEF AllowedAt
<1> QED
  BY <1>1, BlockInvHolds, PTL

-----------------------------------------------------------------------------
(* The requests.                                                           *)

\* The inductive invariant of RequestsApplied: a request outstanding is the
\* last one, and what the worker has read is what it is about to reset.
SizeInForce == IF "size" \in forgot THEN 0 ELSE wanted
OpsInForce == IF "ops" \in forgot THEN {} ELSE opsReq

Requests ==
    /\ sizeReq # -1 => sizeReq = wanted /\ "size" \notin forgot
    /\ opsDirty => "ops" \notin forgot
    /\ ~raced => /\ sizeReq = -1 \/ wpc = "sized" => rtMax = SizeInForce
                 /\ wpc = "opsRead" \/ ~opsDirty => disabled = OpsInForce
    /\ wpc = "sized" => sizeReq # -1
    /\ wpc = "opsRead" => opsDirty

LEMMA NextRequests == TypeOK /\ Requests /\ [Next]_vars => Requests'
<1> SUFFICES ASSUME TypeOK, Requests, [Next]_vars PROVE Requests'
  OBVIOUS
<1> USE DEF Requests, SizeInForce, OpsInForce
<1>1. CASE Compile \/ RunBlock \/ Interpret \/ Trap \/ FailedBoot
  <2>1. UNCHANGED <<config, request, wpc>>
    BY <1>1 DEF Compile, RunBlock, Interpret, Trap, FailedBoot
  <2> QED
    BY <2>1 DEF config, request
<1>2. ASSUME NEW n \in Sizes \cup {0}, AskSize(n) PROVE Requests'
  <2>1. /\ sizeReq' = n /\ wanted' = n /\ forgot' = forgot \ {"size"}
        /\ UNCHANGED <<rtMax, disabled, opsReq, opsDirty, wpc>>
        /\ ~raced' => ~raced /\ wpc # "sized"
    BY <1>2 DEF AskSize, config
  <2>2. n # -1
    BY JitAssumption
  <2>3. "size" \notin forgot' /\ ("ops" \in forgot' <=> "ops" \in forgot)
    BY <2>1
  <2> QED
    BY <2>1, <2>2, <2>3
<1>3. ASSUME NEW ops \in SUBSET {"add", "mem"}, AskOps(ops) PROVE Requests'
  <2>1. /\ opsReq' = ops /\ opsDirty' = TRUE /\ forgot' = forgot \ {"ops"}
        /\ UNCHANGED <<rtMax, disabled, sizeReq, wanted, wpc>>
        /\ ~raced' => ~raced /\ wpc # "opsRead"
    BY <1>3 DEF AskOps, config
  <2>2. "ops" \notin forgot' /\ ("size" \in forgot' <=> "size" \in forgot)
    BY <2>1
  <2> QED
    BY <2>1, <2>2
<1>4. CASE ReadSize
  <2>1. /\ UNCHANGED <<disabled, sizeReq, opsReq, opsDirty, wanted, raced, forgot>>
        /\ wpc = "idle"
    BY <1>4 DEF ReadSize, request
  <2>2. \/ sizeReq # -1 /\ wpc' = "sized" /\ rtMax' = sizeReq
        \/ wpc' = "ops" /\ UNCHANGED rtMax
    BY <1>4 DEF ReadSize
  <2> QED
    BY <2>1, <2>2
<1>5. CASE ResetSize
  BY <1>5 DEF ResetSize, config
<1>6. CASE ReadOps
  <2>1. /\ UNCHANGED <<rtMax, sizeReq, opsReq, opsDirty, wanted, raced, forgot>>
        /\ wpc = "ops"
    BY <1>6 DEF ReadOps, request
  <2>2. \/ opsDirty /\ wpc' = "opsRead" /\ disabled' = opsReq
        \/ wpc' = "run" /\ UNCHANGED disabled
    BY <1>6 DEF ReadOps
  <2> QED
    BY <2>1, <2>2
<1>7. CASE ResetOps
  BY <1>7 DEF ResetOps, config
<1>8. CASE EndStep
  BY <1>8 DEF EndStep, config, request
<1>9. CASE Boot
  <2>1. /\ UNCHANGED <<sizeReq, opsReq, opsDirty, wanted, raced, wpc>> /\ wpc = "idle"
        /\ rtMax' = 0 /\ disabled' = {}
        /\ forgot' = (IF sizeReq = -1 THEN {"size"} ELSE {})
                     \cup (IF opsDirty THEN {} ELSE {"ops"})
    BY <1>9 DEF Boot
  <2>2. ("size" \in forgot' <=> sizeReq = -1) /\ ("ops" \in forgot' <=> ~opsDirty)
    BY <2>1
  <2> QED
    BY <2>1, <2>2
<1>10. CASE UNCHANGED vars
  BY <1>10 DEF vars, config, request
<1> QED
  BY <1>1, <1>2, <1>3, <1>4, <1>5, <1>6, <1>7, <1>8, <1>9, <1>10 DEF Next

\* No request of a session is lost, except in the two windows of the worker's
\* unlocked read and reset; a boot undoes exactly those that were in force.
THEOREM RequestsAreApplied == Spec => []RequestsApplied
<1>1. Init => Requests
  BY DEF Init, Requests, SizeInForce, OpsInForce
<1>2. TypeOK /\ Requests => RequestsApplied
  BY DEF Requests, SizeInForce, OpsInForce, RequestsApplied, TypeOK
<1> QED
  BY <1>1, <1>2, NextRequests, JitTypeCorrect, PTL DEF Spec

=============================================================================
